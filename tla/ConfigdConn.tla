---------------------------- MODULE ConfigdConn ----------------------------
(***************************************************************************)
(* The configd client connection (src/src/client/connect.c), the error     *)
(* structure it fills in (error.c) and the RPC wrappers built on the four  *)
(* getters get_int, get_str, get_vector and get_map (session.c, node.c,    *)
(* transaction.c, template.c, callrpc.c, auth.c, file.c).                  *)
(*                                                                         *)
(* One client process talks to configd, a separate daemon, over a Unix     *)
(* stream socket.  A call writes one JSON request and reads one JSON       *)
(* reply; there is no timeout.  What configd sends is external to this     *)
(* repository: it answers requests in order, with any body in Replies, it  *)
(* may close the connection or die at any moment, and, up to MaxStray      *)
(* times per connection, it may repeat an answer or send bytes that are    *)
(* not JSON.  The client's checks (the id comparison, the parse loop) are  *)
(* there for the last two.                                                 *)
(***************************************************************************)
EXTENDS Integers, Sequences, ConfigdApi, ConfigdReply

CONSTANTS
  MaxCalls,     \* bound on the calls made on one connection
  MaxStray,     \* bound on the unsolicited messages on one connection
  IdModulus,    \* conn->req_id is an unsigned int: it counts modulo this
  Replies,      \* the reply bodies configd may send
  ShortWrites,  \* whether write() may accept only part of a request
  MissingIds    \* whether an answer may come without an integer id

ASSUME ConnAssumption ==
  /\ MaxCalls \in Nat \ {0}
  /\ MaxStray \in Nat
  /\ IdModulus \in Nat \ {0}
  /\ MaxStray < IdModulus
  /\ ShortWrites \in BOOLEAN
  /\ MissingIds \in BOOLEAN
  /\ Replies \subseteq Bodies

VARIABLES
  pc,      \* the client: "closed", "refused" (open failed), "idle", "recv"
           \* (in recv_response), "returned", "killed", "crashed"
  fd,      \* conn->fd: "none" or "open"
  srv,     \* configd is running
  link,    \* the socket pair: "none", "up", "eof" (configd's end closed)
  n,       \* calls made on this connection; call n is the current one
  reqId,   \* conn->req_id
  served,  \* the last call configd executed on this connection
  strays,  \* unsolicited messages so far
  c2s,     \* requests on their way to configd
  s2c,     \* messages on their way to the client
  call,    \* the wrapper being called, and whether the caller passed an error
  out,     \* what the call left behind
  of,      \* the call whose answer was consumed last; 0 for none
  undef    \* an unset resp->type was read on this connection

vars == <<pc, fd, srv, link, n, reqId, served, strays, c2s, s2c, call, out,
          of, undef>>

wire == <<link, served, strays, c2s, s2c>>

NoId == -1
NoList == [form |-> "null", entries |-> <<>>]
NoBody == [result |-> "null", error |-> "null", list |-> NoList]
Ids == 0..(IdModulus - 1)

Requests == [of : Nat, id : Ids, whole : BOOLEAN]
Messages == [json : BOOLEAN, of : Nat, id : Ids \cup {NoId}, body : Bodies]
Calls == [kind : Kinds, conv : {"raw", "not", "one", "fmt"}, hasErr : BOOLEAN]

NoCall == [kind |-> "INT", conv |-> "raw", hasErr |-> FALSE]

\* Every variable stays in its range; in particular each conversion of each
\* wrapper yields an outcome the caller can interpret.
TypeOK ==
  /\ pc \in {"closed", "refused", "idle", "recv", "returned", "killed", "crashed"}
  /\ fd \in {"none", "open"}
  /\ srv \in BOOLEAN
  /\ link \in {"none", "up", "eof"}
  /\ n \in Nat
  /\ reqId \in Ids
  /\ served \in Nat
  /\ strays \in 0..MaxStray
  /\ c2s \in Seq(Requests)
  /\ s2c \in Seq(Messages)
  /\ call \in Calls
  /\ out \in Outcomes
  /\ of \in Nat
  /\ undef \in BOOLEAN

\* A connection about which nothing has happened yet.
ResetTo(linkState) ==
  /\ link' = linkState
  /\ n' = 0
  /\ reqId' = 0
  /\ served' = 0
  /\ strays' = 0
  /\ c2s' = <<>>
  /\ s2c' = <<>>
  /\ call' = NoCall
  /\ out' = Fresh
  /\ of' = 0
  /\ undef' = FALSE

Init ==
  /\ pc = "closed"
  /\ fd = "none"
  /\ srv = TRUE
  /\ link = "none"
  /\ n = 0
  /\ reqId = 0
  /\ served = 0
  /\ strays = 0
  /\ c2s = <<>>
  /\ s2c = <<>>
  /\ call = NoCall
  /\ out = Fresh
  /\ of = 0
  /\ undef = FALSE

-----------------------------------------------------------------------------
(* Opening and closing. *)

OpenSucceeds ==
  /\ pc \in {"closed", "refused"}
  /\ srv
  /\ pc' = "idle"
  /\ fd' = "open"
  /\ ResetTo("up")
  /\ UNCHANGED srv

\* The descriptor after configd_open_connection failed at a stage: connect()
\* and fdopen() failures close it, a socket() failure never had one.
FdAfterFailure(stage) == "none"

OpenFails(stage) ==
  /\ pc \in {"closed", "refused"}
  /\ (stage = "fdopen") => srv
  /\ pc' = "refused"
  /\ fd' = FdAfterFailure(stage)
  /\ ResetTo("none")
  /\ UNCHANGED srv

configd_open_connection ==
  \/ OpenSucceeds
  \/ \E stage \in {"socket", "connect", "fdopen"} : OpenFails(stage)

\* fclose(conn->fp) closes the descriptor as well.
configd_close_connection ==
  /\ pc = "idle"
  /\ pc' = "closed"
  /\ fd' = "none"
  /\ ResetTo("none")
  /\ UNCHANGED srv

-----------------------------------------------------------------------------
(* Calls. *)

\* The call ends: the caller looks at outcome o, for which it consumed the
\* answer to call k (0 when it consumed none).
Return(o, k) ==
  /\ pc' = IF o.crash THEN "crashed" ELSE "returned"
  /\ out' = o
  /\ of' = k

\* Arguments that json_pack refuses (a NULL or a string that is not UTF-8):
\* the wrapper returns before it initialises the error.
PackFails(w, hasErr) ==
  /\ pc = "idle"
  /\ call' = [kind |-> w.kind, conv |-> w.conv, hasErr |-> hasErr]
  /\ Return(Fresh, 0)
  /\ UNCHANGED <<fd, srv, wire, n, reqId, undef>>

\* configd_save accepts no arguments: it fails without a request.
SaveRefuses(hasErr) ==
  /\ pc = "idle"
  /\ call' = [kind |-> CommitApi.save.kind, conv |-> CommitApi.save.conv,
              hasErr |-> hasErr]
  /\ Return(error_setf(Fresh, hasErr), 0)
  /\ UNCHANGED <<fd, srv, wire, n, reqId, undef>>

\* Mutant: the id is counted in more bits than it is sent with.
NextRequestWide(w, hasErr) ==
  /\ pc = "idle"
  /\ n < MaxCalls
  /\ n' = n + 1
  /\ reqId' = n + 1
  /\ call' = [kind |-> w.kind, conv |-> w.conv, hasErr |-> hasErr]

\* ++(conn->req_id), whatever becomes of the request.
NextRequest(w, hasErr) ==
  /\ pc = "idle"
  /\ n < MaxCalls
  /\ n' = n + 1
  /\ reqId' = (n + 1) % IdModulus
  /\ call' = [kind |-> w.kind, conv |-> w.conv, hasErr |-> hasErr]

\* Mutant: the request is written again after a write that was taken for short.
SendRequestTwice(w, hasErr) ==
  /\ NextRequest(w, hasErr)
  /\ link = "up"
  /\ LET r == [of |-> n + 1, id |-> reqId', whole |-> TRUE]
     IN c2s' = c2s \o <<r, r>>
  /\ pc' = "recv"
  /\ out' = Fresh
  /\ of' = 0
  /\ UNCHANGED <<fd, srv, link, served, strays, s2c, undef>>

\* write() takes the request, or with a short write a part of it; send_request
\* only tells -1 from the rest.
SendRequest(w, hasErr) ==
  /\ NextRequest(w, hasErr)
  /\ link = "up"
  /\ \E whole \in {TRUE, ~ShortWrites} :
       c2s' = Append(c2s, [of |-> n + 1, id |-> reqId', whole |-> whole])
  /\ pc' = "recv"
  /\ out' = Fresh
  /\ of' = 0
  /\ UNCHANGED <<fd, srv, link, served, strays, s2c, undef>>

\* configd's end is closed: EPIPE where SIGPIPE is ignored, else the signal.
SendFails(w, hasErr) ==
  /\ NextRequest(w, hasErr)
  /\ link = "eof"
  /\ \/ Return(Convert(w.conv, error_setf(Fresh, hasErr), hasErr), 0)
     \/ /\ pc' = "killed"
        /\ out' = Fresh
        /\ of' = 0
  /\ UNCHANGED <<fd, srv, wire, undef>>

\* json_loadf fails on what is not JSON, and the loop tries again after it.
SkipGarbage ==
  /\ pc = "recv"
  /\ s2c # <<>>
  /\ ~Head(s2c).json
  /\ s2c' = Tail(s2c)
  /\ UNCHANGED <<pc, fd, srv, link, n, reqId, served, strays, c2s, call, out,
                 of, undef>>

\* Mutant: the id is not compared with that of the request.
AcceptsAnyId(msg, resp) == resp.ok

\* recv_response: a response is good if its member could be extracted and its
\* id is the one this request carried; an id that is no integer is reported,
\* but not compared.
Accepts(msg, resp) ==
  resp.ok /\ IF msg.id = NoId THEN GoodWithoutId(msg.body) ELSE msg.id = reqId

Receive ==
  /\ pc = "recv"
  /\ s2c # <<>>
  /\ Head(s2c).json
  /\ \E resp \in Extract(Head(s2c).body) :
       LET msg == Head(s2c)
           r   == [resp EXCEPT !.ok = Accepts(msg, resp)]
           got == Get(call.kind, call.hasErr, r, msg.body.list.entries)
       IN Return(Convert(call.conv, got, call.hasErr), msg.of)
  /\ undef' = (undef \/ ReadsUnsetType(Head(s2c).body))
  /\ s2c' = Tail(s2c)
  /\ UNCHANGED <<fd, srv, link, n, reqId, served, strays, c2s, call>>

\* Mutant: a stream with nothing to read is taken for its end.
ReceiveEofEarly ==
  /\ pc = "recv"
  /\ s2c = <<>>
  /\ Return(Convert(call.conv, error_setf(Fresh, call.hasErr), call.hasErr), 0)
  /\ UNCHANGED <<fd, srv, wire, n, reqId, call, undef>>

\* Mutant: the loop has no test for the end of the stream.
ReceiveEofIgnored ==
  /\ pc = "recv"
  /\ s2c = <<>>
  /\ link = "eof"
  /\ UNCHANGED vars

\* feof(conn->fp) ends the loop with no response; resp.type is unset, but the
\* union is zero, so response_free frees nothing.
ReceiveEof ==
  /\ pc = "recv"
  /\ s2c = <<>>
  /\ link = "eof"
  /\ Return(Convert(call.conv, error_setf(Fresh, call.hasErr), call.hasErr), 0)
  /\ UNCHANGED <<fd, srv, wire, n, reqId, call, undef>>

\* The caller frees the result and calls configd_error_free.
CallerFrees ==
  /\ pc = "returned"
  /\ pc' = "idle"
  /\ out' = [Fresh EXCEPT !.heap = out.heap \ Owned(out)]
  /\ UNCHANGED <<fd, srv, wire, n, reqId, call, of, undef>>

\* The process is gone; the next one starts without a connection.
Exit ==
  /\ pc \in {"killed", "crashed"}
  /\ pc' = "closed"
  /\ fd' = "none"
  /\ ResetTo("none")
  /\ UNCHANGED srv

-----------------------------------------------------------------------------
(* configd (external). *)

client == <<pc, fd, n, reqId, call, out, of, undef>>

\* What an answer to a request with this id may carry as its id.
AnswerIds(id) == {id} \cup (IF MissingIds THEN {NoId} ELSE {})

\* Execute the oldest request and answer it.
Serve(body) ==
  /\ link = "up"
  /\ c2s # <<>>
  /\ Head(c2s).whole
  /\ served' = Head(c2s).of
  /\ c2s' = Tail(c2s)
  /\ \E id \in AnswerIds(Head(c2s).id) :
       s2c' = Append(s2c, [json |-> TRUE, of |-> Head(c2s).of, id |-> id,
                           body |-> body])
  /\ UNCHANGED <<client, srv, link, strays>>

\* The last answer once more.
Repeat(body) ==
  /\ link = "up"
  /\ served > 0
  /\ strays < MaxStray
  /\ strays' = strays + 1
  /\ s2c' = Append(s2c, [json |-> TRUE, of |-> served,
                         id |-> served % IdModulus, body |-> body])
  /\ UNCHANGED <<client, srv, link, served, c2s>>

Garbage ==
  /\ link = "up"
  /\ strays < MaxStray
  /\ strays' = strays + 1
  /\ s2c' = Append(s2c, [json |-> FALSE, of |-> 0, id |-> NoId, body |-> NoBody])
  /\ UNCHANGED <<client, srv, link, served, c2s>>

\* configd drops the connection, or dies: requests it has not read are lost.
HangUp ==
  /\ link = "up"
  /\ link' = "eof"
  /\ c2s' = <<>>
  /\ srv' \in BOOLEAN
  /\ UNCHANGED <<client, served, strays, s2c>>

Restart ==
  /\ ~srv
  /\ srv' = TRUE
  /\ UNCHANGED <<client, wire>>

-----------------------------------------------------------------------------

Call ==
  \E w \in Wrappers, hasErr \in BOOLEAN :
    \/ PackFails(w, hasErr)
    \/ SendRequest(w, hasErr)
    \/ SendFails(w, hasErr)

recv_response ==
  \/ SkipGarbage
  \/ Receive
  \/ ReceiveEof

configd ==
  \/ \E body \in Replies : Serve(body) \/ Repeat(body)
  \/ Garbage
  \/ HangUp
  \/ Restart

Next ==
  \/ configd_open_connection
  \/ configd_close_connection
  \/ Call
  \/ \E hasErr \in BOOLEAN : SaveRefuses(hasErr)
  \/ recv_response
  \/ CallerFrees
  \/ Exit
  \/ configd

Spec == Init /\ [][Next]_vars

\* configd keeps working on what it was asked until it answers or goes away,
\* and the client keeps reading.
FairSpec ==
  /\ Spec
  /\ WF_vars(recv_response)
  /\ WF_vars(HangUp \/ \E body \in Replies : Serve(body))

-----------------------------------------------------------------------------
(* Properties. *)

\* Answers can be told apart: they all carry their id, or there are no
\* unsolicited messages.
IdsSuffice == ~MissingIds \/ MaxStray = 0

\* A call that reports success did so on configd's answer to that very
\* request, which configd has executed: not on a repeated answer to an earlier
\* one, even though ids wrap around (recv_response's id comparison).  It needs
\* IdsSuffice.
OwnAnswer ==
  (pc = "returned" /\ out.val # -1) => (of = n /\ served = n)

\* Every call consumes one reply: what is in flight in either direction is at
\* most the unsolicited messages, and one more while a call waits.  It is what
\* keeps a stale answer from ever being a whole id cycle old.
OneReplyPerCall ==
  (link = "up" \/ pc = "recv") =>
     (n - served) + Len(s2c) <= strays + (IF pc = "recv" THEN 1 ELSE 0)

RequestsInOrder ==
  link = "up" =>
     /\ Len(c2s) = n - served
     /\ \A i \in 1..Len(c2s) :
          c2s[i].of = served + i /\ c2s[i].id = c2s[i].of % IdModulus

AnswersInOrder ==
  \A i \in 1..Len(s2c) : s2c[i].json =>
     /\ s2c[i].of <= served
     /\ served - s2c[i].of <= Len(s2c) - i
     /\ s2c[i].id \in AnswerIds(s2c[i].of % IdModulus)

\* Requests and answers in flight are in order and without gaps: configd will
\* execute the calls after the last executed one, each once, and an answer is
\* at most as many calls old as there are messages behind it in the stream.
InOrder ==
  /\ reqId = n % IdModulus
  /\ served <= n
  /\ RequestsInOrder
  /\ AnswersInOrder

\* Unless an unset resp->type was read, the memory allocated when a call
\* returns is what the caller was given, also when a list of errors broke off
\* at any of its entries (process_errlist_array), nothing is left once the caller has
\* freed it, and a connection that is not open holds no descriptor.
MemoryOwned ==
  /\ (pc = "returned" /\ ~undef) => out.heap = Owned(out)
  /\ (pc \in {"idle", "closed", "refused"} /\ ~undef) => out.heap = {}
  /\ pc \in {"closed", "refused"} => fd = "none"

\* A call that reports success leaves the caller's error empty; CfgClient's
\* helpers rely on it and free the error on failure only.
SuccessLeavesNoError ==
  (pc = "returned" /\ out.val # -1) => Owned(out) \subseteq {out.obj}

\* A call returns, or its process is gone, as long as configd answers or
\* closes the connection: neither garbage nor end of file keeps it waiting.
CallReturns == (pc = "recv") ~> (pc # "recv")

\* The connection implements the abstract RPC interface.
Rpc == INSTANCE AtomicRpc WITH
         status   <- IF pc = "recv" THEN "pending" ELSE "ready",
         invoked  <- n,
         executed <- served,
         outcome  <- IF pc # "returned" THEN "none"
                     ELSE IF out.val = -1 THEN "failed" ELSE "value"

\* Requests are executed in order and at most once, and only an executed call
\* returns a value (AtomicRpc), whatever fails on the way.
ImplementsAtomicRpc == Rpc!Spec
=============================================================================
