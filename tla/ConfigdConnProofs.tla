------------------------- MODULE ConfigdConnProofs -------------------------
(***************************************************************************)
(* Theorems about ConfigdConn, for every value of its constants: type      *)
(* correctness; that a success rests on the call's own answer, with the    *)
(* two invariants it depends on; that the connection implements AtomicRpc; *)
(* and that every call accounts for the memory it allocates.               *)
(***************************************************************************)
EXTENDS ConfigdConn, SequenceTheorems, WellFoundedInduction, TLAPS

\* A remainder is an id.
LEMMA ModRange ==
  ASSUME NEW M \in Nat \ {0}, NEW a \in Nat
  PROVE  a % M \in 0..(M - 1)
BY SMT

\* The only multiple of M between 0 and M - 1 is 0.
LEMMA SmallMultiple ==
  ASSUME NEW M \in Nat \ {0}, NEW k \in Int, 0 <= M * k, M * k < M
  PROVE  k = 0
<1>1. ASSUME k >= 1 PROVE FALSE
  <2>1. M * k = M + M * (k - 1)
    BY SMT
  <2>2. M * (k - 1) >= 0
    BY <1>1, SMT
  <2> QED
    BY <2>1, <2>2, SMT
<1>2. ASSUME k <= -1 PROVE FALSE
  <2>1. M * k = M * (k + 1) - M
    BY SMT
  <2>2. M * (k + 1) <= 0
    BY <1>2, SMT
  <2> QED
    BY <2>1, <2>2, SMT
<1> QED
  BY <1>1, <1>2, SMT

\* Two numbers less than M apart with the same remainder are equal: an id
\* identifies a request among the last IdModulus of them.
LEMMA ModUnique ==
  ASSUME NEW M \in Nat \ {0}, NEW a \in Nat, NEW b \in Nat,
         a % M = b % M, a <= b, b - a < M
  PROVE  a = b
<1> DEFINE p == a \div M
           q == b \div M
<1>1. /\ a = M * p + (a % M)
      /\ b = M * q + (b % M)
      /\ p \in Int
      /\ q \in Int
  BY SMT
<1>2. b - a = M * (q - p)
  BY <1>1, SMT
<1> HIDE DEF p, q
<1>3. q - p = 0
  <2>1. q - p \in Int
    BY <1>1, SMT
  <2>2. 0 <= M * (q - p) /\ M * (q - p) < M
    BY <1>2, SMT
  <2> QED
    BY <2>1, <2>2, SmallMultiple
<1>4. M * (q - p) = 0
  BY <1>3, SMT
<1> QED
  BY <1>2, <1>4, SMT

-----------------------------------------------------------------------------

\* An untouched outcome is an outcome.
LEMMA FreshType == Fresh \in Outcomes
BY DEF Fresh, Outcomes

\* error_setf leaves the result alone.
LEMMA SetfType ==
  ASSUME NEW o \in Outcomes, NEW e \in BOOLEAN
  PROVE  /\ error_setf(o, e) \in Outcomes
         /\ error_setf(o, e).val = o.val
BY DEF error_setf, Outcomes

\* A response built by Resp is a response.
LEMMA RespType ==
  ASSUME NEW o \in BOOLEAN, NEW t \in StackValue, NEW p \in BOOLEAN,
         NEW v \in 0..2
  PROVE  Resp(o, t, p, v) \in Resps
BY DEF Resp, Resps

\* Whatever its form, a body is decoded to a response.
LEMMA ExtractType ==
  ASSUME NEW body \in Bodies, NEW r \in Extract(body)
  PROVE  r \in Resps
<1>1. /\ {"INT", "STRING", "VECTOR", "MAP", "ERROR", "MGMTERROR"} \subseteq StackValue
      /\ 0 \in 0..2 /\ 1 \in 0..2 /\ 2 \in 0..2
      /\ TRUE \in BOOLEAN /\ FALSE \in BOOLEAN
  BY DEF StackValue, RespTypes
<1>2. ASSUME NEW x \in Untyped PROVE x \in Resps
  <2>1. PICK t \in StackValue : x = Resp(TRUE, t, FALSE, 0)
    BY DEF Untyped
  <2> QED
    BY <1>1, <2>1, RespType
<1>3. ASSUME NEW f, NEW x \in extract_result(f) PROVE x \in Resps
  BY <1>1, <1>2, <1>3, RespType DEF extract_result
<1>4. ASSUME NEW f, NEW x \in extract_error(f) PROVE x \in Resps
  BY <1>1, <1>4, RespType DEF extract_error
<1>5. ASSUME NEW f, NEW x \in extract_mgmt_error_list(f) PROVE x \in Resps
  <2> DEFINE ok == Extracted(f.entries)
  <2>1. ok \in BOOLEAN /\ (~Accounted(f.entries)) \in BOOLEAN
    BY DEF Extracted, Accounted
  <2>2. Resp(ok, "MGMTERROR", ok, 0) \in Resps /\ Resp(FALSE, "MGMTERROR", FALSE, 0) \in Resps
    BY <1>1, <2>1, RespType
  <2>3. ASSUME NEW y \in Resps, NEW b \in BOOLEAN PROVE [y EXCEPT !.stray = b] \in Resps
    BY DEF Resps
  <2>4. extract_mgmt_error_list(f) =
          IF f.form = "malformed" THEN {Resp(FALSE, "MGMTERROR", FALSE, 0)}
          ELSE {[Resp(ok, "MGMTERROR", ok, 0) EXCEPT !.stray = ~Accounted(f.entries)]}
    BY DEF extract_mgmt_error_list
  <2> HIDE DEF ok
  <2> QED
    BY <1>5, <2>1, <2>2, <2>3, <2>4
<1> QED
  BY <1>2, <1>3, <1>4, <1>5 DEF Extract

\* Changing what is allocated keeps an outcome an outcome.
LEMMA HeapExcept ==
  ASSUME NEW o \in Outcomes, NEW h \in SUBSET {"reply", "text", "fmt", "dup", "stray"}
  PROVE  /\ [o EXCEPT !.heap = h] \in Outcomes
         /\ [o EXCEPT !.heap = h].val = o.val
BY DEF Outcomes

\* So does changing the result.
LEMMA ValObjExcept ==
  ASSUME NEW o \in Outcomes, NEW v \in -1..2, NEW p \in {"none", "reply", "dup"},
         NEW h \in SUBSET {"reply", "text", "fmt", "dup", "stray"}
  PROVE  /\ [o EXCEPT !.val = v] \in Outcomes
         /\ [o EXCEPT !.val = v].val = v
         /\ [o EXCEPT !.val = v, !.obj = p] \in Outcomes
         /\ [o EXCEPT !.val = v, !.obj = p, !.heap = h] \in Outcomes
BY DEF Outcomes

\* A getter returns an outcome, and fails on a response that is not good.
LEMMA GetType ==
  ASSUME NEW k \in Kinds, NEW e \in BOOLEAN, NEW r \in Resps, NEW f
  PROVE  /\ Get(k, e, r, f) \in Outcomes
         /\ ~r.ok => Get(k, e, r, f).val = -1
<1> DEFINE blocks == {b \in {"reply", "stray"} : \/ b = "reply" /\ r.obj
                                                 \/ b = "stray" /\ r.stray}
           got == [Fresh EXCEPT !.heap = blocks]
           Freed(o, x) == [o EXCEPT !.heap = @ \ response_free(x)]
<1>1. got \in Outcomes /\ got.val = -1
  <2>1. blocks \in SUBSET {"reply", "text", "fmt", "dup", "stray"}
    OBVIOUS
  <2>2. Fresh.val = -1
    BY DEF Fresh
  <2> QED
    BY <2>1, <2>2, FreshType, HeapExcept
<1>2. \A o \in Outcomes : \A x : Freed(o, x) \in Outcomes /\ Freed(o, x).val = o.val
  BY DEF Outcomes
<1>3. error_set_from_mgmt_error_list(got, r, f) \in Outcomes
  BY <1>1 DEF error_set_from_mgmt_error_list, Outcomes, Resps
<1>4. error_setf(got, e) \in Outcomes /\ error_setf(got, e).val = -1
  BY <1>1, SetfType
<1>5. [got EXCEPT !.val = r.num] \in Outcomes
  <2>1. r.num \in -1..2
    BY DEF Resps
  <2> QED
    BY <1>1, <2>1, ValObjExcept
<1>6. [got EXCEPT !.val = IF r.obj THEN 0 ELSE -1,
                  !.obj = IF r.obj THEN "reply" ELSE "none"] \in Outcomes
  <2>1. /\ (IF r.obj THEN 0 ELSE -1) \in -1..2
        /\ (IF r.obj THEN "reply" ELSE "none") \in {"none", "reply", "dup"}
    OBVIOUS
  <2> QED
    BY <1>1, <2>1, ValObjExcept
<1> HIDE DEF got, Freed
<1>7. Get(k, e, r, f) =
        CASE ~r.ok -> Freed(error_setf(got, e), r)
          [] r.ok /\ r.type = k /\ k = "INT" -> [got EXCEPT !.val = r.num]
          [] r.ok /\ r.type = k /\ k # "INT" ->
               [got EXCEPT !.val = IF r.obj THEN 0 ELSE -1,
                           !.obj = IF r.obj THEN "reply" ELSE "none"]
          [] r.ok /\ r.type = "ERROR" -> Freed(error_setf(got, e), r)
          [] r.ok /\ r.type = "MGMTERROR" /\ e ->
               Freed(error_set_from_mgmt_error_list(got, r, f), Disowned(r))
          [] OTHER -> Freed(got, r)
  BY DEF Get, got, Freed
<1> QED
  BY <1>1, <1>2, <1>3, <1>4, <1>5, <1>6, <1>7

\* A wrapper returns an outcome, and does not turn a failure into a success.
LEMMA ConvertType ==
  ASSUME NEW c, NEW o \in Outcomes, NEW e \in BOOLEAN
  PROVE  /\ Convert(c, o, e) \in Outcomes
         /\ o.val = -1 => Convert(c, o, e).val = -1
<1>1. configd_error_format_for_commit_or_val(o, e) \in Outcomes
  BY DEF configd_error_format_for_commit_or_val, Outcomes
<1>2. configd_error_format_for_commit_or_val(o, e).val = o.val
  BY DEF configd_error_format_for_commit_or_val, Outcomes
<1>3. /\ [o EXCEPT !.val = Negated(@)] \in Outcomes
      /\ o.val = -1 => [o EXCEPT !.val = Negated(@)].val = -1
  <2>1. Negated(o.val) \in -1..2 /\ (o.val = -1 => Negated(o.val) = -1)
    BY DEF Negated
  <2> QED
    BY <2>1, ValObjExcept
<1>4. [o EXCEPT !.val = 0, !.obj = "dup", !.heap = @ \cup {"dup"}] \in Outcomes
  <2>1. /\ o.heap \cup {"dup"} \in SUBSET {"reply", "text", "fmt", "dup", "stray"}
        /\ 0 \in -1..2
        /\ "dup" \in {"none", "reply", "dup"}
    BY DEF Outcomes
  <2> QED
    BY <2>1, ValObjExcept
<1>5. [o EXCEPT !.val = -1] \in Outcomes
  BY DEF Outcomes
<1> QED
  BY <1>1, <1>2, <1>3, <1>4, <1>5 DEF Convert, Outcomes

-----------------------------------------------------------------------------

\* Every function of the API expects what one of the getters returns and uses one of
\* the four conversions.
LEMMA WrapperType ==
  ASSUME NEW w \in Wrappers
  PROVE  w \in [kind : Kinds, conv : {"raw", "not", "one", "fmt"}]
<1> DEFINE W == [kind : Kinds, conv : {"raw", "not", "one", "fmt"}]
<1> USE DEF RangeOf, Wrapper, Kinds
<1>1. RangeOf(SessionApi) \subseteq W
  BY DEF SessionApi
<1>2. RangeOf(GetHelpApi) \subseteq W
  BY DEF GetHelpApi
<1>3. RangeOf(NodeApi) \subseteq W
  BY DEF NodeApi
<1>4. RangeOf(TemplateApi) \subseteq W
  BY DEF TemplateApi
<1>5. RangeOf(EditApi) \subseteq W
  BY DEF EditApi
<1>6. RangeOf(CommitApi) \subseteq W
  BY DEF CommitApi
<1>7. RangeOf(ValidateApi) \subseteq W
  BY DEF ValidateApi
<1>8. RangeOf(CallRpcApi) \subseteq W
  BY DEF CallRpcApi
<1>9. RangeOf(AuthApi) \subseteq W
  BY DEF AuthApi
<1>10. RangeOf(FileApi) \subseteq W
  BY DEF FileApi
<1> HIDE DEF W, RangeOf
<1>11. w \in W
  BY <1>1, <1>2, <1>3, <1>4, <1>5, <1>6, <1>7, <1>8, <1>9, <1>10 DEF Wrappers
<1> QED
  BY <1>11 DEF W

\* The outcome of a call that failed before or at the write, or at end of file.
LEMMA UnansweredType ==
  ASSUME NEW c, NEW e \in BOOLEAN
  PROVE  /\ Convert(c, error_setf(Fresh, e), e) \in Outcomes
         /\ Convert(c, error_setf(Fresh, e), e).val = -1
<1>1. Fresh.val = -1
  BY DEF Fresh
<1> QED
  BY <1>1, FreshType, SetfType, ConvertType

\* The outcome of a call that received message msg, decoded as resp.
ReceivedOutcome(msg, resp) ==
  Convert(call.conv,
          Get(call.kind, call.hasErr,
              [resp EXCEPT !.ok = Accepts(msg, resp)], msg.body.list.entries),
          call.hasErr)

\* A received message gives an outcome, a success only if its id is current or
\* missing.
LEMMA ReceivedType ==
  ASSUME TypeOK, NEW msg \in Messages, NEW resp \in Extract(msg.body)
  PROVE  /\ ReceivedOutcome(msg, resp) \in Outcomes
         /\ ReceivedOutcome(msg, resp).val # -1 => msg.id \in {reqId, NoId}
<1> DEFINE r == [resp EXCEPT !.ok = Accepts(msg, resp)]
<1>1. msg.body \in Bodies
  BY DEF Messages
<1>2. resp \in Resps
  BY <1>1, ExtractType
<1>3. Accepts(msg, resp) \in BOOLEAN
  BY <1>2 DEF Accepts, GoodWithoutId, Resps
<1>4. r \in Resps /\ r.ok = Accepts(msg, resp)
  BY <1>2, <1>3 DEF Resps
<1>5. call.kind \in Kinds /\ call.hasErr \in BOOLEAN
  BY DEF TypeOK, Calls
<1> HIDE DEF r
<1> DEFINE got == Get(call.kind, call.hasErr, r, msg.body.list.entries)
<1>6. got \in Outcomes /\ (~r.ok => got.val = -1)
  BY <1>4, <1>5, GetType
<1> HIDE DEF got
<1>7. /\ Convert(call.conv, got, call.hasErr) \in Outcomes
      /\ got.val = -1 => Convert(call.conv, got, call.hasErr).val = -1
  BY <1>5, <1>6, ConvertType
<1>8. ReceivedOutcome(msg, resp) = Convert(call.conv, got, call.hasErr)
  BY DEF ReceivedOutcome, got, r
<1> QED
  BY <1>4, <1>6, <1>7, <1>8 DEF Accepts

-----------------------------------------------------------------------------

\* Ids are remainders.
LEMMA IdType == 0 \in Ids /\ \A k \in Nat : k % IdModulus \in Ids
BY ConnAssumption, ModRange DEF Ids

\* A connection about which nothing has happened is well typed.
LEMMA ResetType ==
  ASSUME NEW l \in {"none", "up", "eof"}, ResetTo(l)
  PROVE  /\ link' \in {"none", "up", "eof"}
         /\ n' \in Nat /\ reqId' \in Ids /\ served' \in Nat
         /\ strays' \in 0..MaxStray
         /\ c2s' \in Seq(Requests) /\ s2c' \in Seq(Messages)
         /\ call' \in Calls /\ out' \in Outcomes /\ of' \in Nat
         /\ undef' \in BOOLEAN
<1>1. NoCall \in Calls
  BY DEF NoCall, Calls, Kinds
<1>2. <<>> \in Seq(Requests) /\ <<>> \in Seq(Messages)
  OBVIOUS
<1>3. 0 \in 0..MaxStray
  BY ConnAssumption
<1> QED
  BY <1>1, <1>2, <1>3, IdType, FreshType DEF ResetTo

\* A call is a wrapper and whether the caller passed an error.
LEMMA CallType ==
  ASSUME NEW w \in Wrappers, NEW e \in BOOLEAN
  PROVE  [kind |-> w.kind, conv |-> w.conv, hasErr |-> e] \in Calls
BY WrapperType DEF Calls

\* Messages are built from their fields.
LEMMA BodyType ==
  ASSUME NEW k \in Nat, NEW id \in Ids \cup {NoId}, NEW body \in Bodies,
         NEW j \in BOOLEAN
  PROVE  [json |-> j, of |-> k, id |-> id, body |-> body] \in Messages
BY DEF Messages

\* The same for requests.
LEMMA RequestType ==
  ASSUME NEW k \in Nat, NEW id \in Ids, NEW whole \in BOOLEAN
  PROVE  [of |-> k, id |-> id, whole |-> whole] \in Requests
BY DEF Requests

\* configd sends bodies.
LEMMA ReplyType == ASSUME NEW body \in Replies PROVE body \in Bodies
BY ConnAssumption

\* So is the body of what is not JSON.
LEMMA NoBodyType == NoBody \in Bodies
BY DEF NoBody, NoList, Bodies

\* Every step preserves the types.
LEMMA TypeStep == TypeOK /\ [Next]_vars => TypeOK'
<1> SUFFICES ASSUME TypeOK, [Next]_vars
             PROVE  TypeOK'
  OBVIOUS
<1> USE DEF TypeOK
<1>1. CASE OpenSucceeds
  BY <1>1, ResetType DEF OpenSucceeds
<1>2. ASSUME NEW stage \in {"socket", "connect", "fdopen"}, OpenFails(stage)
      PROVE  TypeOK'
  BY <1>2, ResetType DEF OpenFails, FdAfterFailure
<1>3. CASE configd_close_connection
  BY <1>3, ResetType DEF configd_close_connection
<1>4. ASSUME NEW w \in Wrappers, NEW e \in BOOLEAN, PackFails(w, e)
      PROVE  TypeOK'
  BY <1>4, CallType, FreshType DEF PackFails, Return, wire
<1>5. ASSUME NEW w \in Wrappers, NEW e \in BOOLEAN, SendRequest(w, e)
      PROVE  TypeOK'
  <2>1. reqId' \in Ids /\ n' \in Nat
    BY <1>5, IdType DEF SendRequest, NextRequest
  <2>2. call' \in Calls
    BY <1>5, CallType DEF SendRequest, NextRequest
  <2>3. PICK whole \in {TRUE, ~ShortWrites} :
          c2s' = Append(c2s, [of |-> n + 1, id |-> reqId', whole |-> whole])
    BY <1>5 DEF SendRequest
  <2>4. [of |-> n + 1, id |-> reqId', whole |-> whole] \in Requests
    <3>1. whole \in BOOLEAN
      BY ConnAssumption, <2>3, Zenon
    <3>2. n + 1 \in Nat
      OBVIOUS
    <3> QED
      BY <2>1, <3>1, <3>2, RequestType
  <2>5. c2s' \in Seq(Requests)
    BY <2>3, <2>4
  <2> QED
    BY <1>5, <2>1, <2>2, <2>5, FreshType DEF SendRequest
<1>6. ASSUME NEW w \in Wrappers, NEW e \in BOOLEAN, SendFails(w, e)
      PROVE  TypeOK'
  <2>1. reqId' \in Ids /\ n' \in Nat
    BY <1>6, IdType DEF SendFails, NextRequest
  <2>2. call' \in Calls
    BY <1>6, CallType DEF SendFails, NextRequest
  <2>3. pc' \in {"returned", "killed", "crashed"} /\ out' \in Outcomes /\ of' = 0
    BY <1>6, UnansweredType, FreshType DEF SendFails, Return
  <2> QED
    BY <1>6, <2>1, <2>2, <2>3 DEF SendFails, wire
<1>7. ASSUME NEW e \in BOOLEAN, SaveRefuses(e)
      PROVE  TypeOK'
  <2>1. call' \in Calls
    BY <1>7 DEF SaveRefuses, CommitApi, Wrapper, Calls, Kinds
  <2> QED
    BY <1>7, <2>1, FreshType, SetfType DEF SaveRefuses, Return, wire
<1>8. CASE SkipGarbage
  BY <1>8 DEF SkipGarbage
<1>9. CASE Receive
  <2>1. Head(s2c) \in Messages /\ s2c' \in Seq(Messages)
    BY <1>9 DEF Receive
  <2>2. PICK resp \in Extract(Head(s2c).body) :
          Return(ReceivedOutcome(Head(s2c), resp), Head(s2c).of)
    BY <1>9 DEF Receive, ReceivedOutcome
  <2>3. ReceivedOutcome(Head(s2c), resp) \in Outcomes
    BY <2>1, ReceivedType
  <2>4. pc' \in {"returned", "crashed"} /\ out' \in Outcomes /\ of' \in Nat
    BY <2>1, <2>2, <2>3 DEF Return, Messages
  <2>5. undef' \in BOOLEAN
    BY <1>9 DEF Receive, ReadsUnsetType
  <2> QED
    BY <1>9, <2>1, <2>4, <2>5 DEF Receive
<1>10. CASE ReceiveEof
  <2>1. call.hasErr \in BOOLEAN
    BY DEF Calls
  <2> QED
    BY <1>10, <2>1, UnansweredType DEF ReceiveEof, Return, wire
<1>11. CASE CallerFrees
  <2>1. out.heap \ Owned(out) \in SUBSET {"reply", "text", "fmt", "dup", "stray"}
    BY DEF Outcomes
  <2>2. out' \in Outcomes
    BY <1>11, <2>1, FreshType, HeapExcept DEF CallerFrees
  <2> QED
    BY <1>11, <2>2 DEF CallerFrees, wire
<1>12. CASE Exit
  BY <1>12, ResetType DEF Exit
<1>13. ASSUME NEW body \in Replies, Serve(body)
       PROVE  TypeOK'
  <2>1. Head(c2s) \in Requests /\ c2s' \in Seq(Requests)
    BY <1>13 DEF Serve
  <2>2. PICK id \in AnswerIds(Head(c2s).id) :
          s2c' = Append(s2c, [json |-> TRUE, of |-> Head(c2s).of, id |-> id,
                              body |-> body])
    BY <1>13 DEF Serve
  <2>3. Head(c2s).of \in Nat /\ id \in Ids \cup {NoId}
    BY <2>1 DEF Requests, AnswerIds
  <2>4. [json |-> TRUE, of |-> Head(c2s).of, id |-> id, body |-> body] \in Messages
    BY <2>3, BodyType, ReplyType
  <2>5. s2c' \in Seq(Messages)
    BY <2>2, <2>4, AppendProperties
  <2> QED
    BY <1>13, <2>1, <2>3, <2>5 DEF Serve, client
<1>14. ASSUME NEW body \in Replies, Repeat(body)
       PROVE  TypeOK'
  <2>1. s2c' \in Seq(Messages)
    <3>1. served % IdModulus \in Ids \cup {NoId}
      BY IdType
    <3>2. [json |-> TRUE, of |-> served, id |-> served % IdModulus,
           body |-> body] \in Messages
      BY <3>1, BodyType, ReplyType
    <3> QED
      BY <1>14, <3>2, AppendProperties DEF Repeat
  <2>2. strays' \in 0..MaxStray
    BY <1>14, ConnAssumption DEF Repeat
  <2> QED
    BY <1>14, <2>1, <2>2 DEF Repeat, client
<1>15. CASE Garbage
  <2>1. s2c' \in Seq(Messages)
    <3>1. [json |-> FALSE, of |-> 0, id |-> NoId, body |-> NoBody] \in Messages
      BY BodyType, NoBodyType
    <3> QED
      BY <1>15, <3>1, AppendProperties DEF Garbage
  <2>2. strays' \in 0..MaxStray
    BY <1>15, ConnAssumption DEF Garbage
  <2> QED
    BY <1>15, <2>1, <2>2 DEF Garbage, client
<1>16. CASE HangUp
  BY <1>16 DEF HangUp, client
<1>17. CASE Restart
  BY <1>17 DEF Restart, client, wire
<1>18. CASE UNCHANGED vars
  BY <1>18 DEF vars
<1> QED
  BY <1>1, <1>2, <1>3, <1>4, <1>5, <1>6, <1>7, <1>8, <1>9, <1>10, <1>11,
     <1>12, <1>13, <1>14, <1>15, <1>16, <1>17, <1>18
     DEF Next, configd_open_connection, Call, recv_response, configd

\* The initial state is well typed.
LEMMA InitType == Init => TypeOK
<1>1. NoCall \in Calls
  BY DEF NoCall, Calls, Kinds
<1>2. 0 \in 0..MaxStray /\ 0 \in Nat
  BY ConnAssumption
<1>3. <<>> \in Seq(Requests) /\ <<>> \in Seq(Messages)
  OBVIOUS
<1> QED
  BY <1>1, <1>2, <1>3, IdType, FreshType, Zenon DEF Init, TypeOK

\* Every reachable state of the connection is well typed: in particular the
\* conversions always yield an outcome the caller can interpret.
THEOREM TypeCorrect == Spec => []TypeOK
BY InitType, TypeStep, PTL DEF Spec

-----------------------------------------------------------------------------
(***************************************************************************)
(* The wire.  OwnAnswer is not inductive: that a stale answer cannot carry *)
(* the current id rests on how old an answer can be, which rests on how    *)
(* many messages can be in flight.                                         *)
(***************************************************************************)

\* OwnAnswer where the ids of the answers are good for it.
OwnAnswerWithIds == IdsSuffice => OwnAnswer

\* The inductive invariant.
ConnInv == TypeOK /\ InOrder /\ OneReplyPerCall /\ OwnAnswerWithIds

\* The elements of the streams are messages and requests.
LEMMA AnswerOf ==
  ASSUME TypeOK, NEW i \in 1..Len(s2c)
  PROVE  s2c[i] \in Messages /\ s2c[i].of \in Nat
<1>1. s2c[i] \in Messages
  BY ElementOfSeq DEF TypeOK
<1> QED
  BY <1>1 DEF Messages

\* Taking the first message off the stream keeps the others in order.
LEMMA TailInOrder ==
  ASSUME TypeOK, AnswersInOrder, s2c # <<>>, s2c' = Tail(s2c), served' = served
  PROVE  AnswersInOrder' /\ Len(s2c') = Len(s2c) - 1
<1>1. /\ Len(s2c) \in Nat
      /\ Len(s2c') = Len(s2c) - 1
      /\ \A i \in 1..Len(s2c') : s2c'[i] = s2c[i + 1]
  BY HeadTailProperties DEF TypeOK
<1>2. ASSUME NEW i \in 1..Len(s2c'), s2c'[i].json
      PROVE  /\ s2c'[i].of <= served'
             /\ served' - s2c'[i].of <= Len(s2c') - i
             /\ s2c'[i].id \in AnswerIds(s2c'[i].of % IdModulus)
  <2>1. i + 1 \in 1..Len(s2c) /\ s2c'[i] = s2c[i + 1]
    BY <1>1
  <2>2. /\ s2c[i + 1].of <= served
        /\ served - s2c[i + 1].of <= Len(s2c) - (i + 1)
        /\ s2c[i + 1].id \in AnswerIds(s2c[i + 1].of % IdModulus)
    BY <1>2, <2>1 DEF AnswersInOrder
  <2>3. s2c[i + 1].of \in Nat
    BY <2>1, AnswerOf
  <2> QED
    BY <1>1, <2>1, <2>2, <2>3 DEF TypeOK
<1> QED
  BY <1>1, <1>2 DEF AnswersInOrder

\* A message added at the end keeps the stream in order if it is the answer to
\* the last executed call, or no answer at all, and at most one call is
\* executed with it.
LEMMA AppendInOrder ==
  ASSUME TypeOK, AnswersInOrder, NEW m \in Messages, s2c' = Append(s2c, m),
         served' \in {served, served + 1},
         m.json => m.of = served' /\ m.id \in AnswerIds(m.of % IdModulus)
  PROVE  AnswersInOrder' /\ Len(s2c') = Len(s2c) + 1
<1>1. /\ Len(s2c) \in Nat
      /\ Len(s2c') = Len(s2c) + 1
      /\ \A i \in 1..Len(s2c) : s2c'[i] = s2c[i]
      /\ s2c'[Len(s2c) + 1] = m
  BY AppendProperties DEF TypeOK
<1>2. ASSUME NEW i \in 1..Len(s2c'), s2c'[i].json
      PROVE  /\ s2c'[i].of <= served'
             /\ served' - s2c'[i].of <= Len(s2c') - i
             /\ s2c'[i].id \in AnswerIds(s2c'[i].of % IdModulus)
  <2>1. CASE i = Len(s2c) + 1
    <3>1. s2c'[i] = m /\ m.of = served' /\ m.id \in AnswerIds(m.of % IdModulus)
      BY <1>1, <1>2, <2>1
    <3>2. served' \in Nat
      BY DEF TypeOK
    <3>3. m.of = served'
      BY <3>1
    <3>4. served' - m.of = 0 /\ m.of <= served'
      <4>1. \A a \in Nat : a - a = 0 /\ a <= a
        OBVIOUS
      <4> QED
        BY <3>2, <3>3, <4>1, Zenon
    <3>5. Len(s2c') - i = 0
      BY <1>1, <2>1
    <3> QED
      BY <3>1, <3>4, <3>5
  <2>2. CASE i \in 1..Len(s2c)
    <3>1. s2c'[i] = s2c[i] /\ s2c[i].of \in Nat
      BY <1>1, <2>2, AnswerOf
    <3>2. /\ s2c[i].of <= served
          /\ served - s2c[i].of <= Len(s2c) - i
          /\ s2c[i].id \in AnswerIds(s2c[i].of % IdModulus)
      BY <1>2, <2>2, <3>1 DEF AnswersInOrder
    <3> QED
      BY <1>1, <3>1, <3>2 DEF TypeOK
  <2> QED
    BY <1>1, <2>1, <2>2
<1> QED
  BY <1>1, <1>2 DEF AnswersInOrder

\* What a connection about which nothing has happened satisfies.
LEMMA ResetInv ==
  ASSUME NEW l, ResetTo(l), pc' # "returned"
  PROVE  InOrder' /\ OneReplyPerCall' /\ OwnAnswerWithIds'
<1>1. 0 = 0 % IdModulus
  BY ConnAssumption
<1>2. /\ Len(c2s') = 0 /\ Len(s2c') = 0 /\ n' = 0 /\ served' = 0
      /\ strays' = 0 /\ reqId' = 0
  BY DEF ResetTo
<1> QED
  BY <1>1, <1>2
     DEF InOrder, RequestsInOrder, AnswersInOrder, OneReplyPerCall, OwnAnswerWithIds,
                OwnAnswer

\* A step that leaves the wire alone, does not begin a wait and does not
\* report success keeps the invariant.
LEMMA QuietInv ==
  ASSUME ConnInv, UNCHANGED wire, n' \in {n, n + 1}, reqId' = n' % IdModulus,
         n' # n => link # "up", pc = "recv" => link # "up",
         pc' # "recv", pc' = "returned" => out'.val = -1
  PROVE  InOrder' /\ OneReplyPerCall' /\ OwnAnswerWithIds'
<1> USE DEF ConnInv, wire
<1>1. served <= n'
  BY DEF TypeOK, InOrder
<1>2. RequestsInOrder'
  BY DEF InOrder, RequestsInOrder
<1>3. AnswersInOrder'
  BY DEF InOrder, AnswersInOrder
<1>4. OneReplyPerCall'
  <2>1. CASE link # "up"
    BY <2>1 DEF OneReplyPerCall
  <2>2. CASE link = "up"
    BY <2>2 DEF OneReplyPerCall
  <2> QED
    BY <2>1, <2>2
<1> QED
  BY <1>1, <1>2, <1>3, <1>4 DEF InOrder, OwnAnswerWithIds, OwnAnswer

\* An answer that is accepted is the answer to the current call: its id is that
\* of the current request, and it is less than a whole id cycle old; or it has
\* no id, and then nothing else can be in flight.
LEMMA AcceptedIsCurrent ==
  ASSUME ConnInv, pc = "recv", s2c # <<>>, Head(s2c).json,
         Head(s2c).id \in {reqId, NoId}, IdsSuffice
  PROVE  Head(s2c).of = n /\ served = n
<1> USE DEF ConnInv
<1> DEFINE m == Head(s2c)
<1>1. m = s2c[1] /\ 1 \in 1..Len(s2c) /\ Len(s2c) \in Nat
  BY HeadTailProperties, EmptySeq, LenProperties DEF TypeOK
<1>2. m.of \in Nat
  BY <1>1, AnswerOf
<1>3. /\ m.of <= served
      /\ served - m.of <= Len(s2c) - 1
      /\ m.id \in AnswerIds(m.of % IdModulus)
  BY <1>1 DEF InOrder, AnswersInOrder
<1>4. n - served + Len(s2c) <= strays + 1
  BY DEF OneReplyPerCall
<1>5. m.id \in {reqId, NoId} /\ m.of % IdModulus \in Ids
  BY <1>2, IdType
<1> HIDE DEF m
<1>6. served <= n /\ n \in Nat /\ served \in Nat /\ strays \in 0..MaxStray
  BY DEF TypeOK, InOrder
<1>7. CASE m.id = NoId
  <2>1. NoId \notin Ids
    BY ConnAssumption DEF Ids, NoId
  <2>2. MissingIds
    BY <1>3, <1>5, <1>7, <2>1 DEF AnswerIds
  <2>3. strays = 0
    BY <1>6, <2>2, ConnAssumption DEF IdsSuffice
  <2>4. m.of = n
    BY <1>1, <1>2, <1>3, <1>4, <1>6, <2>3
  <2> QED
    BY <1>2, <1>3, <1>6, <2>4 DEF m
<1>8. CASE m.id # NoId
  <2>1. m.of % IdModulus = n % IdModulus
    BY <1>3, <1>5, <1>8 DEF AnswerIds, InOrder
  <2>2. m.of <= n /\ n - m.of < IdModulus
    BY <1>1, <1>2, <1>3, <1>4, <1>6, ConnAssumption
  <2>3. m.of = n
    BY <1>2, <1>6, <2>1, <2>2, ModUnique, ConnAssumption
  <2> QED
    BY <1>2, <1>3, <1>6, <2>3 DEF m
<1> QED
  BY <1>7, <1>8

\* Writing a request.
LEMMA SendInv ==
  ASSUME ConnInv, NEW w \in Wrappers, NEW e \in BOOLEAN, SendRequest(w, e)
  PROVE  InOrder' /\ OneReplyPerCall' /\ OwnAnswerWithIds'
<1> USE DEF ConnInv
<1>1. /\ n' = n + 1 /\ reqId' = (n + 1) % IdModulus
      /\ link = "up" /\ pc = "idle" /\ pc' = "recv"
      /\ UNCHANGED <<link, served, strays, s2c>>
  BY DEF SendRequest, NextRequest
<1>2. PICK whole \in {TRUE, ~ShortWrites} :
        c2s' = Append(c2s, [of |-> n + 1, id |-> reqId', whole |-> whole])
  BY DEF SendRequest
<1> DEFINE r == [of |-> n + 1, id |-> reqId', whole |-> whole]
<1>3. r.of = n + 1 /\ r.id = (n + 1) % IdModulus
  BY <1>1
<1>4. n + 1 \in Nat /\ reqId' \in Ids
  BY <1>1, IdType DEF TypeOK
<1>5. r \in Requests
  <2>1. whole \in BOOLEAN
    BY <1>2, ConnAssumption, Zenon
  <2> QED
    BY <1>4, <2>1, RequestType
<1> HIDE DEF r
<1>6. /\ Len(c2s) \in Nat
      /\ Len(c2s') = Len(c2s) + 1
      /\ \A i \in 1..Len(c2s) : c2s'[i] = c2s[i]
      /\ c2s'[Len(c2s) + 1] = r
  BY <1>2, <1>5, AppendProperties DEF TypeOK, r
<1>7. Len(c2s) = n - served
  BY <1>1 DEF InOrder, RequestsInOrder
<1>8. RequestsInOrder'
  <2>1. Len(c2s') = n' - served'
    BY <1>1, <1>6, <1>7 DEF TypeOK
  <2>2. ASSUME NEW i \in 1..Len(c2s')
        PROVE  c2s'[i].of = served' + i /\ c2s'[i].id = c2s'[i].of % IdModulus
    <3>1. CASE i = Len(c2s) + 1
      <4>1. served' + i = n + 1
        BY <1>1, <1>7, <3>1 DEF TypeOK
      <4> QED
        BY <1>3, <1>6, <3>1, <4>1
    <3>2. CASE i \in 1..Len(c2s)
      BY <1>1, <1>6, <3>2 DEF InOrder, RequestsInOrder
    <3> QED
      BY <1>6, <3>1, <3>2
  <2> QED
    BY <2>1, <2>2 DEF RequestsInOrder
<1>9. AnswersInOrder'
  BY <1>1 DEF InOrder, AnswersInOrder
<1>10. served' <= n' /\ reqId' = n' % IdModulus
  BY <1>1 DEF TypeOK, InOrder
<1>11. OneReplyPerCall'
  BY <1>1 DEF TypeOK, OneReplyPerCall
<1> QED
  BY <1>1, <1>8, <1>9, <1>10, <1>11 DEF InOrder, OwnAnswerWithIds, OwnAnswer

\* Taking a message off the stream: the call goes on waiting if it was no
\* JSON, and otherwise ends, successfully only on its own answer.
LEMMA TakeInv ==
  ASSUME ConnInv, pc = "recv", s2c # <<>>, s2c' = Tail(s2c),
         UNCHANGED <<link, served, strays, c2s, n, reqId>>,
         pc' = "recv" \/ (pc' = "returned" /\ out'.val # -1 /\ IdsSuffice
                            => of' = n /\ served = n)
  PROVE  InOrder' /\ OneReplyPerCall' /\ OwnAnswerWithIds'
<1> USE DEF ConnInv
<1>1. AnswersInOrder' /\ Len(s2c') = Len(s2c) - 1
  BY TailInOrder DEF InOrder
<1>2. Len(s2c) \in Nat
  BY LenProperties DEF TypeOK
<1>3. RequestsInOrder'
  BY DEF InOrder, RequestsInOrder
<1>4. n - served + Len(s2c) <= strays + 1
  BY DEF OneReplyPerCall
<1>5. OneReplyPerCall'
  BY <1>1, <1>2, <1>4 DEF TypeOK, OneReplyPerCall
<1> QED
  BY <1>1, <1>3, <1>5 DEF InOrder, OwnAnswerWithIds, OwnAnswer

\* What configd executes is the call after the last one it executed.
LEMMA ServeExecutesNext ==
  ASSUME TypeOK, InOrder, NEW body \in Replies, Serve(body)
  PROVE  served' = served + 1 /\ served < n /\ UNCHANGED <<pc, n, out>>
<1>1. link = "up" /\ c2s # <<>> /\ served' = Head(c2s).of /\ UNCHANGED client
  BY DEF Serve
<1>2. Len(c2s) \in Nat /\ 1 \in 1..Len(c2s) /\ Head(c2s) = c2s[1]
  BY <1>1, HeadTailProperties, LenProperties, EmptySeq DEF TypeOK
<1>3. Len(c2s) = n - served /\ c2s[1].of = served + 1
  BY <1>1, <1>2 DEF InOrder, RequestsInOrder
<1> QED
  BY <1>1, <1>2, <1>3 DEF TypeOK, client

\* configd executes the oldest request and answers it.
LEMMA ServeInv ==
  ASSUME ConnInv, NEW body \in Replies, Serve(body)
  PROVE  InOrder' /\ OneReplyPerCall' /\ OwnAnswerWithIds'
<1> USE DEF ConnInv
<1>1. /\ link = "up" /\ c2s # <<>> /\ c2s' = Tail(c2s) /\ served' = Head(c2s).of
      /\ UNCHANGED <<link, strays, pc, n, reqId, out, of>>
  BY DEF Serve, client
<1>2. /\ Len(c2s) \in Nat /\ 1 \in 1..Len(c2s)
      /\ Head(c2s) = c2s[1] /\ Head(c2s) \in Requests
      /\ Len(c2s') = Len(c2s) - 1
      /\ \A i \in 1..Len(c2s') : c2s'[i] = c2s[i + 1]
  BY <1>1, HeadTailProperties, LenProperties, EmptySeq DEF TypeOK
<1>3. /\ Len(c2s) = n - served
      /\ \A i \in 1..Len(c2s) :
           c2s[i].of = served + i /\ c2s[i].id = c2s[i].of % IdModulus
  BY <1>1 DEF InOrder, RequestsInOrder
<1>4. served' = served + 1 /\ Head(c2s).id = served' % IdModulus
  BY <1>1, <1>2, <1>3
<1>5. RequestsInOrder'
  <2>1. Len(c2s') = n' - served'
    BY <1>1, <1>2, <1>3, <1>4 DEF TypeOK
  <2>2. ASSUME NEW i \in 1..Len(c2s')
        PROVE  c2s'[i].of = served' + i /\ c2s'[i].id = c2s'[i].of % IdModulus
    <3>1. i + 1 \in 1..Len(c2s) /\ c2s'[i] = c2s[i + 1]
      BY <1>2
    <3>2. served + (i + 1) = served' + i
      BY <1>4 DEF TypeOK
    <3> QED
      BY <1>3, <3>1, <3>2
  <2> QED
    BY <2>1, <2>2 DEF RequestsInOrder
<1>6. PICK id \in AnswerIds(Head(c2s).id) :
        s2c' = Append(s2c, [json |-> TRUE, of |-> Head(c2s).of, id |-> id,
                            body |-> body])
  BY DEF Serve
<1> DEFINE m == [json |-> TRUE, of |-> Head(c2s).of, id |-> id, body |-> body]
<1>7. m.of = served' /\ m.id \in AnswerIds(m.of % IdModulus)
  BY <1>1, <1>4, <1>6 DEF AnswerIds
<1>8. m \in Messages
  <2>1. Head(c2s).of \in Nat /\ id \in Ids \cup {NoId}
    BY <1>2, <1>6 DEF Requests, AnswerIds
  <2> QED
    BY <2>1, BodyType, ReplyType
<1> HIDE DEF m
<1>9. s2c' = Append(s2c, m)
  BY <1>6 DEF m
<1>10. AnswersInOrder' /\ Len(s2c') = Len(s2c) + 1
  BY <1>4, <1>7, <1>8, <1>9, AppendInOrder DEF InOrder
<1>11. OneReplyPerCall'
  <2>1. Len(s2c) \in Nat
    BY LenProperties DEF TypeOK
  <2>2. (n' - served') + Len(s2c') = (n - served) + Len(s2c)
    <3>1. n' = n /\ n \in Nat /\ served \in Nat
      BY <1>1 DEF TypeOK
    <3>2. served' = served + 1 /\ Len(s2c') = Len(s2c) + 1
      BY <1>4, <1>10
    <3> HIDE DEF ConnInv
    <3> QED
      BY <2>1, <3>1, <3>2
  <2> QED
    BY <1>1, <2>2 DEF OneReplyPerCall
<1>12. served' <= n'
  BY <1>1, <1>2, <1>3, <1>4 DEF TypeOK
<1>13. OwnAnswerWithIds'
  <2>1. served # n
    BY <1>2, <1>3 DEF TypeOK
  <2> QED
    BY <1>1, <2>1 DEF OwnAnswerWithIds, OwnAnswer
<1> QED
  BY <1>1, <1>5, <1>10, <1>11, <1>12, <1>13 DEF InOrder

\* An unsolicited message: a repeated answer, or no JSON.
LEMMA StrayInv ==
  ASSUME ConnInv, NEW m \in Messages, s2c' = Append(s2c, m),
         m.json => m.of = served /\ m.id = m.of % IdModulus,
         strays' = strays + 1,
         UNCHANGED <<client, link, served, c2s>>
  PROVE  InOrder' /\ OneReplyPerCall' /\ OwnAnswerWithIds'
<1> USE DEF ConnInv, client
<1>0. m.json => m.of = served' /\ m.id \in AnswerIds(m.of % IdModulus)
  BY DEF AnswerIds
<1>1. AnswersInOrder' /\ Len(s2c') = Len(s2c) + 1
  BY <1>0, AppendInOrder DEF InOrder
<1>2. Len(s2c) \in Nat
  BY LenProperties DEF TypeOK
<1>3. RequestsInOrder'
  BY DEF InOrder, RequestsInOrder
<1>4. OneReplyPerCall'
  BY <1>1, <1>2 DEF TypeOK, OneReplyPerCall
<1> QED
  BY <1>1, <1>3, <1>4 DEF InOrder, OwnAnswerWithIds, OwnAnswer

\* Every step of the connection or of configd preserves the invariant.
LEMMA ConnStep == ConnInv /\ [Next]_vars => ConnInv'
<1> SUFFICES ASSUME ConnInv, [Next]_vars
             PROVE  InOrder' /\ OneReplyPerCall' /\ OwnAnswerWithIds'
  BY TypeStep DEF ConnInv
<1>t. TypeOK /\ InOrder /\ reqId = n % IdModulus
  BY DEF ConnInv, InOrder
<1> DEFINE Goal == InOrder' /\ OneReplyPerCall' /\ OwnAnswerWithIds'
<1>1. CASE OpenSucceeds
  BY <1>1, ResetInv DEF OpenSucceeds
<1>2. ASSUME NEW stage \in {"socket", "connect", "fdopen"}, OpenFails(stage)
      PROVE  Goal
  BY <1>2, ResetInv DEF OpenFails
<1>3. CASE configd_close_connection
  BY <1>3, ResetInv DEF configd_close_connection
<1>4. ASSUME NEW w \in Wrappers, NEW e \in BOOLEAN, PackFails(w, e)
      PROVE  Goal
  BY <1>4, <1>t, QuietInv DEF PackFails, Return, Fresh
<1>5. ASSUME NEW w \in Wrappers, NEW e \in BOOLEAN, SendRequest(w, e)
      PROVE  Goal
  BY <1>5, SendInv
<1>6. ASSUME NEW w \in Wrappers, NEW e \in BOOLEAN, SendFails(w, e)
      PROVE  Goal
  <2>1. n' = n + 1 /\ reqId' = n' % IdModulus /\ link = "eof" /\ pc = "idle"
    BY <1>6 DEF SendFails, NextRequest
  <2>2. pc' # "recv" /\ out'.val = -1
    BY <1>6, UnansweredType DEF SendFails, Return, Fresh
  <2> QED
    BY <1>6, <2>1, <2>2, QuietInv DEF SendFails
<1>7. ASSUME NEW e \in BOOLEAN, SaveRefuses(e)
      PROVE  Goal
  <2>1. out'.val = -1
    BY <1>7, FreshType, SetfType DEF SaveRefuses, Return, Fresh
  <2> QED
    BY <1>7, <1>t, <2>1, QuietInv DEF SaveRefuses, Return
<1>8. CASE SkipGarbage
  BY <1>8, TakeInv DEF SkipGarbage
<1>9. CASE Receive
  <2>1. PICK resp \in Extract(Head(s2c).body) :
          Return(ReceivedOutcome(Head(s2c), resp), Head(s2c).of)
    BY <1>9 DEF Receive, ReceivedOutcome
  <2>2. pc = "recv" /\ s2c # <<>> /\ Head(s2c).json /\ s2c' = Tail(s2c)
    BY <1>9 DEF Receive
  <2>3. Head(s2c) \in Messages
    BY <1>t, <2>2 DEF TypeOK
  <2>4. out'.val # -1 /\ IdsSuffice => of' = n /\ served = n
    BY <1>t, <2>1, <2>2, <2>3, ReceivedType, AcceptedIsCurrent DEF Return
  <2> QED
    BY <1>9, <2>2, <2>4, TakeInv DEF Receive
<1>10. CASE ReceiveEof
  <2>1. call.hasErr \in BOOLEAN
    BY <1>t DEF TypeOK, Calls
  <2>2. out'.val = -1 /\ pc' # "recv"
    BY <1>10, <2>1, UnansweredType DEF ReceiveEof, Return
  <2> QED
    BY <1>10, <1>t, <2>2, QuietInv DEF ReceiveEof
<1>11. CASE CallerFrees
  BY <1>11, <1>t, QuietInv DEF CallerFrees
<1>12. CASE Exit
  BY <1>12, ResetInv DEF Exit
<1>13. ASSUME NEW body \in Replies, Serve(body)
       PROVE  Goal
  BY <1>13, ServeInv
<1>14. ASSUME NEW body \in Replies, Repeat(body)
       PROVE  Goal
  <2> DEFINE m == [json |-> TRUE, of |-> served, id |-> served % IdModulus,
                   body |-> body]
  <2>1. m \in Messages
    <3>1. served % IdModulus \in Ids \cup {NoId} /\ served \in Nat
      BY <1>t, IdType DEF TypeOK
    <3> QED
      BY <3>1, BodyType, ReplyType
  <2>2. m.of = served /\ m.id = m.of % IdModulus /\ s2c' = Append(s2c, m)
    BY <1>14 DEF Repeat
  <2> HIDE DEF m
  <2> QED
    BY <1>14, <2>1, <2>2, StrayInv DEF Repeat
<1>15. CASE Garbage
  <2> DEFINE m == [json |-> FALSE, of |-> 0, id |-> NoId, body |-> NoBody]
  <2>1. m \in Messages
    BY BodyType, NoBodyType
  <2>2. ~m.json /\ s2c' = Append(s2c, m)
    BY <1>15 DEF Garbage
  <2> HIDE DEF m
  <2> QED
    BY <1>15, <2>1, <2>2, StrayInv DEF Garbage
<1>16. CASE HangUp
  BY <1>16, <1>t DEF HangUp, client, ConnInv, InOrder, RequestsInOrder,
                     AnswersInOrder, OneReplyPerCall, OwnAnswerWithIds,
                OwnAnswer
<1>17. CASE Restart \/ UNCHANGED vars
  <2>1. UNCHANGED <<client, wire>>
    BY <1>17 DEF Restart, vars, client, wire
  <2> QED
    BY <1>t, <2>1 DEF client, wire, ConnInv, InOrder, RequestsInOrder,
                      AnswersInOrder, OneReplyPerCall, OwnAnswerWithIds,
                OwnAnswer
<1> QED
  BY <1>1, <1>2, <1>3, <1>4, <1>5, <1>6, <1>7, <1>8, <1>9, <1>10, <1>11,
     <1>12, <1>13, <1>14, <1>15, <1>16, <1>17
     DEF Next, configd_open_connection, Call, recv_response, configd

\* The inductive invariant holds throughout.
LEMMA ConnInvariant == Spec => []ConnInv
<1>1. Init => ConnInv
  <2>1. Init => TypeOK
    BY InitType
  <2>2. 0 = 0 % IdModulus
    BY ConnAssumption
  <2>3. Init => InOrder /\ OneReplyPerCall /\ OwnAnswerWithIds
    BY <2>2 DEF Init, InOrder, RequestsInOrder, AnswersInOrder,
                OneReplyPerCall, OwnAnswerWithIds,
                OwnAnswer
  <2> QED
    BY <2>1, <2>3 DEF ConnInv
<1> QED
  BY <1>1, ConnStep, PTL DEF Spec

\* For every number of calls and stray messages, every id width above the
\* number of strays and every set of reply bodies, provided that answers carry
\* their ids or that nothing unsolicited arrives: a call that reports success
\* does so on configd's answer to that very request, which configd executed.
THEOREM SuccessIsOwnAnswer == IdsSuffice => (Spec => []OwnAnswer)
<1> SUFFICES ASSUME IdsSuffice PROVE Spec => []OwnAnswer
  OBVIOUS
<1>1. ConnInv => OwnAnswer
  BY DEF ConnInv, OwnAnswerWithIds
<1> QED
  BY <1>1, ConnInvariant, PTL

\* Calls and replies stay paired: no call leaves a reply of its own behind on
\* the connection, so the number of messages in flight is bounded by the
\* unsolicited ones.
THEOREM RepliesPaired == Spec => []OneReplyPerCall
BY ConnInvariant, PTL DEF ConnInv

\* configd is handed the requests of a connection in order, each once, and an
\* answer is never older than the messages behind it account for.
THEOREM StreamsInOrder == Spec => []InOrder
BY ConnInvariant, PTL DEF ConnInv

-----------------------------------------------------------------------------
(***************************************************************************)
(* The connection implements AtomicRpc: each step is an abstract step or a *)
(* stutter.                                                                *)
(***************************************************************************)

\* Every step of the connection, seen through the refinement mapping, is a step
\* of the abstract interface.
LEMMA RpcStep ==
  IdsSuffice /\ ConnInv /\ ConnInv' /\ [Next]_vars => [Rpc!Next]_(Rpc!avars)
<1> SUFFICES ASSUME IdsSuffice, ConnInv, ConnInv', [Next]_vars
             PROVE  Rpc!Next \/ UNCHANGED Rpc!avars
  OBVIOUS
<1>t. TypeOK /\ InOrder /\ OwnAnswer /\ OwnAnswer' /\ n \in Nat /\ served \in Nat
  BY DEF ConnInv, TypeOK, OwnAnswerWithIds
<1>1. ASSUME NEW l, ResetTo(l), pc' \in {"idle", "closed", "refused"}
      PROVE  Rpc!Next
  BY <1>1 DEF ResetTo, Rpc!Next, Rpc!Renew
<1>2. CASE configd_open_connection \/ configd_close_connection \/ Exit
  BY <1>1, <1>2 DEF configd_open_connection, OpenSucceeds, OpenFails,
                    configd_close_connection, Exit
<1>3. ASSUME NEW w \in Wrappers, NEW e \in BOOLEAN, PackFails(w, e)
      PROVE  Rpc!Next
  BY <1>3, <1>t DEF PackFails, Return, Fresh, wire, Rpc!Next, Rpc!InvokeFails
<1>4. ASSUME NEW e \in BOOLEAN, SaveRefuses(e)
      PROVE  Rpc!Next
  <2>1. error_setf(Fresh, e).val = -1 /\ ~error_setf(Fresh, e).crash
    BY DEF error_setf, Fresh
  <2> QED
    BY <1>4, <1>t, <2>1 DEF SaveRefuses, Return, wire, Rpc!Next, Rpc!InvokeFails
<1>5. ASSUME NEW w \in Wrappers, NEW e \in BOOLEAN, SendRequest(w, e)
      PROVE  Rpc!Next
  BY <1>5, <1>t DEF SendRequest, NextRequest, Rpc!Next, Rpc!Invoke
<1>6. ASSUME NEW w \in Wrappers, NEW e \in BOOLEAN, SendFails(w, e)
      PROVE  Rpc!Next
  <2>1. /\ pc = "idle" /\ n' = n + 1 /\ served' = served
        /\ pc' \in {"returned", "killed", "crashed"}
        /\ pc' = "returned" => out'.val = -1
    BY <1>6, UnansweredType DEF SendFails, NextRequest, Return, wire
  <2>2. CASE pc' = "returned"
    BY <2>1, <2>2 DEF Rpc!Next, Rpc!InvokeFails
  <2>3. CASE pc' # "returned"
    BY <2>1, <2>3 DEF Rpc!Next, Rpc!Die
  <2> QED
    BY <2>2, <2>3
<1>7. CASE Receive \/ ReceiveEof
  <2>1. /\ pc = "recv" /\ n' = n /\ served' = served
        /\ pc' \in {"returned", "crashed"}
    BY <1>7 DEF Receive, ReceiveEof, Return, wire
  <2>2. CASE pc' = "crashed"
    BY <2>1, <2>2 DEF Rpc!Next, Rpc!Die
  <2>3. CASE pc' = "returned" /\ out'.val = -1
    BY <2>1, <2>3 DEF Rpc!Next, Rpc!ReturnFailure
  <2>4. CASE pc' = "returned" /\ out'.val # -1
    <3>1. served = n
      BY <1>t, <2>1, <2>4 DEF OwnAnswer
    <3> QED
      BY <2>1, <2>4, <3>1 DEF Rpc!Next, Rpc!ReturnValue
  <2> QED
    BY <2>1, <2>2, <2>3, <2>4
<1>8. CASE CallerFrees
  BY <1>8 DEF CallerFrees, wire, Rpc!Next, Rpc!Collect
<1>9. ASSUME NEW body \in Replies, Serve(body)
      PROVE  Rpc!Next
  <2>1. served' = served + 1 /\ served < n /\ UNCHANGED <<pc, n, out>>
    BY <1>9, <1>t, ServeExecutesNext
  <2> QED
    BY <2>1 DEF Rpc!Next, Rpc!Execute
<1>10. ASSUME UNCHANGED <<pc, n, served, out>>
       PROVE  UNCHANGED Rpc!avars
  BY <1>10 DEF Rpc!avars
<1>11. CASE SkipGarbage \/ Garbage \/ HangUp \/ Restart \/ UNCHANGED vars
            \/ \E body \in Replies : Repeat(body)
  BY <1>10, <1>11 DEF SkipGarbage, Garbage, HangUp, Restart, Repeat, client,
                      wire, vars
<1> QED
  BY <1>2, <1>3, <1>4, <1>5, <1>6, <1>7, <1>8, <1>9, <1>11
     DEF Next, Call, recv_response, configd

\* The connection implements the abstract RPC interface: requests are executed
\* in order and at most once, and, where ids suffice, only an executed call
\* returns a value.
THEOREM Refinement == IdsSuffice => (Spec => ImplementsAtomicRpc)
<1> SUFFICES ASSUME IdsSuffice PROVE Spec => ImplementsAtomicRpc
  OBVIOUS
<1>1. Init => Rpc!Init
  BY DEF Init, Rpc!Init
<1>2. ConnInv /\ ConnInv' /\ [Next]_vars => [Rpc!Next]_(Rpc!avars)
  BY RpcStep
<1> QED
  BY <1>1, <1>2, ConnInvariant, PTL DEF Spec, ImplementsAtomicRpc, Rpc!Spec
-----------------------------------------------------------------------------
(***************************************************************************)
(* Induction over the natural numbers, from the least element of a set:    *)
(* the statement has a set where NatInduction has an operator.             *)
(***************************************************************************)

\* A set of natural numbers that is not empty has a least element.
LEMMA LeastElement ==
  ASSUME NEW T, T \subseteq Nat, T # {}
  PROVE  \E x \in T : \A y \in T : x <= y
<1> DEFINE R == OpToRel(<, Nat)
<1>1. IsWellFoundedOn(R, Nat)
  BY NatLessThanWellFounded, Zenon
<1>2. \A x, y \in Nat : y < x => <<y, x>> \in R
  BY DEF OpToRel
<1> HIDE DEF R
<1>3. PICK x \in T : \A y \in T : <<y, x>> \notin R
  BY <1>1, WFMin
<1>4. ASSUME NEW y \in T PROVE x <= y
  <2>1. x \in Nat /\ y \in Nat
    OBVIOUS
  <2>2. ~(y < x)
    BY <1>2, <1>3, <2>1
  <2> QED
    BY <2>1, <2>2
<1> QED
  BY <1>4

\* A set that holds 0 and with every number the next one holds all of them.
LEMMA SetInduction ==
  ASSUME NEW T, 0 \in T, \A k \in Nat : k \in T => k + 1 \in T
  PROVE  \A k \in Nat : k \in T
<1> DEFINE U == Nat \ T
<1>1. SUFFICES ASSUME U # {} PROVE FALSE
  OBVIOUS
<1>2. PICK x \in U : \A y \in U : x <= y
  BY <1>1, LeastElement
<1>3. x # 0 /\ x - 1 \in Nat
  BY <1>2
<1>4. x - 1 \notin U
  BY <1>2, <1>3
<1> QED
  BY <1>2, <1>3, <1>4

-----------------------------------------------------------------------------
(* process_errlist_array.                                                  *)

\* The states of the loop over the entries, as a function of the entry.
Walks(entries, walk) ==
  walk = [i \in 0..Len(entries) |->
            IF i = 0 THEN Start ELSE Decode(walk[i - 1], i, entries)]

\* The recursion of process_errlist_array defines a function.
LEMMA WalkExists ==
  ASSUME NEW S, NEW entries \in Seq(S)
  PROVE  \E walk : Walks(entries, walk)
<1> DEFINE W(k, f) == f = [i \in 0..k |-> IF i = 0 THEN Start ELSE Decode(f[i - 1], i, entries)]
           T == {k \in Nat : \E f : W(k, f)}
<1>1. 0 \in T
  <2> DEFINE f == [i \in 0..0 |-> Start]
  <2>1. W(0, f)
    OBVIOUS
  <2> QED
    BY <2>1
<1>2. ASSUME NEW k \in Nat, k \in T PROVE k + 1 \in T
  <2>1. PICK f : W(k, f)
    BY <1>2
  <2> DEFINE g == [i \in 0..k + 1 |-> IF i = k + 1 THEN Decode(f[k], k + 1, entries) ELSE f[i]]
             h == [i \in 0..k + 1 |-> IF i = 0 THEN Start ELSE Decode(g[i - 1], i, entries)]
  <2>2. \A i \in 0..k : f[i] = IF i = 0 THEN Start ELSE Decode(f[i - 1], i, entries)
    BY <2>1
  <2>3. ASSUME NEW i \in 0..k + 1 PROVE g[i] = h[i]
    <3>1. CASE i = k + 1
      <4>1. h[i] = Decode(g[k], i, entries) /\ g[k] = f[k]
        BY <3>1
      <4> QED
        BY <3>1, <4>1
    <3>2. CASE i # k + 1 /\ i # 0
      <4>1. i \in 0..k /\ i - 1 \in 0..k + 1 /\ i - 1 # k + 1
        BY <3>2
      <4>2. h[i] = Decode(g[i - 1], i, entries) /\ g[i - 1] = f[i - 1] /\ g[i] = f[i]
        BY <3>2, <4>1
      <4> QED
        BY <2>2, <3>2, <4>1, <4>2
    <3>3. CASE i = 0
      BY <2>2, <3>3
    <3> QED
      BY <3>1, <3>2, <3>3
  <2>4. g = h
    BY <2>3
  <2>5. W(k + 1, g)
    BY <2>4
  <2> HIDE DEF g
  <2>6. \E x : W(k + 1, x)
    BY <2>5
  <2> QED
    BY <2>6
<1> HIDE DEF T
<1>3. Len(entries) \in T
  BY <1>1, <1>2, SetInduction
<1>4. \E f : W(Len(entries), f)
  BY <1>3 DEF T
<1> QED
  BY <1>4 DEF Walks

\* process_errlist_array is the last state of such a loop.
LEMMA WalkOf ==
  ASSUME NEW S, NEW entries \in Seq(S)
  PROVE  \E walk : /\ Walks(entries, walk)
                   /\ process_errlist_array(entries) = walk[Len(entries)]
<1> DEFINE walk == CHOOSE f : Walks(entries, f)
<1>1. Walks(entries, walk)
  BY WalkExists
<1>2. process_errlist_array(entries) = walk[Len(entries)]
  BY DEF process_errlist_array, Walks
<1> QED
  BY <1>1, <1>2

\* The states of the loop while blocks of X are allocated and none was released
\* twice.
WalkStates(X) ==
  [at : {"loop", "error"}, heap : SUBSET X, count : Nat, fields : Nat, sound : {TRUE}]

\* The list of k entries is what is allocated when the loop has come to the
\* next one, and nothing once an entry was bad.
WalkInv(entries, k, s) ==
  /\ s \in WalkStates(ListBlocks(entries, k))
  /\ \/ s.at = "loop" /\ s.heap = ListBlocks(entries, k) /\ s.count = k /\ s.fields = 0
     \/ s.at = "error" /\ s.heap = {}

\* One more entry adds its blocks to the list's.
LEMMA ListBlocksGrow ==
  ASSUME NEW entries, NEW k \in Nat
  PROVE  /\ ListBlocks(entries, 0) = {Array}
         /\ ListBlocks(entries, k + 1) = ListBlocks(entries, k) \cup Blocks(k + 1, entries[k + 1])
<1>1. 1..0 = {} /\ 1..k + 1 = 1..k \cup {k + 1}
  OBVIOUS
<1> QED
  BY <1>1 DEF ListBlocks

\* The map of an entry's fields is no block of the list.
LEMMA FieldsApart ==
  ASSUME NEW entries, NEW k, NEW j
  PROVE  Block("fields", j) \notin ListBlocks(entries, k)
<1>1. Block("fields", j) # Array
  BY DEF Block, Array
<1>2. \A i : Block("fields", j) \notin Blocks(i, entries[i])
  BY DEF Block, Blocks
<1> QED
  BY <1>1, <1>2 DEF ListBlocks

\* The pointer to the fields is reset.
LEMMA WalkReset ==
  ASSUME NEW X, NEW s \in WalkStates(X), NEW r, r = [s EXCEPT !.fields = 0]
  PROVE  /\ r \in WalkStates(X) /\ r.at = s.at /\ r.heap = s.heap
         /\ r.count = s.count /\ r.fields = 0
BY DEF WalkStates

\* The loop is left.
LEMMA WalkLeft ==
  ASSUME NEW X, NEW s \in WalkStates(X), NEW r, r = [s EXCEPT !.at = "error", !.count = 0]
  PROVE  r \in WalkStates(X) /\ r.at = "error" /\ r.heap = s.heap
BY DEF WalkStates

\* Releasing what is allocated.
LEMMA ReleaseSound ==
  ASSUME NEW X, NEW s \in WalkStates(X), NEW b, b \subseteq s.heap
  PROVE  /\ Release(s, b) \in WalkStates(X)
         /\ Release(s, b).at = s.at /\ Release(s, b).heap = s.heap \ b
         /\ Release(s, b).count = s.count /\ Release(s, b).fields = s.fields
<1>1. (s.sound /\ b \subseteq s.heap) = TRUE
  BY DEF WalkStates
<1>2. Release(s, b) = [s EXCEPT !.heap = @ \ b, !.sound = TRUE]
  BY <1>1, Zenon DEF Release
<1> QED
  BY <1>2 DEF WalkStates

\* What is less than a list is less than a longer one.
LEMMA WalkStatesGrow ==
  ASSUME NEW X, NEW Y, X \subseteq Y, NEW s \in WalkStates(X)
  PROVE  s \in WalkStates(Y)
BY DEF WalkStates

\* One entry: whichever way it is bad, all that was allocated is released, each
\* block once.
LEMMA DecodeKeeps ==
  ASSUME NEW entries, NEW k \in Nat, NEW s, WalkInv(entries, k, s)
  PROVE  WalkInv(entries, k + 1, Decode(s, k + 1, entries))
<1> DEFINE e == entries[k + 1]
           list == ListBlocks(entries, k)
           more == ListBlocks(entries, k + 1)
           mine == Blocks(k + 1, e)
           map == Block("fields", k + 1)
           X == more \cup {map}
           read == [s EXCEPT !.fields = k + 1, !.heap = @ \cup {map}]
           taken == configd_mgmt_error_set_from_maps(read, k + 1, entries)
           d == Decode(s, k + 1, entries)
<1>1. s \in WalkStates(list)
  BY DEF WalkInv
<1>2. map \notin list /\ map \notin more
  BY FieldsApart
<1>3. more = list \cup mine
  BY ListBlocksGrow
<1>4. SUFFICES /\ d \in WalkStates(X)
               /\ \/ d.at = "loop" /\ d.heap = more /\ d.count = k + 1 /\ d.fields = 0
                  \/ d.at = "error" /\ d.heap = {}
  <2> HIDE DEF d, more
  <2> SUFFICES d \in WalkStates(more)
    BY <1>4 DEF WalkInv, d, more
  <2> QED
    BY <1>4 DEF WalkStates
<1>5. {map} \subseteq X /\ mine \subseteq X /\ list \subseteq X
  BY <1>3
<1>9. k + 1 \in Nat /\ 0 \in Nat
  OBVIOUS
<1>6. s \in WalkStates(X)
  <2> HIDE DEF list, X
  <2> QED
    BY <1>1, <1>5, WalkStatesGrow
<1>7. CASE s.at = "error"
  <2>1. d = s
    BY <1>7, Zenon DEF Decode
  <2> QED
    BY <1>6, <1>7, <2>1 DEF WalkInv
<1>8. CASE s.at # "error"
  <2>1. s.at = "loop" /\ s.heap = list /\ s.count = k /\ s.fields = 0
    BY <1>8 DEF WalkInv
  <2> HIDE DEF list, more, mine, map, X
  <2>2. /\ read \in WalkStates(X) /\ read.at = "loop" /\ read.heap = list \cup {map}
        /\ read.count = k /\ read.fields = k + 1
    <3>1. read = [s EXCEPT !.fields = k + 1, !.heap = @ \cup {map}]
      OBVIOUS
    <3> HIDE DEF read
    <3> QED
      BY <1>5, <1>6, <1>9, <2>1, <3>1 DEF WalkStates
  <2>3. CASE ~e.object
    <3>1. d = Unwind(s, entries)
      BY <2>1, <2>3, Zenon DEF Decode
    <3>2. Unwind(s, entries) = [Release(s, list) EXCEPT !.at = "error", !.count = 0]
      <4>1. list \cup {} = list
        OBVIOUS
      <4> QED
        BY <2>1, <4>1, Zenon DEF Unwind, list
    <3>3. Release(s, list) \in WalkStates(X) /\ Release(s, list).heap = {}
      BY <1>5, <1>6, <2>1, ReleaseSound
    <3> QED
      BY <3>1, <3>2, <3>3, WalkLeft
  <2>4. CASE e.object /\ e.info = "bad"
    <3>1. d = Unwind(read, entries)
      BY <2>1, <2>4, Zenon DEF Decode, map
    <3> HIDE DEF read
    <3>2. Unwind(read, entries) = [Release(read, list \cup {map}) EXCEPT !.at = "error", !.count = 0]
      <4>1. k + 1 # 0
        OBVIOUS
      <4> QED
        BY <2>2, <4>1, Zenon DEF Unwind, list, map
    <3>3. /\ Release(read, list \cup {map}) \in WalkStates(X)
          /\ Release(read, list \cup {map}).heap = {}
      BY <1>5, <2>2, ReleaseSound
    <3> QED
      BY <3>1, <3>2, <3>3, WalkLeft
  <2>5. CASE e.object /\ e.info # "bad"
    <3>1. d = [Release(taken, {map}) EXCEPT !.fields = 0]
      BY <2>1, <2>5, Zenon DEF Decode, map
    <3>2. taken = [read EXCEPT !.heap = @ \cup mine, !.count = k + 1]
      <4> HIDE DEF read
      <4> QED
        BY <2>2, Zenon DEF configd_mgmt_error_set_from_maps, mine
    <3> HIDE DEF read, taken
    <3>3. /\ taken \in WalkStates(X) /\ taken.at = "loop" /\ taken.heap = more \cup {map}
          /\ taken.count = k + 1
      <4>1. (list \cup {map}) \cup mine = more \cup {map}
        BY <1>3
      <4>2. /\ taken \in WalkStates(X) /\ taken.at = read.at /\ taken.heap = read.heap \cup mine
            /\ taken.count = k + 1
        BY <1>5, <1>9, <2>2, <3>2 DEF WalkStates
      <4> QED
        BY <2>2, <4>1, <4>2
    <3>4. /\ Release(taken, {map}) \in WalkStates(X) /\ Release(taken, {map}).at = "loop"
          /\ Release(taken, {map}).heap = more /\ Release(taken, {map}).count = k + 1
      <4>1. {map} \subseteq taken.heap /\ taken.heap \ {map} = more
        BY <1>2, <3>3
      <4>2. ASSUME NEW b, b \subseteq taken.heap
            PROVE  /\ Release(taken, b) \in WalkStates(X) /\ Release(taken, b).at = "loop"
                   /\ Release(taken, b).heap = taken.heap \ b /\ Release(taken, b).count = k + 1
        BY <3>3, <4>2, ReleaseSound
      <4> QED
        BY <4>1, <4>2
    <3> QED
      BY <3>1, <3>4, WalkReset
  <2> QED
    BY <2>3, <2>4, <2>5
<1> QED
  BY <1>7, <1>8

\* Whatever the entries are, and wherever one is bad, process_errlist_array
\* leaves a list that reaches all that was allocated, or nothing at all.
LEMMA AllAccounted ==
  ASSUME NEW S, NEW entries \in Seq(S)
  PROVE  Accounted(entries)
<1>1. PICK walk : /\ Walks(entries, walk)
                  /\ process_errlist_array(entries) = walk[Len(entries)]
  BY WalkOf
<1>2. Len(entries) \in Nat
  OBVIOUS
<1>3. /\ walk[0] = Start
      /\ \A i \in 1..Len(entries) : walk[i] = Decode(walk[i - 1], i, entries)
  BY <1>1, <1>2 DEF Walks
<1> DEFINE T == {k \in Nat : k <= Len(entries) => WalkInv(entries, k, walk[k])}
<1>4. 0 \in T
  <2>1. walk[0] \in WalkStates({Array}) /\ walk[0].heap = {Array} /\ walk[0].at = "loop"
        /\ walk[0].count = 0 /\ walk[0].fields = 0
    BY <1>3 DEF Start, WalkStates
  <2> QED
    BY <2>1, ListBlocksGrow DEF WalkInv
<1>5. ASSUME NEW k \in Nat, k \in T PROVE k + 1 \in T
  <2>1. SUFFICES ASSUME k + 1 <= Len(entries) PROVE WalkInv(entries, k + 1, walk[k + 1])
    BY <1>5
  <2>2. WalkInv(entries, k, walk[k])
    BY <1>2, <1>5, <2>1
  <2>3. walk[k + 1] = Decode(walk[k], k + 1, entries)
    <3>1. k + 1 \in 1..Len(entries) /\ (k + 1) - 1 = k
      BY <1>2, <2>1
    <3> QED
      BY <1>3, <3>1
  <2> QED
    BY <2>2, <2>3, DecodeKeeps
<1> HIDE DEF T
<1>6. Len(entries) \in T
  BY <1>2, <1>4, <1>5, SetInduction
<1>7. WalkInv(entries, Len(entries), process_errlist_array(entries))
  BY <1>1, <1>2, <1>6 DEF T
<1> HIDE DEF T
<1> DEFINE p == process_errlist_array(entries)
<1>8. p.sound = TRUE /\ p.heap = IF p.at = "loop" THEN ListBlocks(entries, p.count) ELSE {}
  <2> HIDE DEF p
  <2> QED
    BY <1>7 DEF WalkInv, WalkStates, p
<1> QED
  BY <1>8 DEF Accounted
-----------------------------------------------------------------------------
(***************************************************************************)
(* Memory.  With the types, MemoryOwned and SuccessLeavesNoError are       *)
(* preserved by every step once every outcome of a call is known to own    *)
(* what is allocated; that rests on AllAccounted for lists of errors.      *)
(***************************************************************************)

\* A response whose type was assigned: what it points to is of a type that
\* response_free frees, and a good list of errors is there.
Sound(r) ==
  /\ r.stray = FALSE
  /\ r.obj => r.type \in RespTypes \ {"INT"}
  /\ r.ok /\ r.type = "MGMTERROR" => r.obj

\* Success leaves the error empty.
Clean(o) == o.val # -1 => o.text = "none" /\ o.list = "none"

\* What is allocated is what the caller was given; an error that came as a list
\* has the list, and is all there is; only an integer is 1.
OwnsAll(o) ==
  /\ o.heap = Owned(o)
  /\ o.mgmt => o.list = "reply" /\ o.obj = "none"
  /\ o.val = 1 => o.obj = "none"

\* A body is decoded to a sound response, unless an unset type is read.
LEMMA ExtractSound ==
  ASSUME NEW body \in Bodies, ~ReadsUnsetType(body), NEW r \in Extract(body)
  PROVE  Sound(r)
<1>1. body.list.entries \in Seq(Entries)
  BY DEF Bodies
<1>2. ASSUME NEW f, f # "real", f # "null", f \in {"true", "false", "integer", "string", "array",
             "array_bad", "object", "object_bad"}, NEW x \in extract_result(f)
      PROVE  Sound(x)
  BY <1>2 DEF extract_result, Resp, Sound, RespTypes
<1>3. ASSUME NEW f, NEW x \in extract_error(f) PROVE Sound(x)
  BY <1>3 DEF extract_error, Resp, Sound, RespTypes
<1>4. ASSUME NEW x \in extract_mgmt_error_list(body.list) PROVE Sound(x)
  <2> DEFINE ok == Extracted(body.list.entries)
  <2>1. (~Accounted(body.list.entries)) = FALSE
    BY <1>1, AllAccounted
  <2>2. x = Resp(FALSE, "MGMTERROR", FALSE, 0)
        \/ x = [Resp(ok, "MGMTERROR", ok, 0) EXCEPT !.stray = FALSE]
    BY <1>4, <2>1, Zenon DEF extract_mgmt_error_list
  <2>3. ok \in BOOLEAN
    BY DEF Extracted
  <2> HIDE DEF ok
  <2> QED
    BY <2>2, <2>3 DEF Resp, Sound, RespTypes
<1>5. /\ body.result \in {"null", "true", "false", "integer", "string", "array",
             "array_bad", "object", "object_bad", "real"}
      /\ body.result # "real"
      /\ ~(body.result = "null" /\ body.error = "null" /\ body.list.form = "null")
  BY DEF Bodies, ReadsUnsetType
<1>6. CASE body.result # "null"
  <2>1. r \in extract_result(body.result)
    BY <1>6, Zenon DEF Extract
  <2> QED
    BY <1>2, <1>5, <1>6, <2>1
<1>7. CASE body.result = "null" /\ body.error # "null"
  <2>1. r \in extract_error(body.error)
    BY <1>7, Zenon DEF Extract
  <2> QED
    BY <1>3, <2>1
<1>8. CASE body.result = "null" /\ body.error = "null"
  <2>1. r \in extract_mgmt_error_list(body.list)
    BY <1>5, <1>8, Zenon DEF Extract
  <2> QED
    BY <1>4, <2>1
<1> QED
  BY <1>6, <1>7, <1>8

\* The outcomes that own nothing, or the text of an error only.
LEMMA UnansweredOwns ==
  ASSUME NEW e \in BOOLEAN
  PROVE  /\ Clean(Fresh) /\ OwnsAll(Fresh)
         /\ Clean(error_setf(Fresh, e)) /\ OwnsAll(error_setf(Fresh, e))
BY DEF Clean, OwnsAll, Fresh, error_setf, Owned

\* A getter gives the caller all that is allocated, or frees it.
LEMMA GetOwns ==
  ASSUME NEW k \in Kinds, NEW e \in BOOLEAN, NEW r \in Resps, NEW f
  PROVE  /\ Clean(Get(k, e, r, f))
         /\ Sound(r) => OwnsAll(Get(k, e, r, f))
<1> DEFINE blocks == {b \in {"reply", "stray"} : \/ b = "reply" /\ r.obj
                                                 \/ b = "stray" /\ r.stray}
           got == [Fresh EXCEPT !.heap = blocks]
           Freed(o, x) == [o EXCEPT !.heap = @ \ response_free(x)]
           o == Get(k, e, r, f)
<1> SUFFICES Clean(o) /\ (Sound(r) => OwnsAll(o))
  OBVIOUS
<1>1. /\ got \in Outcomes /\ got.val = -1 /\ got.obj = "none" /\ got.text = "none"
      /\ got.list = "none" /\ got.mgmt = FALSE /\ got.heap = blocks
  <2>1. blocks \in SUBSET {"reply", "text", "fmt", "dup", "stray"}
    OBVIOUS
  <2>2. /\ Fresh.val = -1 /\ Fresh.obj = "none" /\ Fresh.text = "none" /\ Fresh.list = "none"
        /\ Fresh.mgmt = FALSE
    BY DEF Fresh
  <2> HIDE DEF blocks
  <2> QED
    BY <2>1, <2>2, FreshType DEF Outcomes
<1>2. Sound(r) => blocks = IF r.obj THEN {"reply"} ELSE {}
  BY DEF Sound
<1>3. r.obj \in BOOLEAN /\ r.ok \in BOOLEAN /\ r.num \in 0..2
  BY DEF Resps
<1>4. Sound(r) => response_free(r) = IF r.obj THEN {"reply"} ELSE {}
  BY DEF Sound, response_free
<1> HIDE DEF got, Freed
<1> DEFINE given == [got EXCEPT !.val = IF r.obj THEN 0 ELSE -1,
                              !.obj = IF r.obj THEN "reply" ELSE "none"]
<1> HIDE DEF given
<1>10. Get(k, e, r, f) =
        CASE ~r.ok -> Freed(error_setf(got, e), r)
          [] r.ok /\ r.type = k /\ k = "INT" -> [got EXCEPT !.val = r.num]
          [] r.ok /\ r.type = k /\ k # "INT" -> given
          [] r.ok /\ r.type = "ERROR" -> Freed(error_setf(got, e), r)
          [] r.ok /\ r.type = "MGMTERROR" /\ e ->
               Freed(error_set_from_mgmt_error_list(got, r, f), Disowned(r))
          [] OTHER -> Freed(got, r)
  BY DEF Get, got, Freed, given
<1>11. r.ok /\ r.type = k /\ k # "INT" => Get(k, e, r, f) = given
  BY <1>10 DEF Kinds
<1> HIDE DEF blocks
<1> USE DEF Freed
<1>5. CASE ~r.ok \/ (r.type # k /\ r.type = "ERROR")
  <2>1. o = Freed(error_setf(got, e), r)
    BY <1>5, Zenon DEF Get, got, blocks
  <2> QED
    BY <1>1, <1>2, <1>3, <1>4, <2>1 DEF error_setf, Outcomes, Clean, OwnsAll, Owned
<1>6. CASE r.ok /\ r.type = k /\ k = "INT"
  <2>1. o = [got EXCEPT !.val = r.num]
    BY <1>6, Zenon DEF Get, got, blocks
  <2>2. Sound(r) => blocks = {}
    BY <1>2, <1>3, <1>6 DEF Sound
  <2> QED
    BY <1>1, <1>3, <2>1, <2>2 DEF Outcomes, Clean, OwnsAll, Owned
<1>7. CASE r.ok /\ r.type = k /\ k # "INT"
  <2>1. o = [got EXCEPT !.val = IF r.obj THEN 0 ELSE -1,
                        !.obj = IF r.obj THEN "reply" ELSE "none"]
    BY <1>7, <1>11 DEF given
  <2>2. /\ o.val = (IF r.obj THEN 0 ELSE -1) /\ o.obj = (IF r.obj THEN "reply" ELSE "none")
        /\ o.text = "none" /\ o.list = "none" /\ o.mgmt = FALSE /\ o.heap = blocks
    BY <1>1, <1>3, <2>1 DEF Outcomes
  <2> HIDE DEF o
  <2> QED
    BY <1>2, <1>3, <2>2 DEF Clean, OwnsAll, Owned
<1>8. CASE r.ok /\ r.type # k /\ r.type = "MGMTERROR" /\ e
  <2> DEFINE x == error_set_from_mgmt_error_list(got, r, f)
  <2>1. o = Freed(x, Disowned(r))
    BY <1>8, Zenon DEF Get, got, blocks
  <2>2. response_free(Disowned(r)) = {}
    BY DEF response_free, Disowned, Resps
  <2>3. /\ x \in Outcomes /\ x.val = -1 /\ x.obj = "none"
        /\ x.list = (IF r.obj THEN "reply" ELSE "none") /\ x.text \in {"none", "text"}
        /\ x.heap = blocks \cup (IF x.text = "none" THEN {} ELSE {"text"})
        /\ x.mgmt = TRUE
    BY <1>1, <1>3 DEF error_set_from_mgmt_error_list, Outcomes
  <2> HIDE DEF x
  <2>4. Sound(r) => r.obj
    BY <1>8 DEF Sound
  <2>5. /\ o.val = -1 /\ o.obj = x.obj /\ o.list = x.list /\ o.text = x.text /\ o.heap = x.heap
    BY <2>1, <2>2, <2>3 DEF Outcomes
  <2> HIDE DEF o
  <2>6. ASSUME Sound(r) PROVE o.heap = Owned(o)
    <3>1. /\ o.list = "reply" /\ o.obj = "none" /\ o.text \in {"none", "text"}
          /\ o.heap = {"reply"} \cup (IF o.text = "none" THEN {} ELSE {"text"})
      BY <1>2, <2>3, <2>4, <2>5, <2>6
    <3>2. CASE o.text = "none"
      BY <3>1, <3>2 DEF Owned
    <3>3. CASE o.text = "text"
      BY <3>1, <3>3 DEF Owned
    <3> QED
      BY <3>1, <3>2, <3>3
  <2> QED
    BY <2>3, <2>4, <2>5, <2>6 DEF Clean, OwnsAll
<1>9. CASE r.ok /\ r.type # k /\ r.type # "ERROR" /\ (r.type # "MGMTERROR" \/ ~e)
  <2>1. o = Freed(got, r)
    BY <1>9, Zenon DEF Get, got, blocks
  <2> QED
    BY <1>1, <1>2, <1>3, <1>4, <2>1 DEF Outcomes, Clean, OwnsAll, Owned
<1> QED
  BY <1>3, <1>5, <1>6, <1>7, <1>8, <1>9

\* A wrapper's conversion loses no block and leaves no error behind a success.
LEMMA ConvertOwns ==
  ASSUME NEW c, NEW o \in Outcomes, NEW e \in BOOLEAN, Clean(o)
  PROVE  /\ Clean(Convert(c, o, e))
         /\ OwnsAll(o) => Convert(c, o, e).heap = Owned(Convert(c, o, e))
<1> DEFINE x == Convert(c, o, e)
<1> SUFFICES Clean(x) /\ (OwnsAll(o) => x.heap = Owned(x))
  OBVIOUS
<1>1. CASE c = "raw"
  <2>1. x = o
    BY <1>1, Zenon DEF Convert
  <2> QED
    BY <2>1 DEF OwnsAll
<1>2. CASE c = "not"
  <2>1. x = [o EXCEPT !.val = Negated(@)]
    BY <1>2, Zenon DEF Convert
  <2> QED
    BY <2>1 DEF Outcomes, Clean, OwnsAll, Owned, Negated
<1>3. CASE c = "one"
  <2>1. x = IF o.val = 1
            THEN [o EXCEPT !.val = 0, !.obj = "dup", !.heap = @ \cup {"dup"}]
            ELSE [o EXCEPT !.val = -1]
    BY <1>3, Zenon DEF Convert
  <2>2. CASE o.val = 1
    <3>1. x.val = 0 /\ x.obj = "dup" /\ x.heap = o.heap \cup {"dup"} /\ x.text = o.text
          /\ x.list = o.list /\ x.mgmt = o.mgmt
      BY <2>1, <2>2 DEF Outcomes
    <3> HIDE DEF x
    <3>2. o.text = "none" /\ o.list = "none"
      BY <2>2 DEF Clean
    <3>3. ASSUME OwnsAll(o) PROVE x.heap = Owned(x)
      <4>1. o.heap = {}
        BY <2>2, <3>2, <3>3 DEF OwnsAll, Owned
      <4>2. x.heap = {"dup"} /\ x.obj = "dup" /\ x.text = "none" /\ x.list = "none"
        BY <3>1, <3>2, <4>1
      <4> QED
        BY <4>2 DEF Owned
    <3> QED
      BY <3>1, <3>2, <3>3 DEF Clean
  <2>3. CASE o.val # 1
    BY <2>1, <2>3 DEF Outcomes, Clean, OwnsAll, Owned
  <2> QED
    BY <2>2, <2>3
<1>4. CASE c \notin {"raw", "not", "one"}
  <2>1. x = configd_error_format_for_commit_or_val(o, e)
    BY <1>4, Zenon DEF Convert
  <2>2. CASE ~e \/ ~o.mgmt
    <3>1. x = o
      BY <2>1, <2>2, Zenon DEF configd_error_format_for_commit_or_val
    <3> QED
      BY <3>1 DEF OwnsAll
  <2>3. CASE e /\ o.mgmt /\ o.list = "none"
    <3>1. x = [o EXCEPT !.heap = @ \cup {"fmt"}]
      BY <2>1, <2>3, Zenon DEF configd_error_format_for_commit_or_val
    <3>2. x.val = o.val /\ x.text = o.text /\ x.list = o.list
      BY <3>1 DEF Outcomes
    <3>3. ~OwnsAll(o)
      BY <2>3 DEF OwnsAll
    <3> QED
      BY <3>2, <3>3 DEF Clean
  <2>4. CASE e /\ o.mgmt /\ o.list # "none"
    <3>1. x = [o EXCEPT !.text = "fmt", !.heap = (@ \ {o.text}) \cup {"fmt"}]
      BY <2>1, <2>4, Zenon DEF configd_error_format_for_commit_or_val
    <3>2. x.val = o.val /\ x.text = "fmt" /\ x.list = o.list /\ x.obj = o.obj
          /\ x.heap = (o.heap \ {o.text}) \cup {"fmt"}
      BY <3>1 DEF Outcomes
    <3>3. o.text \in {"none", "text", "fmt"}
      BY DEF Outcomes
    <3> HIDE DEF x
    <3>4. o.val = -1
      BY <2>4 DEF Clean
    <3>5. ASSUME OwnsAll(o) PROVE x.heap = Owned(x)
      <4>1. o.list = "reply" /\ o.obj = "none"
        BY <2>4, <3>5 DEF OwnsAll
      <4>2. o.heap \ {o.text} = {"reply"}
        BY <3>3, <3>5, <4>1 DEF OwnsAll, Owned
      <4> QED
        BY <3>2, <4>1, <4>2 DEF Owned
    <3> QED
      BY <3>2, <3>4, <3>5 DEF Clean
  <2> QED
    BY <2>2, <2>3, <2>4
<1> QED
  BY <1>1, <1>2, <1>3, <1>4

\* What a received answer leaves behind.
LEMMA ReceivedOwns ==
  ASSUME TypeOK, NEW msg \in Messages, NEW resp \in Extract(msg.body)
  PROVE  /\ Clean(ReceivedOutcome(msg, resp))
         /\ ~ReadsUnsetType(msg.body) =>
              ReceivedOutcome(msg, resp).heap = Owned(ReceivedOutcome(msg, resp))
<1> DEFINE r == [resp EXCEPT !.ok = Accepts(msg, resp)]
<1>1. msg.body \in Bodies
  BY DEF Messages
<1>2. resp \in Resps
  BY <1>1, ExtractType
<1>3. Accepts(msg, resp) \in BOOLEAN /\ (Accepts(msg, resp) => resp.ok)
  BY <1>2 DEF Accepts, GoodWithoutId, Resps
<1>4. /\ r \in Resps /\ r.obj = resp.obj /\ r.type = resp.type /\ r.stray = resp.stray
      /\ r.ok => resp.ok
  BY <1>2, <1>3 DEF Resps
<1> HIDE DEF r
<1>5. ~ReadsUnsetType(msg.body) => Sound(r)
  BY <1>1, <1>4, ExtractSound DEF Sound
<1>6. call.kind \in Kinds /\ call.hasErr \in BOOLEAN
  BY DEF TypeOK, Calls
<1> DEFINE got == Get(call.kind, call.hasErr, r, msg.body.list.entries)
<1>7. got \in Outcomes /\ Clean(got) /\ (Sound(r) => OwnsAll(got))
  BY <1>4, <1>6, GetType, GetOwns
<1> HIDE DEF got
<1>8. /\ Clean(Convert(call.conv, got, call.hasErr))
      /\ OwnsAll(got) => Convert(call.conv, got, call.hasErr).heap
                         = Owned(Convert(call.conv, got, call.hasErr))
  BY <1>6, <1>7, ConvertOwns
<1>9. ReceivedOutcome(msg, resp) = Convert(call.conv, got, call.hasErr)
  BY DEF ReceivedOutcome, got, r
<1> QED
  BY <1>5, <1>7, <1>8, <1>9

\* What a call leaves behind when its request was not sent, or not answered.
LEMMA UnansweredConverted ==
  ASSUME NEW c, NEW e \in BOOLEAN
  PROVE  /\ Clean(Convert(c, error_setf(Fresh, e), e))
         /\ Convert(c, error_setf(Fresh, e), e).heap
            = Owned(Convert(c, error_setf(Fresh, e), e))
BY UnansweredOwns, FreshType, SetfType, ConvertOwns

\* The heap and the error, related to the client's position; the second and
\* third parts are those of MemoryOwned.
MemInv ==
  /\ TypeOK
  /\ pc = "returned" => Clean(out) /\ (~undef => out.heap = Owned(out))
  /\ (pc \in {"idle", "closed", "refused"} /\ ~undef) => out.heap = {}
  /\ pc \in {"closed", "refused"} => fd = "none"

\* Every step preserves it: a received answer by ReceivedOwns, the rest leaves
\* nothing, the text of an error, or what there was.
LEMMA MemStep == MemInv /\ [Next]_vars => MemInv'
<1> SUFFICES ASSUME MemInv, [Next]_vars
             PROVE  MemInv'
  OBVIOUS
<1>t. TypeOK /\ TypeOK'
  BY TypeStep DEF MemInv
<1>f. Fresh.heap = {} /\ Clean(Fresh) /\ Owned(Fresh) = {}
  BY DEF Fresh, Clean, Owned
<1> HIDE DEF Next
<1> USE DEF MemInv
<1>1. CASE OpenSucceeds
  BY <1>1, <1>t, <1>f DEF OpenSucceeds, ResetTo
<1>2. ASSUME NEW stage \in {"socket", "connect", "fdopen"}, OpenFails(stage)
      PROVE  MemInv'
  BY <1>2, <1>t, <1>f DEF OpenFails, FdAfterFailure, ResetTo
<1>3. CASE configd_close_connection
  BY <1>3, <1>t, <1>f DEF configd_close_connection, ResetTo
<1>4. ASSUME NEW w \in Wrappers, NEW e \in BOOLEAN, PackFails(w, e)
      PROVE  MemInv'
  BY <1>4, <1>t, <1>f DEF PackFails, Return
<1>5. ASSUME NEW w \in Wrappers, NEW e \in BOOLEAN, SendRequest(w, e)
      PROVE  MemInv'
  BY <1>5, <1>t DEF SendRequest
<1>6. ASSUME NEW w \in Wrappers, NEW e \in BOOLEAN, SendFails(w, e)
      PROVE  MemInv'
  BY <1>6, <1>t, UnansweredConverted DEF SendFails, Return
<1>7. ASSUME NEW e \in BOOLEAN, SaveRefuses(e)
      PROVE  MemInv'
  <2>1. Clean(out') /\ out'.heap = Owned(out')
    BY <1>7, UnansweredOwns DEF SaveRefuses, Return, OwnsAll
  <2>2. pc' \in {"returned", "crashed"}
    BY <1>7 DEF SaveRefuses, Return
  <2> QED
    BY <1>t, <2>1, <2>2
<1>8. CASE SkipGarbage
  BY <1>8, <1>t DEF SkipGarbage
<1>9. CASE Receive
  <2>1. Head(s2c) \in Messages
    BY <1>9, <1>t DEF Receive, TypeOK
  <2>2. PICK resp \in Extract(Head(s2c).body) :
          Return(ReceivedOutcome(Head(s2c), resp), Head(s2c).of)
    BY <1>9 DEF Receive, ReceivedOutcome
  <2>3. /\ Clean(ReceivedOutcome(Head(s2c), resp))
        /\ ~ReadsUnsetType(Head(s2c).body) =>
             ReceivedOutcome(Head(s2c), resp).heap
             = Owned(ReceivedOutcome(Head(s2c), resp))
    BY <1>t, <2>1, ReceivedOwns
  <2>4. undef' = (undef \/ ReadsUnsetType(Head(s2c).body))
    BY <1>9 DEF Receive
  <2>5. out' = ReceivedOutcome(Head(s2c), resp) /\ pc' \in {"returned", "crashed"}
    BY <2>2 DEF Return
  <2> QED
    BY <1>t, <2>3, <2>4, <2>5
<1>10. CASE ReceiveEof
  <2>1. call.hasErr \in BOOLEAN
    BY <1>t DEF TypeOK, Calls
  <2> QED
    BY <1>10, <1>t, <2>1, UnansweredConverted DEF ReceiveEof, Return
<1>11. CASE CallerFrees
  <2>1. out' = [Fresh EXCEPT !.heap = out.heap \ Owned(out)] /\ pc = "returned"
        /\ pc' = "idle" /\ undef' = undef
    BY <1>11 DEF CallerFrees
  <2>2. out'.heap = out.heap \ Owned(out)
    BY <2>1 DEF Fresh
  <2>3. ~undef => out'.heap = {}
    BY <2>1, <2>2
  <2> QED
    BY <1>t, <2>1, <2>3
<1>12. CASE Exit
  BY <1>12, <1>t, <1>f DEF Exit, ResetTo
<1>13. ASSUME UNCHANGED client PROVE MemInv'
  BY <1>13, <1>t DEF client
<1>14. CASE configd
  BY <1>13, <1>14 DEF configd, Serve, Repeat, Garbage, HangUp, Restart
<1>15. CASE UNCHANGED vars
  BY <1>13, <1>15 DEF vars, client
<1> QED
  BY <1>1, <1>2, <1>3, <1>4, <1>5, <1>6, <1>7, <1>8, <1>9, <1>10, <1>11,
     <1>12, <1>14, <1>15
     DEF Next, configd_open_connection, Call, recv_response

\* It holds at the start and in every reachable state.
LEMMA MemInvariant == Spec => []MemInv
<1>1. Init => MemInv
  <2>1. Fresh.heap = {}
    BY DEF Fresh
  <2> QED
    BY <2>1, InitType DEF Init, MemInv
<1>2. MemInv /\ [Next]_vars => MemInv'
  BY MemStep
<1> QED
  BY <1>1, <1>2, PTL DEF Spec

\* No call leaks or frees twice: unless an unset resp->type was read, what is
\* allocated when a call returns is what the caller was given, for every answer
\* and in particular for every mgmterrorlist, and nothing is left once the
\* caller has freed it (connect.c, error.c).
THEOREM MemoryIsOwned == Spec => []MemoryOwned
<1>1. MemInv => MemoryOwned
  BY DEF MemInv, MemoryOwned
<1> QED
  BY <1>1, MemInvariant, PTL

\* A call that reports success leaves the caller's error empty, so a caller that
\* frees the error on failure only leaks nothing.
THEOREM SuccessIsClean == Spec => []SuccessLeavesNoError
<1>1. MemInv => SuccessLeavesNoError
  BY DEF MemInv, SuccessLeavesNoError, Clean, Owned
<1> QED
  BY <1>1, MemInvariant, PTL
=============================================================================
