-------------------------- MODULE CfgClientSession --------------------------
(***************************************************************************)
(* Class CfgClient (src/src/client/CfgClient.cpp), which the Perl and      *)
(* Python bindings wrap: objects that create, join and tear down sessions  *)
(* of one configd and operate on them.  An object keeps the session twice, *)
(* in its connection (used for every request) and in _sessionid (the one   *)
(* to fall back to).                                                       *)
(***************************************************************************)
EXTENDS Naturals

CONSTANTS
  Clients,        \* CfgClient objects, of programs of one user
  Sids,           \* session ids
  NoSid,          \* the empty id
  MaxClientCalls  \* bound on the calls made

ASSUME ClientAssumption == NoSid \notin Sids /\ MaxClientCalls \in Nat

VARIABLES
  sessions,    \* the sessions configd has
  client,      \* state of an object
  up,          \* its connection still works
  session_id,  \* conn->session_id
  _sessionid,  \* the member of that name
  known,       \* ghost: sessions it inherited, or that a setup or an attach that returned was for
  refused,     \* ghost: sessions whose setup has thrown since a session call succeeded
  client_calls \* number of calls

client_vars == <<sessions, client, up, session_id, _sessionid, known, refused, client_calls>>

AnySid == Sids \cup {NoSid}

\* Every variable stays in its range.
ClientTypeOK ==
  /\ sessions \subseteq Sids
  /\ client \in [Clients -> {"none", "open", "closed", "terminated"}]
  /\ up \in [Clients -> BOOLEAN]
  /\ session_id \in [Clients -> AnySid]
  /\ _sessionid \in [Clients -> AnySid]
  /\ known \in [Clients -> SUBSET Sids]
  /\ refused \in [Clients -> SUBSET Sids]
  /\ client_calls \in Nat

ClientInit ==
  /\ sessions = {}
  /\ client = [c \in Clients |-> "none"]
  /\ up = [c \in Clients |-> FALSE]
  /\ session_id = [c \in Clients |-> NoSid]
  /\ _sessionid = [c \in Clients |-> NoSid]
  /\ known = [c \in Clients |-> {}]
  /\ refused = [c \in Clients |-> {}]
  /\ client_calls = 0

Step == client_calls < MaxClientCalls /\ client_calls' = client_calls + 1

\* The constructor, with VYATTA_CONFIG_SID set to s or not set.
Construct(c, s) ==
  /\ client[c] = "none" /\ Step
  /\ \/ /\ client' = [client EXCEPT ![c] = "open"]
        /\ up' = [up EXCEPT ![c] = TRUE]
        /\ session_id' = [session_id EXCEPT ![c] = s]
        /\ _sessionid' = [_sessionid EXCEPT ![c] = s]
        /\ known' = [known EXCEPT ![c] = {s} \ {NoSid}]
     \/ /\ client' = [client EXCEPT ![c] = "closed"]
        /\ UNCHANGED <<up, session_id, _sessionid, known>>
  /\ UNCHANGED <<sessions, refused>>

\* The destructor leaves the session to configd.
Destroy(c) ==
  /\ client[c] = "open" /\ Step
  /\ client' = [client EXCEPT ![c] = "closed"]
  /\ UNCHANGED <<sessions, up, session_id, _sessionid, known, refused>>

\* The connection breaks.
HangUp(c) ==
  /\ client[c] = "open" /\ up[c]
  /\ up' = [up EXCEPT ![c] = FALSE]
  /\ UNCHANGED <<sessions, client, session_id, _sessionid, known, refused, client_calls>>

-----------------------------------------------------------------------------
(* How a call ends.  callintapi and its kin turn -1 into an exception whose *)
(* message is err.text.  There is none when json_pack refuses the arguments *)
(* of the request; then the program ends, since a std::string cannot be     *)
(* made of it.                                                              *)

Returns == UNCHANGED client
Throws == UNCHANGED client
Terminates(c) == client' = [client EXCEPT ![c] = "terminated"]

\* The call to configd fails, with a text or without.
Fails(c) == Throws \/ Terminates(c)

ClientCall(c) == client[c] = "open" /\ Step

-----------------------------------------------------------------------------
(* The session calls. *)

\* The session of the requests that follow.
configd_set_session_id(c, s) == session_id' = [session_id EXCEPT ![c] = s]

\* Mutant: the session is remembered although its setup threw.
KeepAsked(c, s) ==
  /\ configd_set_session_id(c, s)
  /\ _sessionid' = [_sessionid EXCEPT ![c] = s]

\* A setup that throws has changed the connection and not the member.
KeepMember(c, s) ==
  /\ configd_set_session_id(c, s)
  /\ UNCHANGED _sessionid

\* The session becomes the context of the object.
Enter(c, s) ==
  /\ configd_set_session_id(c, s)
  /\ _sessionid' = [_sessionid EXCEPT ![c] = s]
  /\ known' = [known EXCEPT ![c] = @ \cup ({s} \ {NoSid})]
  /\ refused' = [refused EXCEPT ![c] = {}]

\* SessionSetup and SessionSetupShared.  configd makes the session when there
\* is none of that name, and answers true, false or an error.
SetupSucceeds(c, s) ==
  /\ ClientCall(c) /\ s # NoSid
  /\ up[c] /\ s \notin sessions
  /\ sessions' = sessions \cup {s}
  /\ Enter(c, s)
  /\ Returns
  /\ UNCHANGED up

\* false comes back as 1, which is not an exception.
SetupDenied(c, s) ==
  /\ ClientCall(c) /\ s # NoSid
  /\ up[c]
  /\ Enter(c, s)
  /\ Returns
  /\ UNCHANGED <<sessions, up>>

SetupThrows(c, s) ==
  /\ ClientCall(c) /\ s # NoSid
  /\ KeepMember(c, s)
  /\ refused' = [refused EXCEPT ![c] = @ \cup {s}]
  /\ Fails(c)
  /\ UNCHANGED <<sessions, up, known>>

\* configd makes the session, the connection breaks before it can say so.
SetupLost(c, s) ==
  /\ ClientCall(c) /\ s # NoSid
  /\ up[c] /\ up' = [up EXCEPT ![c] = FALSE]
  /\ s \notin sessions /\ sessions' = sessions \cup {s}
  /\ KeepMember(c, s)
  /\ refused' = [refused EXCEPT ![c] = @ \cup {s}]
  /\ Throws
  /\ UNCHANGED known

SetupWithoutId(c) ==
  /\ ClientCall(c)
  /\ Throws
  /\ UNCHANGED <<sessions, up, session_id, _sessionid, known, refused>>

Attach(c, s) ==
  /\ ClientCall(c)
  /\ up[c] /\ s \in sessions
  /\ Enter(c, s)
  /\ Returns
  /\ UNCHANGED <<sessions, up>>

\* Mutant: the exception of SessionExists is not caught.
NotRestored(c, s) ==
  /\ configd_set_session_id(c, s)
  /\ UNCHANGED <<_sessionid, refused>>

\* Both the answer no and an exception put the old session back.
Restored(c, s) ==
  /\ configd_set_session_id(c, _sessionid[c])
  /\ UNCHANGED <<_sessionid, refused>>

AttachThrows(c, s) ==
  /\ ClientCall(c)
  /\ Restored(c, s)
  /\ Throws
  /\ UNCHANGED <<sessions, up, known>>

\* The exception for the missing text is not a CfgClientException.
AttachTerminates(c, s) ==
  /\ ClientCall(c)
  /\ configd_set_session_id(c, s)
  /\ Terminates(c)
  /\ UNCHANGED <<sessions, up, _sessionid, known, refused>>

\* An answer of false is not an exception here either.
SessionTeardown(c) ==
  /\ ClientCall(c)
  /\ \/ /\ up[c] /\ session_id[c] \in sessions
        /\ sessions' = sessions \ {session_id[c]}
        /\ Returns
     \/ up[c] /\ Returns /\ UNCHANGED sessions
     \/ Fails(c) /\ UNCHANGED sessions
  /\ UNCHANGED <<up, session_id, _sessionid, known, refused>>

-----------------------------------------------------------------------------
(* Every other call is one request for the session of the connection.       *)

Applied(c) == up[c] /\ Returns

\* Set, Delete, Commit, Load, Merge, Discard, Validate, the session questions,
\* the templates, the nodes and the trees.
Operate(c) ==
  /\ ClientCall(c)
  /\ Applied(c) \/ Fails(c)
  /\ UNCHANGED <<sessions, up, session_id, _sessionid, known, refused>>

\* Save, ValidateConfig, CallRPC, CallRPCXML, EditConfigXML and CopyConfig look
\* whether there is a text.
OperateGuarded(c) ==
  /\ ClientCall(c)
  /\ Applied(c) \/ Throws
  /\ UNCHANGED <<sessions, up, session_id, _sessionid, known, refused>>

ClientDone ==
  /\ client_calls = MaxClientCalls \/ (\A c \in Clients : client[c] \in {"closed", "terminated"})
  /\ UNCHANGED client_vars

ClientNext ==
  \/ ClientDone
  \/ \E c \in Clients :
       \/ Destroy(c) \/ HangUp(c) \/ SetupWithoutId(c)
       \/ SessionTeardown(c) \/ Operate(c) \/ OperateGuarded(c)
       \/ \E s \in AnySid :
            \/ Construct(c, s)
            \/ SetupSucceeds(c, s) \/ SetupDenied(c, s) \/ SetupThrows(c, s) \/ SetupLost(c, s)
            \/ Attach(c, s) \/ AttachThrows(c, s) \/ AttachTerminates(c, s)

ClientSpec == ClientInit /\ [][ClientNext]_client_vars

-----------------------------------------------------------------------------
\* The session an object falls back to is the one it inherited or one that a call
\* that returned was for, never one of a call that threw, however the calls follow.
FallsBackToKnown ==
  \A c \in Clients : _sessionid[c] \in known[c] \cup {NoSid}

\* The connection and the member of an object agree on the session, but where
\* the last setup threw; a failed attach in between puts them together again.
OneContext ==
  \A c \in Clients : client[c] = "open" /\ session_id[c] # _sessionid[c]
                       => session_id[c] \in refused[c]
=============================================================================
