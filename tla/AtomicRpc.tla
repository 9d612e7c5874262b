----------------------------- MODULE AtomicRpc -----------------------------
(***************************************************************************)
(* What a configd connection promises its caller, with the socket, the     *)
(* streams and the memory management left out.  Calls are numbered from 1  *)
(* on each connection.  configd executes requests in the order in which    *)
(* they were invoked and none of them twice; a call returns a value only   *)
(* once configd has executed that very call, and a call that fails says    *)
(* nothing about whether configd has executed it, or will.                 *)
(***************************************************************************)
EXTENDS Naturals

VARIABLES status,    \* "ready", or "pending" while a call is outstanding
          invoked,   \* number of calls made on the connection
          executed,  \* number of the last call configd has executed
          outcome    \* how the last call ended: "none", "value", "failed"

avars == <<status, invoked, executed, outcome>>

Init ==
  /\ status = "ready"
  /\ invoked = 0
  /\ executed = 0
  /\ outcome = "none"

Invoke ==
  /\ status = "ready"
  /\ status' = "pending"
  /\ invoked' = invoked + 1
  /\ outcome' = "none"
  /\ UNCHANGED executed

\* A call that fails before anything was sent: the request is never executed.
InvokeFails ==
  /\ status = "ready"
  /\ invoked' \in {invoked, invoked + 1}
  /\ outcome' = "failed"
  /\ UNCHANGED <<status, executed>>

\* configd may execute a request after its caller has given up on it.
Execute ==
  /\ executed < invoked
  /\ executed' = executed + 1
  /\ UNCHANGED <<status, invoked, outcome>>

ReturnValue ==
  /\ status = "pending"
  /\ executed = invoked
  /\ status' = "ready"
  /\ outcome' = "value"
  /\ UNCHANGED <<invoked, executed>>

ReturnFailure ==
  /\ status = "pending"
  /\ status' = "ready"
  /\ outcome' = "failed"
  /\ UNCHANGED <<invoked, executed>>

\* The caller's process dies during a call.
Die ==
  /\ status' = "ready"
  /\ invoked' \in {invoked, invoked + 1}
  /\ outcome' = "none"
  /\ UNCHANGED executed

\* The caller takes the result away.
Collect ==
  /\ status = "ready"
  /\ outcome' = "none"
  /\ UNCHANGED <<status, invoked, executed>>

\* The connection is replaced by a fresh one, or its owner dies.
Renew ==
  /\ status' = "ready"
  /\ invoked' = 0
  /\ executed' = 0
  /\ outcome' \in {"none", "failed"}

Next ==
  \/ Invoke
  \/ InvokeFails
  \/ Execute
  \/ ReturnValue
  \/ ReturnFailure
  \/ Die
  \/ Collect
  \/ Renew

Spec == Init /\ [][Next]_avars
=============================================================================
