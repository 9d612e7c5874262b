---------------------------- MODULE ExpandString ----------------------------
(***************************************************************************)
(* expand_string (src/src/cliexec/cli_new.c): a string is copied to the    *)
(* buffer exe_string with the $VAR() references in it replaced by their    *)
(* values.  The buffer outlives the call and grows by EXE_STRING_DELTA.    *)
(*                                                                         *)
(* The model keeps the sizes: a string is a sequence of plain characters   *)
(* and references, and a reference is the length of its value.             *)
(***************************************************************************)
EXTENDS Integers, Sequences

CONSTANTS
  EXE_STRING_DELTA,  \* bytes the buffer grows by
  MaxValue,          \* bound on the length of a value
  MaxItems,          \* bound on the items of a string
  MaxCalls           \* bound on the calls made

ASSUME ExpandAssumption ==
  /\ EXE_STRING_DELTA \in Nat /\ EXE_STRING_DELTA >= 2
  /\ MaxValue \in Nat /\ MaxItems \in Nat /\ MaxCalls \in Nat

\* A character; a reference and the length of its value; a reference that is
\* not closed by a parenthesis; one with nothing between the parentheses.
Items == [kind : {"char"}, len : {1}] \cup [kind : {"ref"}, len : 0..MaxValue]
         \cup [kind : {"open", "empty"}, len : {0}]

\* expand_string is given strings with at least one character.
Inputs == UNION {[1..n -> Items] : n \in 1..MaxItems}

VARIABLES
  alloc,           \* bytes exe_string really has
  exe_string_len,  \* bytes the code takes it to have
  left,            \* bytes left, as the code counts them
  off,             \* resp - exe_string
  top,             \* one more than the last byte written in this call
  todo,            \* the items from scanp on
  pc,              \* "idle", "top" of the loop, "item", "room" for a value, "end",
                   \* "exited"
  ret,             \* what the last call returned
  failed,          \* a realloc has failed
  calls            \* number of calls

vars == <<alloc, exe_string_len, left, off, top, todo, pc, ret, failed, calls>>
buffer == <<alloc, exe_string_len, left>>
result == <<ret, failed, calls>>

\* Every variable stays in its range; the items are not used up before the end.
TypeOK ==
  /\ alloc \in Nat /\ exe_string_len \in Nat
  /\ left \in Nat /\ off \in Nat /\ top \in Nat
  /\ todo \in Seq(Items)
  /\ pc \in {"idle", "top", "item", "room", "end", "exited"}
  /\ pc \in {"top", "item", "room"} => todo # <<>>
  /\ ret \in {0, -1} /\ failed \in BOOLEAN
  /\ calls \in Nat

Init ==
  /\ alloc = 0 /\ exe_string_len = 0
  /\ left = 0 /\ off = 0 /\ top = 0
  /\ todo = <<>>
  /\ pc = "idle"
  /\ ret = 0 /\ failed = FALSE
  /\ calls = 0

Call ==
  /\ pc = "idle" /\ calls < MaxCalls
  /\ todo' \in Inputs
  /\ left' = exe_string_len
  /\ off' = 0 /\ top' = 0
  /\ pc' = "top"
  /\ calls' = calls + 1
  /\ UNCHANGED <<alloc, exe_string_len, ret, failed>>

Return(status) ==
  /\ pc' = "idle" /\ ret' = status

\* Mutant: the bytes gained are not counted as left.
GrowUncounted ==
  /\ exe_string_len' = exe_string_len + EXE_STRING_DELTA
  /\ alloc' = exe_string_len'
  /\ UNCHANGED left

\* The length is counted up before realloc is known to have succeeded.
GrowBuffer ==
  /\ exe_string_len' = exe_string_len + EXE_STRING_DELTA
  /\ alloc' = exe_string_len'
  /\ left' = left + EXE_STRING_DELTA

ReallocFails ==
  /\ exe_string_len' = exe_string_len + EXE_STRING_DELTA
  /\ failed' = TRUE
  /\ Return(-1)
  /\ UNCHANGED <<alloc, left, off, top, todo, calls>>

\* The top of the loop makes room for a character and the termination.
HasRoom ==
  /\ pc = "top" /\ left > 1
  /\ pc' = "item"
  /\ UNCHANGED <<buffer, off, top, todo, result>>

MakeRoom ==
  /\ pc = "top" /\ left <= 1
  /\ \/ GrowBuffer /\ pc' = "item" /\ UNCHANGED <<off, top, todo, result>>
     \/ ReallocFails

\* Bytes up to n have been written.
Wrote(n) == top' = IF n > top THEN n ELSE top

\* On to the next item, or out of the loop.
NextItem ==
  /\ todo' = Tail(todo)
  /\ pc' = IF todo' = <<>> THEN "end" ELSE "top"

CopyChar ==
  /\ pc = "item" /\ Head(todo).kind = "char"
  /\ Wrote(off + 1)
  /\ off' = off + 1 /\ left' = left - 1
  /\ NextItem
  /\ UNCHANGED <<alloc, exe_string_len, result>>

NotClosed ==
  /\ pc = "item" /\ Head(todo).kind = "open"
  /\ Return(-1)
  /\ UNCHANGED <<buffer, off, top, todo, failed, calls>>

\* bye ends the program.
EmptyPath ==
  /\ pc = "item" /\ Head(todo).kind = "empty"
  /\ pc' = "exited"
  /\ UNCHANGED <<buffer, off, top, todo, result>>

GetValue ==
  /\ pc = "item" /\ Head(todo).kind = "ref"
  /\ pc' = "room"
  /\ UNCHANGED <<buffer, off, top, todo, result>>

\* Mutant: the termination is forgotten.
FitsBare(len) == len <= left

\* A value fits with the termination after it.
Fits(len) == len + 1 <= left

MakeRoomForValue ==
  /\ pc = "room" /\ ~Fits(Head(todo).len)
  /\ \/ GrowBuffer /\ UNCHANGED <<off, top, todo, pc, result>>
     \/ ReallocFails

\* strcpy writes the value and a termination, over which the next item goes.
CopyValue ==
  /\ pc = "room" /\ Fits(Head(todo).len)
  /\ LET len == Head(todo).len
     IN  /\ Wrote(off + len + 1)
         /\ off' = off + len /\ left' = left - len
  /\ NextItem
  /\ UNCHANGED <<alloc, exe_string_len, result>>

Terminate ==
  /\ pc = "end"
  /\ Wrote(off + 1)
  /\ Return(0)
  /\ UNCHANGED <<buffer, off, todo, failed, calls>>

Done == pc \in (IF calls = MaxCalls THEN {"idle", "exited"} ELSE {"exited"}) /\ UNCHANGED vars

Next ==
  \/ Call \/ HasRoom \/ MakeRoom
  \/ CopyChar \/ NotClosed \/ EmptyPath \/ GetValue \/ MakeRoomForValue \/ CopyValue
  \/ Terminate \/ Done

Spec == Init /\ [][Next]_vars

-----------------------------------------------------------------------------
\* As long as no realloc has failed, every byte expand_string writes, the
\* termination after the last item included, lies in the buffer, in the first
\* call and in those that find the buffer another call has left.
WritesInBuffer == ~failed => top <= alloc

\* What the code takes to be left is what is left behind resp.
LeftIsRest == ~failed /\ pc # "idle" => left = alloc - off
=============================================================================
