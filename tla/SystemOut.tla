----------------------------- MODULE SystemOut -----------------------------
(***************************************************************************)
(* system_out (src/src/cliexec/cli_new.c): run a command of a template     *)
(* action and copy what it prints to out_stream.                           *)
(*                                                                         *)
(* The parent forks a shell whose stdout and stderr are a pipe, and copies *)
(* from the pipe until end of file.  A command may leave a daemon behind   *)
(* that keeps the pipe open, so whenever select() has seen nothing for     *)
(* 100ms the parent also asks whether the child is gone.  Output is a      *)
(* sequence of chunks, numbered in the order in which they were written;   *)
(* a read takes one or more of them.  The tag and message that go before   *)
(* the first chunk are formatting and left out.                            *)
(***************************************************************************)
EXTENDS Integers, Sequences

CONSTANTS
  MaxWrites,  \* bound on the chunks written by the command and its daemon
  PipeCap,    \* chunks the pipe holds before a writer has to wait
  ReadMax     \* chunks one read() of 128 bytes can take

ASSUME SystemOutAssumption ==
  MaxWrites \in Nat /\ PipeCap \in Nat \ {0} /\ ReadMax \in Nat \ {0}

VARIABLES
  stream,   \* out_stream is not NULL
  pc,       \* "start", "loop", "poll" (select timed out), "reap", "returned"
  how,      \* what ended the loop: "none", "eof", "exit", "select", "write"
  child,    \* "none", "running", "zombie", "reaped"
  status,   \* the child's exit status; 1 stands for death by a signal as well
  ends,     \* who holds the write end of the pipe
  pipe,     \* chunks in the pipe
  written,  \* number of chunks written
  mark,     \* number of chunks written when select last timed out
  given,    \* chunks copied to out_stream
  ret       \* the value returned; -2 before that

vars == <<stream, pc, how, child, status, ends, pipe, written, mark, given, ret>>

proc == <<child, status, ends, written>>

\* Every variable stays in its range.
TypeOK ==
  /\ stream \in BOOLEAN
  /\ pc \in {"start", "loop", "poll", "reap", "returned"}
  /\ how \in {"none", "eof", "exit", "select", "write"}
  /\ child \in {"none", "running", "zombie", "reaped"}
  /\ status \in {0, 1}
  /\ ends \in SUBSET {"child", "daemon"}
  /\ pipe \in Seq(1..MaxWrites)
  /\ written \in 0..MaxWrites
  /\ mark \in 0..MaxWrites
  /\ given \in Seq(1..MaxWrites)
  /\ ret \in -2..1

Init ==
  /\ stream \in BOOLEAN
  /\ pc = "start"
  /\ how = "none"
  /\ child = "none"
  /\ status = 0
  /\ ends = {}
  /\ pipe = <<>>
  /\ written = 0
  /\ mark = 0
  /\ given = <<>>
  /\ ret = -2

-----------------------------------------------------------------------------
(* The parent. *)

\* pipe() or fork() fails; nothing stays open.
StartFails ==
  /\ pc = "start"
  /\ pc' = "returned"
  /\ ret' = -1
  /\ UNCHANGED <<stream, how, proc, pipe, mark, given>>

Fork ==
  /\ pc = "start"
  /\ pc' = "loop"
  /\ child' = "running"
  /\ ends' = {"child"}
  /\ UNCHANGED <<stream, how, status, pipe, written, mark, given, ret>>

Read(k) ==
  /\ pc = "loop"
  /\ k <= Len(pipe)
  /\ pipe' = SubSeq(pipe, k + 1, Len(pipe))
  /\ given' = IF stream THEN given \o SubSeq(pipe, 1, k) ELSE given
  /\ UNCHANGED <<stream, pc, how, proc, mark, ret>>

\* fwrite fails on what was read: return at once, waiting for nobody.
WriteFails(k) ==
  /\ pc = "loop"
  /\ stream
  /\ k <= Len(pipe)
  /\ pipe' = SubSeq(pipe, k + 1, Len(pipe))
  /\ pc' = "returned"
  /\ how' = "write"
  /\ ret' = -1
  /\ UNCHANGED <<stream, proc, mark, given>>

\* read() returns 0 once the pipe is empty and nobody can write to it.
EndOfFile ==
  /\ pc = "loop"
  /\ pipe = <<>>
  /\ ends = {}
  /\ pc' = "reap"
  /\ how' = "eof"
  /\ UNCHANGED <<stream, proc, pipe, mark, given, ret>>

\* select() is interrupted, which ends the loop as well.
SelectFails ==
  /\ pc = "loop"
  /\ pc' = "reap"
  /\ how' = "select"
  /\ UNCHANGED <<stream, proc, pipe, mark, given, ret>>

\* Mutant: the child is asked for whether or not there is something to read.
SelectIgnored ==
  /\ pc = "loop"
  /\ ends # {}
  /\ mark' = written
  /\ pc' = "poll"
  /\ UNCHANGED <<stream, how, proc, pipe, given, ret>>

\* Nothing to read for 100ms.
SelectTimesOut ==
  /\ pc = "loop"
  /\ pipe = <<>>
  /\ ends # {}
  /\ mark' = written
  /\ pc' = "poll"
  /\ UNCHANGED <<stream, how, proc, pipe, given, ret>>

\* Mutant: only end of file ends the loop.
PollForgets ==
  /\ pc = "poll"
  /\ pc' = "loop"
  /\ UNCHANGED <<stream, how, proc, pipe, mark, given, ret>>

\* waitpid(cpid, &status, WNOHANG): if the child is done, so is the loop.
Poll ==
  /\ pc = "poll"
  /\ IF child = "zombie"
     THEN /\ child' = "reaped"
          /\ how' = "exit"
          /\ pc' = "returned"
          /\ ret' = status
     ELSE /\ pc' = "loop"
          /\ UNCHANGED <<child, how, ret>>
  /\ UNCHANGED <<stream, status, ends, pipe, written, mark, given>>

\* Mutant: the blocking wait does not block.
ReapNoHang ==
  /\ pc = "reap"
  /\ child' = IF child = "zombie" THEN "reaped" ELSE child
  /\ ret' = status
  /\ pc' = "returned"
  /\ UNCHANGED <<stream, how, status, ends, pipe, written, mark, given>>

\* waitpid(cpid, &status, 0), after the pipe was closed.
Reap ==
  /\ pc = "reap"
  /\ child = "zombie"
  /\ child' = "reaped"
  /\ ret' = status
  /\ pc' = "returned"
  /\ UNCHANGED <<stream, how, status, ends, pipe, written, mark, given>>

\* The wait is interrupted.
WaitFails ==
  /\ pc = "reap"
  /\ ret' = -1
  /\ pc' = "returned"
  /\ UNCHANGED <<stream, how, proc, pipe, mark, given>>

-----------------------------------------------------------------------------
(* The command and the daemon it may start (external). *)

parent == <<stream, pc, how, mark, given, ret>>

ReadEndOpen == pc \in {"loop", "poll"}

Write(w) ==
  /\ w \in ends
  /\ ReadEndOpen
  /\ Len(pipe) < PipeCap
  /\ written < MaxWrites
  /\ written' = written + 1
  /\ pipe' = Append(pipe, written + 1)
  /\ UNCHANGED <<parent, child, status, ends>>

\* Writing to a pipe nobody reads ends the writer.
BrokenPipe(w) ==
  /\ w \in ends
  /\ ~ReadEndOpen
  /\ ends' = ends \ {w}
  /\ IF w = "child"
     THEN child' = "zombie" /\ status' = 1
     ELSE UNCHANGED <<child, status>>
  /\ UNCHANGED <<parent, pipe, written>>

Spawn ==
  /\ child = "running"
  /\ "child" \in ends
  /\ ends' = ends \cup {"daemon"}
  /\ UNCHANGED <<parent, child, status, pipe, written>>

\* The child, while it goes on, or the daemon closes its end of the pipe.
CloseOutput(w) ==
  /\ w \in ends
  /\ ends' = ends \ {w}
  /\ UNCHANGED <<parent, child, status, pipe, written>>

ChildExits(s) ==
  /\ child = "running"
  /\ child' = "zombie"
  /\ status' = s
  /\ ends' = ends \ {"child"}
  /\ UNCHANGED <<parent, pipe, written>>

-----------------------------------------------------------------------------

Parent ==
  \/ \E k \in 1..ReadMax : Read(k)
  \/ EndOfFile
  \/ SelectTimesOut
  \/ Poll
  \/ Reap

Next ==
  \/ Parent
  \/ StartFails
  \/ Fork
  \/ \E k \in 1..ReadMax : WriteFails(k)
  \/ SelectFails
  \/ WaitFails
  \/ \E w \in {"child", "daemon"} : Write(w) \/ BrokenPipe(w) \/ CloseOutput(w)
  \/ Spawn
  \/ \E s \in {0, 1} : ChildExits(s)

Spec == Init /\ [][Next]_vars

\* The parent runs, and a command ends some time; a daemon need not.
FairSpec ==
  /\ Spec
  /\ WF_vars(Parent)
  /\ WF_vars(\E s \in {0, 1} : ChildExits(s))

-----------------------------------------------------------------------------
(* Properties. *)

\* What reached out_stream is the beginning of what was written, in order.  If
\* the loop ended with the end of file it is all of it, and if it ended because
\* the child was gone, what is missing was written after select last found the
\* pipe empty: a process that prints its last line just before it exits may
\* lose that line to the interval between select and waitpid, no more.  A loop
\* that select or fwrite ended with an error promises only the order.
OnlyLateOutputLost ==
  stream =>
    /\ \A i \in 1..Len(given) : given[i] = i
    /\ (how = "eof") => Len(given) = written
    /\ (how = "exit") => Len(given) >= mark

\* A status other than -1 is that of the child, which has been waited for: no
\* zombie is left and the status was not read before it was set.
StatusIsChilds == (pc = "returned" /\ ret # -1) => (child = "reaped" /\ ret = status)

\* system_out returns once its command has ended, even if the command left a
\* process behind that keeps the pipe open for ever (the comment on bug 6771
\* in system_out).
Returns == (pc = "loop") ~> (pc = "returned")
=============================================================================
