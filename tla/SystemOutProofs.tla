-------------------------- MODULE SystemOutProofs --------------------------
(***************************************************************************)
(* Theorems about SystemOut, for every number of chunks, every pipe        *)
(* capacity and every read size.                                           *)
(***************************************************************************)
EXTENDS SystemOut, SequenceTheorems, TLAPS

Chunk == 1..MaxWrites

\* While the parent reads, what it has copied and what is in the pipe are
\* together what was written, in order.
Streaming ==
  (pc \in {"start", "loop", "poll"}) =>
     /\ how = "none"
     /\ stream => /\ written = Len(given) + Len(pipe)
                  /\ \A i \in 1..Len(pipe) : pipe[i] = Len(given) + i

\* Nothing that was there at the last timeout has been left uncopied.
Marked == stream => mark <= Len(given)

\* A child that is gone holds no pipe, so nothing changes its status any more.
Gone == child # "running" => "child" \notin ends

\* The inductive invariant.
Inv == TypeOK /\ Streaming /\ Marked /\ Gone /\ OnlyLateOutputLost /\ StatusIsChilds

\* Removing the first k elements of a sequence.
LEMMA DropProperties ==
  ASSUME NEW S, NEW q \in Seq(S), NEW k \in 1..Len(q)
  PROVE  /\ SubSeq(q, k + 1, Len(q)) \in Seq(S)
         /\ Len(SubSeq(q, k + 1, Len(q))) = Len(q) - k
         /\ \A i \in 1..(Len(q) - k) : SubSeq(q, k + 1, Len(q))[i] = q[k + i]
<1>1. Len(q) \in Nat /\ \A i \in (k + 1)..Len(q) : q[i] \in S
  BY LenProperties, ElementOfSeq
<1>2. /\ SubSeq(q, k + 1, Len(q)) \in Seq(S)
      /\ Len(SubSeq(q, k + 1, Len(q))) =
           IF k + 1 <= Len(q) THEN Len(q) - (k + 1) + 1 ELSE 0
      /\ \A i \in 1..(Len(q) - (k + 1) + 1) :
           SubSeq(q, k + 1, Len(q))[i] = q[(k + 1) + i - 1]
  <2>1. k + 1 \in Int /\ Len(q) \in Int
    BY <1>1
  <2> QED
    BY <1>1, <2>1, SubSeqProperties
<1>3. /\ Len(q) - (k + 1) + 1 = Len(q) - k
      /\ (IF k + 1 <= Len(q) THEN Len(q) - (k + 1) + 1 ELSE 0) = Len(q) - k
  BY <1>1
<1>4. \A i \in 1..(Len(q) - k) : (k + 1) + i - 1 = k + i
  BY <1>1
<1>5. Len(SubSeq(q, k + 1, Len(q))) = Len(q) - k
  BY <1>2, <1>3
<1>6. \A i \in 1..(Len(q) - k) : SubSeq(q, k + 1, Len(q))[i] = q[(k + 1) + i - 1]
  BY <1>2, <1>3, Zenon
<1> QED
  BY <1>2, <1>4, <1>5, <1>6

\* Keeping them.
LEMMA TakeProperties ==
  ASSUME NEW S, NEW q \in Seq(S), NEW k \in 1..Len(q)
  PROVE  /\ SubSeq(q, 1, k) \in Seq(S)
         /\ Len(SubSeq(q, 1, k)) = k
         /\ \A i \in 1..k : SubSeq(q, 1, k)[i] = q[i]
<1>1. Len(q) \in Nat /\ \A i \in 1..k : q[i] \in S
  BY LenProperties, ElementOfSeq
<1>2. /\ SubSeq(q, 1, k) \in Seq(S)
      /\ Len(SubSeq(q, 1, k)) = IF 1 <= k THEN k - 1 + 1 ELSE 0
      /\ \A i \in 1..(k - 1 + 1) : SubSeq(q, 1, k)[i] = q[1 + i - 1]
  <2>1. 1 \in Int /\ k \in Int
    OBVIOUS
  <2> QED
    BY <1>1, <2>1, SubSeqProperties
<1>3. k - 1 + 1 = k /\ 1 <= k /\ \A i \in 1..k : 1 + i - 1 = i
  OBVIOUS
<1> QED
  BY <1>2, <1>3

\* Moving the first k chunks of the pipe to the stream.
LEMMA ReadInv ==
  ASSUME Inv, NEW k \in 1..ReadMax, Read(k)
  PROVE  Inv'
<1> USE DEF Inv
<1>1. /\ pc = "loop" /\ pc' = "loop" /\ k <= Len(pipe)
      /\ pipe' = SubSeq(pipe, k + 1, Len(pipe))
      /\ given' = IF stream THEN given \o SubSeq(pipe, 1, k) ELSE given
      /\ UNCHANGED <<stream, how, child, status, ends, written, mark, ret>>
  BY DEF Read, proc
<1>2. k \in 1..Len(pipe) /\ Len(pipe) \in Nat /\ Len(given) \in Nat
  BY <1>1, LenProperties, SystemOutAssumption DEF TypeOK
<1>3. /\ pipe' \in Seq(Chunk)
      /\ Len(pipe') = Len(pipe) - k
      /\ \A i \in 1..(Len(pipe) - k) : pipe'[i] = pipe[k + i]
  BY <1>1, <1>2, DropProperties DEF TypeOK, Chunk
<1>4. CASE ~stream
  BY <1>1, <1>3, <1>4 DEF TypeOK, Chunk, Streaming, Marked, Gone,
                          OnlyLateOutputLost, StatusIsChilds
<1>5. CASE stream
  <2> DEFINE t == SubSeq(pipe, 1, k)
  <2>1. t \in Seq(Chunk) /\ Len(t) = k /\ \A i \in 1..k : t[i] = pipe[i]
    BY <1>2, TakeProperties DEF TypeOK, Chunk
  <2>2. given' = given \o t
    BY <1>1, <1>5
  <2> HIDE DEF t
  <2>3. /\ given' \in Seq(Chunk)
        /\ Len(given') = Len(given) + k
        /\ \A i \in 1..(Len(given) + k) :
             given'[i] = IF i <= Len(given) THEN given[i] ELSE t[i - Len(given)]
    BY <2>1, <2>2, ConcatProperties DEF TypeOK, Chunk
  <2>4. /\ how = "none"
        /\ written = Len(given) + Len(pipe)
        /\ \A i \in 1..Len(pipe) : pipe[i] = Len(given) + i
    BY <1>1, <1>5 DEF Streaming
  <2>5. Len(given') + Len(pipe') = written'
    <3>1. /\ Len(given') = Len(given) + k
          /\ Len(pipe') = Len(pipe) - k
          /\ written' = Len(given) + Len(pipe)
      BY <1>1, <1>3, <2>3, <2>4
    <3> HIDE DEF Inv
    <3> QED
      BY <1>2, <3>1
  <2>6. ASSUME NEW i \in 1..Len(pipe') PROVE pipe'[i] = Len(given') + i
    <3>1. k + i \in 1..Len(pipe) /\ i \in 1..(Len(pipe) - k)
      BY <1>2, <1>3
    <3>2. pipe'[i] = Len(given) + (k + i)
      BY <1>3, <2>4, <3>1
    <3> QED
      BY <1>2, <2>3, <3>2
  <2>7. ASSUME NEW i \in 1..Len(given') PROVE given'[i] = i
    <3>1. CASE i <= Len(given)
      <4>1. i \in 1..Len(given) /\ given'[i] = given[i]
        BY <1>2, <2>3, <3>1
      <4> QED
        BY <1>5, <4>1 DEF OnlyLateOutputLost
    <3>2. CASE i > Len(given)
      <4>1. i - Len(given) \in 1..k /\ i - Len(given) \in 1..Len(pipe)
        BY <1>2, <2>3, <3>2
      <4>2. given'[i] = t[i - Len(given)]
        BY <1>2, <2>3, <3>2
      <4>3. given'[i] = Len(given) + (i - Len(given))
        BY <2>1, <2>4, <4>1, <4>2
      <4> QED
        BY <1>2, <2>3, <4>3
    <3> QED
      BY <1>2, <2>3, <3>1, <3>2
  <2>8. mark' <= Len(given')
    BY <1>1, <1>2, <1>5, <2>3 DEF Marked, TypeOK
  <2>9. TypeOK' /\ Gone' /\ StatusIsChilds'
    BY <1>1, <1>3, <2>3 DEF TypeOK, Chunk, Gone, StatusIsChilds
  <2> QED
    BY <1>1, <2>4, <2>5, <2>6, <2>7, <2>8, <2>9
       DEF Streaming, Marked, OnlyLateOutputLost
<1> QED
  BY <1>4, <1>5

\* A chunk is written to the pipe.
LEMMA WriteInv ==
  ASSUME Inv, NEW w \in {"child", "daemon"}, Write(w)
  PROVE  Inv'
<1> USE DEF Inv
<1>1. /\ pc \in {"loop", "poll"} /\ written < MaxWrites
      /\ written' = written + 1 /\ pipe' = Append(pipe, written + 1)
      /\ UNCHANGED <<stream, pc, how, mark, given, ret, child, status, ends>>
  BY DEF Write, parent, ReadEndOpen
<1>2. written + 1 \in Chunk /\ written' \in 0..MaxWrites
  BY <1>1, SystemOutAssumption DEF TypeOK, Chunk
<1>3. /\ pipe' \in Seq(Chunk)
      /\ Len(pipe) \in Nat
      /\ Len(pipe') = Len(pipe) + 1
      /\ \A i \in 1..Len(pipe) : pipe'[i] = pipe[i]
      /\ pipe'[Len(pipe) + 1] = written + 1
  BY <1>1, <1>2, AppendProperties, LenProperties DEF TypeOK, Chunk
<1>4. TypeOK' /\ Gone' /\ StatusIsChilds' /\ Marked'
  BY <1>1, <1>2, <1>3 DEF TypeOK, Chunk, Gone, StatusIsChilds, Marked
<1>5. how = "none" /\ OnlyLateOutputLost'
  BY <1>1 DEF Streaming, OnlyLateOutputLost
<1>6. Len(given) \in Nat
  BY LenProperties DEF TypeOK
<1>7. ASSUME stream
      PROVE  /\ written' = Len(given') + Len(pipe')
             /\ \A i \in 1..Len(pipe') : pipe'[i] = Len(given') + i
  <2>1. /\ written = Len(given) + Len(pipe)
        /\ \A i \in 1..Len(pipe) : pipe[i] = Len(given) + i
    BY <1>1, <1>7 DEF Streaming
  <2>2. ASSUME NEW i \in 1..Len(pipe') PROVE pipe'[i] = Len(given') + i
    <3>1. CASE i = Len(pipe) + 1
      BY <1>1, <1>3, <1>6, <2>1, <3>1
    <3>2. CASE i \in 1..Len(pipe)
      BY <1>1, <1>3, <2>1, <3>2
    <3> QED
      BY <1>3, <3>1, <3>2
  <2> QED
    BY <1>1, <1>3, <1>6, <2>1, <2>2
<1> QED
  BY <1>1, <1>4, <1>5, <1>7 DEF Streaming

\* Every step of the parent or of its command preserves the invariant.
LEMMA Step == Inv /\ [Next]_vars => Inv'
<1> SUFFICES ASSUME Inv, [Next]_vars PROVE Inv'
  OBVIOUS
<1> USE DEF Inv
<1>t. /\ TypeOK /\ Len(pipe) \in Nat /\ Len(given) \in Nat
      /\ written \in Nat /\ mark \in Nat
  BY LenProperties, SystemOutAssumption DEF TypeOK
<1> DEFINE Rest == Streaming' /\ Marked' /\ Gone' /\ OnlyLateOutputLost' /\ StatusIsChilds'
<1> USE DEF Streaming, Marked, Gone, OnlyLateOutputLost, StatusIsChilds
<1>1. ASSUME NEW k \in 1..ReadMax, Read(k) PROVE Inv'
  BY <1>1, ReadInv
<1>2. CASE EndOfFile
  <2>1. TypeOK'
    BY <1>2 DEF EndOfFile, proc, TypeOK
  <2>2. Rest
    BY <1>2, <1>t DEF EndOfFile, proc
  <2> QED
    BY <2>1, <2>2
<1>3. CASE SelectTimesOut
  <2>1. TypeOK'
    BY <1>3 DEF SelectTimesOut, proc, TypeOK
  <2>2. Rest
    BY <1>3, <1>t DEF SelectTimesOut, proc
  <2> QED
    BY <2>1, <2>2
<1>4. CASE Poll
  <2>1. TypeOK'
    BY <1>4 DEF Poll, TypeOK
  <2>2. Rest
    BY <1>4, <1>t DEF Poll
  <2> QED
    BY <2>1, <2>2
<1>5. CASE Reap
  <2>1. TypeOK'
    BY <1>5 DEF Reap, TypeOK
  <2>2. Rest
    BY <1>5, <1>t DEF Reap
  <2> QED
    BY <2>1, <2>2
<1>6. CASE StartFails
  <2>1. TypeOK'
    BY <1>6 DEF StartFails, proc, TypeOK
  <2>2. Rest
    BY <1>6, <1>t DEF StartFails, proc
  <2> QED
    BY <2>1, <2>2
<1>7. CASE Fork
  <2>1. TypeOK'
    BY <1>7 DEF Fork, TypeOK
  <2>2. Rest
    BY <1>7, <1>t DEF Fork
  <2> QED
    BY <2>1, <2>2
<1>8. ASSUME NEW k \in 1..ReadMax, WriteFails(k) PROVE Inv'
  <2>1. k \in 1..Len(pipe)
    BY <1>8, <1>t, SystemOutAssumption DEF WriteFails
  <2>2. pipe' \in Seq(Chunk)
    BY <1>8, <2>1, DropProperties DEF WriteFails, TypeOK, Chunk
  <2>3. TypeOK'
    BY <1>8, <2>2 DEF WriteFails, proc, TypeOK, Chunk
  <2>4. Rest
    BY <1>8, <1>t DEF WriteFails, proc
  <2> QED
    BY <2>3, <2>4
<1>9. CASE SelectFails
  <2>1. TypeOK'
    BY <1>9 DEF SelectFails, proc, TypeOK
  <2>2. Rest
    BY <1>9, <1>t DEF SelectFails, proc
  <2> QED
    BY <2>1, <2>2
<1>10. CASE WaitFails
  <2>1. TypeOK'
    BY <1>10 DEF WaitFails, proc, TypeOK
  <2>2. Rest
    BY <1>10, <1>t DEF WaitFails, proc
  <2> QED
    BY <2>1, <2>2
<1>11. ASSUME NEW w \in {"child", "daemon"}, Write(w) PROVE Inv'
  BY <1>11, WriteInv
<1>12. ASSUME NEW w \in {"child", "daemon"}, BrokenPipe(w) PROVE Inv'
  <2>1. TypeOK'
    BY <1>12 DEF BrokenPipe, parent, TypeOK
  <2>2. Rest
    BY <1>12, <1>t DEF BrokenPipe, parent, ReadEndOpen, TypeOK
  <2> QED
    BY <2>1, <2>2
<1>13. ASSUME NEW w \in {"child", "daemon"}, CloseOutput(w) PROVE Inv'
  <2>1. TypeOK'
    BY <1>13 DEF CloseOutput, parent, TypeOK
  <2>2. Rest
    BY <1>13, <1>t DEF CloseOutput, parent
  <2> QED
    BY <2>1, <2>2
<1>14. CASE Spawn
  <2>1. TypeOK'
    BY <1>14 DEF Spawn, parent, TypeOK
  <2>2. Rest
    BY <1>14, <1>t DEF Spawn, parent
  <2> QED
    BY <2>1, <2>2
<1>15. ASSUME NEW s \in {0, 1}, ChildExits(s) PROVE Inv'
  <2>1. TypeOK'
    BY <1>15 DEF ChildExits, parent, TypeOK
  <2>2. Rest
    BY <1>15, <1>t DEF ChildExits, parent
  <2> QED
    BY <2>1, <2>2
<1>16. CASE UNCHANGED vars
  BY <1>16 DEF vars, TypeOK
<1> QED
  BY <1>1, <1>2, <1>3, <1>4, <1>5, <1>6, <1>7, <1>8, <1>9, <1>10, <1>11,
     <1>12, <1>13, <1>14, <1>15, <1>16 DEF Next, Parent

\* The invariant holds throughout.
LEMMA Invariant == Spec => []Inv
<1>1. Init => Inv
  <2>1. <<>> \in Seq(1..MaxWrites) /\ 0 \in 0..MaxWrites /\ Len(<<>>) = 0
    BY SystemOutAssumption
  <2>2. Init => TypeOK
    BY <2>1 DEF Init, TypeOK
  <2>3. Init => Streaming /\ Marked /\ Gone /\ OnlyLateOutputLost /\ StatusIsChilds
    BY <2>1 DEF Init, Streaming, Marked, Gone, OnlyLateOutputLost, StatusIsChilds
  <2> QED
    BY <2>2, <2>3 DEF Inv
<1> QED
  BY <1>1, Step, PTL DEF Spec

\* Whatever the command, its daemon and the scheduler do, system_out loses no
\* output except what was written between its last look at the pipe and its
\* last look at the child, and never reorders any.
THEOREM OutputLossIsBounded == Spec => []OnlyLateOutputLost
BY Invariant, PTL DEF Inv

\* A status other than -1 is the exit status of the child, which was reaped.
THEOREM StatusIsReaped == Spec => []StatusIsChilds
BY Invariant, PTL DEF Inv
=============================================================================
