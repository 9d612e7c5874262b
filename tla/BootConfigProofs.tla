-------------------------- MODULE BootConfigProofs --------------------------
(***************************************************************************)
(* Theorems about SaveConfig and, on top of them, BootConfig, for any set  *)
(* of savers, any faults and any number of crashes.                        *)
(***************************************************************************)
EXTENDS BootConfig, SequenceTheorems, TLAPS

-----------------------------------------------------------------------------
(* The savers. *)

\* Who has passed the rename.
Past == {"renamed", "done", "failed", "dead"}

\* A file that took the target's place belongs to a saver past its rename, so
\* nobody writes to it any more.
Settled ==
  /\ synced <= Len(renames)
  /\ \A i \in 1..Len(renames) : pc[renames[i]] \in Past
  /\ \A s \in moved : pc[s] \in Past
  /\ \A s \in moved : pc[s] = "renamed" =>
       \E i \in 1..Len(renames) : renames[i] = s

\* Every file that took the target's place was whole, and on the disk, before
\* it did.
WholeFirst ==
  ~tainted =>
    /\ \A s \in Savers :
         /\ pc[s] = "shown" => buf[s] = "full"
         /\ pc[s] \in {"flushed", "synced"} => file[s] = Whole
         /\ pc[s] = "synced" => disk[s] = Whole
    /\ \A i \in 1..Len(renames) :
         file[renames[i]] = Whole /\ disk[renames[i]] = Whole

\* The inductive invariant.
Inv == TypeOK /\ Settled /\ WholeFirst /\ DoneIsDurable

\* Renames are made by savers.
LEMMA RenameType ==
  ASSUME TypeOK
  PROVE  Len(renames) \in Nat /\ \A i \in 1..Len(renames) : renames[i] \in Savers
BY LenProperties, ElementOfSeq DEF TypeOK

\* The invariant says what a reader, now or after a crash, finds.
LEMMA WholeSaved == Inv => SavedIsWhole
<1> SUFFICES ASSUME Inv, ~tainted PROVE Saved = Whole /\ SavedOnDisk = Whole
  BY DEF SavedIsWhole
<1>1. /\ Len(renames) \in Nat /\ synced \in Nat /\ synced <= Len(renames)
      /\ renames # <<>> => Len(renames) > 0
      /\ \A i \in 1..Len(renames) :
           file[renames[i]] = Whole /\ disk[renames[i]] = Whole
  BY RenameType, EmptySeq DEF Inv, TypeOK, Settled, WholeFirst
<1> QED
  BY <1>1 DEF Saved, SavedOnDisk

\* A step of one saver that writes none of the files that count, and does not
\* pass the rename, keeps the invariant.
LEMMA LocalStep ==
  ASSUME Inv, NEW s \in Savers, NEW from, NEW to \in PCs, Goto(s, from, to),
         from \notin Past, to # "done", to # "renamed",
         UNCHANGED <<moved, renames, synced>>,
         file' \in [Savers -> Contents], disk' \in [Savers -> Contents],
         buf' \in [Savers -> {"none", "cut", "full"}],
         tainted' \in BOOLEAN, tainted => tainted',
         \A r \in Savers \ {s} :
           file'[r] = file[r] /\ disk'[r] = disk[r] /\ buf'[r] = buf[r],
         ~tainted' =>
           /\ to = "shown" => buf'[s] = "full"
           /\ to \in {"flushed", "synced"} => file'[s] = Whole
           /\ to = "synced" => disk'[s] = Whole
  PROVE  Inv'
<1> USE DEF Inv
<1>1. /\ pc[s] = from /\ pc' = [pc EXCEPT ![s] = to] /\ pc \in [Savers -> PCs]
      /\ pc' \in [Savers -> PCs]
      /\ pc'[s] = to /\ \A r \in Savers \ {s} : pc'[r] = pc[r]
  BY DEF Goto, TypeOK
<1>2. TypeOK'
  BY <1>1 DEF TypeOK
<1>3. \A i \in 1..Len(renames) : renames[i] \in Savers \ {s}
  BY <1>1, RenameType DEF Settled
<1>4. \A r \in moved : r \in Savers \ {s}
  BY <1>1 DEF Settled, TypeOK
<1>5. Settled'
  BY <1>1, <1>3, <1>4 DEF Settled
<1>6. WholeFirst'
  BY <1>1, <1>3 DEF WholeFirst
<1>7. DoneIsDurable'
  BY <1>1, <1>4 DEF DoneIsDurable
<1> QED
  BY <1>2, <1>5, <1>6, <1>7

\* The rename, after which the file counts.
LEMMA RenameStep ==
  ASSUME Inv, NEW s \in Savers, Rename(s)
  PROVE  Inv'
<1> USE DEF Inv
<1>1. pc[s] = "synced" /\ UNCHANGED <<file, disk, buf, synced, tainted>>
  BY DEF Rename, Goto
<1>2. PICK to \in {"done", "renamed"} :
        pc' = [pc EXCEPT ![s] = to] /\ (to = "done" => file[s] = Nothing)
  BY DEF Rename, Goto
<1>3. /\ pc' \in [Savers -> PCs]
      /\ pc'[s] = to /\ \A r \in Savers \ {s} : pc'[r] = pc[r]
  BY <1>2 DEF TypeOK, PCs
<1>4. s \notin moved /\ \A i \in 1..Len(renames) : renames[i] \in Savers \ {s}
  BY <1>1, RenameType DEF Settled, Past
<1>5. moved \subseteq Savers
  BY DEF TypeOK
<1>6. CASE UNCHANGED <<renames, moved>>
  <2>1. TypeOK'
    BY <1>1, <1>3, <1>6 DEF TypeOK
  <2>2. Settled'
    BY <1>1, <1>3, <1>4, <1>5, <1>6 DEF Settled
  <2>3. WholeFirst'
    BY <1>1, <1>3, <1>4, <1>6 DEF WholeFirst
  <2>4. DoneIsDurable'
    BY <1>1, <1>3, <1>4, <1>5, <1>6 DEF DoneIsDurable
  <2> QED
    BY <2>1, <2>2, <2>3, <2>4
<1>7. CASE /\ file[s] # Nothing
           /\ renames' = Append(renames, s)
           /\ moved' = moved \cup {s}
  <2>1. to = "renamed"
    BY <1>2, <1>7
  <2>2. /\ renames' \in Seq(Savers)
        /\ Len(renames) \in Nat
        /\ Len(renames') = Len(renames) + 1
        /\ \A i \in 1..Len(renames) : renames'[i] = renames[i]
        /\ renames'[Len(renames) + 1] = s
    BY <1>7, AppendProperties, LenProperties DEF TypeOK
  <2>3. TypeOK'
    BY <1>1, <1>3, <1>7, <2>2 DEF TypeOK
  <2>4. \A i \in 1..Len(renames') :
          i = Len(renames) + 1 \/ i \in 1..Len(renames)
    BY <2>2
  <2>5. Settled'
    <3>1. synced' <= Len(renames')
      BY <1>1, <2>2 DEF Settled, TypeOK
    <3>2. \A i \in 1..Len(renames') : pc'[renames'[i]] \in Past
      BY <1>3, <1>4, <2>1, <2>2, <2>4 DEF Settled, Past
    <3>3. \A r \in moved' : pc'[r] \in Past
      BY <1>3, <1>5, <1>7, <2>1 DEF Settled, Past
    <3>4. ASSUME NEW r \in moved', pc'[r] = "renamed"
          PROVE  \E i \in 1..Len(renames') : renames'[i] = r
      <4>1. CASE r = s
        <5>1. Len(renames) + 1 \in 1..Len(renames')
          BY <2>2
        <5> QED
          BY <2>2, <4>1, <5>1
      <4>2. CASE r # s
        <5>1. PICK i \in 1..Len(renames) : renames[i] = r
          BY <1>3, <1>5, <1>7, <3>4, <4>2 DEF Settled
        <5>2. i \in 1..Len(renames') /\ renames'[i] = r
          BY <2>2, <5>1
        <5> QED
          BY <5>2
      <4> QED
        BY <4>1, <4>2
    <3> QED
      BY <3>1, <3>2, <3>3, <3>4 DEF Settled
  <2>6. WholeFirst'
    BY <1>1, <1>3, <1>4, <2>1, <2>2, <2>4 DEF WholeFirst
  <2>7. DoneIsDurable'
    <3>1. ASSUME NEW r \in moved', pc'[r] = "done"
          PROVE  \E i \in 1..synced' : i <= Len(renames') /\ renames'[i] = r
      <4>1. r \in moved /\ pc[r] = "done"
        BY <1>3, <1>5, <1>7, <2>1, <3>1
      <4>2. PICK i \in 1..synced : i <= Len(renames) /\ renames[i] = r
        BY <4>1 DEF DoneIsDurable
      <4>3. i \in 1..Len(renames)
        BY <2>2, <4>2 DEF TypeOK
      <4> QED
        BY <1>1, <2>2, <4>2, <4>3
    <3> QED
      BY <3>1 DEF DoneIsDurable
  <2> QED
    BY <2>3, <2>5, <2>6, <2>7
<1> QED
  BY <1>6, <1>7 DEF Rename

\* Syncing the directory, successfully or not.
LEMMA SyncDirectoryStep ==
  ASSUME Inv, NEW s \in Savers, SyncDirectory(s)
  PROVE  Inv'
<1> USE DEF Inv
<1>1. /\ pc[s] = "renamed"
      /\ UNCHANGED <<file, disk, buf, moved, renames, tainted>>
  BY DEF SyncDirectory, Goto
<1>2. PICK to \in {"done", "failed"} :
        /\ pc' = [pc EXCEPT ![s] = to]
        /\ synced' = IF to = "done" THEN Len(renames) ELSE synced
  BY DEF SyncDirectory, Goto
<1>3. /\ pc' \in [Savers -> PCs]
      /\ pc'[s] = to /\ \A r \in Savers \ {s} : pc'[r] = pc[r]
  BY <1>2 DEF TypeOK, PCs
<1>4. /\ Len(renames) \in Nat
      /\ \A i \in 1..Len(renames) : renames[i] \in Savers
      /\ moved \subseteq Savers
      /\ synced \in Nat /\ synced <= Len(renames)
  BY RenameType DEF TypeOK, Settled
<1>5. synced' \in Nat /\ synced <= synced' /\ synced' <= Len(renames)
  BY <1>2, <1>4
<1>6. TypeOK'
  BY <1>1, <1>3, <1>5 DEF TypeOK
<1>7. Settled'
  BY <1>1, <1>3, <1>4, <1>5 DEF Settled, Past
<1>8. WholeFirst'
  BY <1>1, <1>3, <1>4 DEF WholeFirst
<1>9. ASSUME NEW r \in moved, pc'[r] = "done"
      PROVE  \E i \in 1..synced' : i <= Len(renames) /\ renames[i] = r
  <2>1. CASE r = s
    <3>1. PICK i \in 1..Len(renames) : renames[i] = s
      BY <1>1, <1>9, <2>1 DEF Settled
    <3>2. synced' = Len(renames)
      BY <1>2, <1>3, <1>9, <2>1
    <3> QED
      BY <1>4, <2>1, <3>1, <3>2
  <2>2. CASE r # s
    <3>1. PICK i \in 1..synced : i <= Len(renames) /\ renames[i] = r
      BY <1>3, <1>4, <1>9, <2>2 DEF DoneIsDurable
    <3>2. i \in 1..synced'
      BY <1>4, <1>5, <3>1
    <3> QED
      BY <3>1, <3>2
  <2> QED
    BY <2>1, <2>2
<1>10. DoneIsDurable'
  BY <1>1, <1>9 DEF DoneIsDurable
<1> QED
  BY <1>6, <1>7, <1>8, <1>10

\* A crash.
LEMMA CrashStep ==
  ASSUME Inv, Crash
  PROVE  Inv'
<1> USE DEF Inv
<1>1. /\ file' = disk /\ renames' = SubSeq(renames, 1, synced)
      /\ UNCHANGED <<disk, buf, moved, synced, tainted>>
      /\ pc' = [s \in Savers |-> IF pc[s] \in {"idle", "done", "failed"}
                                 THEN pc[s] ELSE "dead"]
  BY DEF Crash
<1>2. /\ Len(renames) \in Nat /\ synced \in Nat /\ synced <= Len(renames)
      /\ \A i \in 1..Len(renames) : renames[i] \in Savers
      /\ moved \subseteq Savers
  BY RenameType DEF TypeOK, Settled
<1>3. /\ renames' \in Seq(Savers)
      /\ Len(renames') = synced
      /\ \A i \in 1..synced : renames'[i] = renames[i]
  <2>1. /\ 1 \in Int /\ synced \in Int
        /\ \A i \in 1..synced : renames[i] \in Savers
    BY <1>2
  <2>2. /\ SubSeq(renames, 1, synced) \in Seq(Savers)
        /\ Len(SubSeq(renames, 1, synced)) = IF 1 <= synced THEN synced - 1 + 1 ELSE 0
        /\ \A i \in 1..(synced - 1 + 1) :
             SubSeq(renames, 1, synced)[i] = renames[1 + i - 1]
    BY <2>1, SubSeqProperties
  <2>3. /\ synced - 1 + 1 = synced
        /\ (IF 1 <= synced THEN synced - 1 + 1 ELSE 0) = synced
        /\ \A i \in 1..synced : 1 + i - 1 = i
    BY <1>2
  <2> QED
    BY <1>1, <2>2, <2>3
<1>4. pc' \in [Savers -> PCs] /\ \A s \in Savers :
        /\ pc'[s] \in {"idle", "done", "failed", "dead"}
        /\ pc'[s] = "done" => pc[s] = "done"
        /\ pc[s] \in Past => pc'[s] \in Past
  BY <1>1 DEF TypeOK, PCs, Past
<1>5. TypeOK'
  BY <1>1, <1>3, <1>4 DEF TypeOK
<1>6. \A i \in 1..synced : i \in 1..Len(renames)
  BY <1>2
<1>7. Settled'
  <2>1. synced' <= Len(renames')
    BY <1>1, <1>2, <1>3
  <2>2. ASSUME NEW i \in 1..Len(renames') PROVE pc'[renames'[i]] \in Past
    <3>1. i \in 1..Len(renames) /\ renames'[i] = renames[i]
      BY <1>3, <1>6, <2>2
    <3>2. renames[i] \in Savers /\ pc[renames[i]] \in Past
      BY <1>2, <3>1 DEF Settled
    <3> QED
      BY <1>4, <3>1, <3>2
  <2>3. \A s \in moved' : s \in Savers /\ pc'[s] \in Past
    BY <1>1, <1>2, <1>4 DEF Settled
  <2>4. \A s \in moved' : pc'[s] # "renamed"
    BY <1>4, <2>3
  <2> QED
    BY <2>1, <2>2, <2>3, <2>4 DEF Settled
<1>8. WholeFirst'
  BY <1>1, <1>3, <1>4, <1>6 DEF WholeFirst
<1>9. DoneIsDurable'
  BY <1>1, <1>2, <1>3, <1>4 DEF DoneIsDurable
<1> QED
  BY <1>5, <1>7, <1>8, <1>9

\* Every step of a saver, of the kernel or a crash preserves the invariant.
LEMMA Step == Inv /\ [Next]_vars => Inv'
<1> SUFFICES ASSUME Inv, [Next]_vars PROVE Inv'
  OBVIOUS
<1>t. TypeOK /\ WholeFirst
  BY DEF Inv
<1>c. Nothing \in Contents /\ Part \in Contents /\ Whole \in Contents
  BY DEF Nothing, Part, Whole, Contents
<1> USE DEF Past
<1>1. ASSUME NEW s \in Savers, Check(s) PROVE Inv'
  <2>1. PICK to \in {"checked", "failed"} : Goto(s, "idle", to)
    BY <1>1 DEF Check
  <2> QED
    BY <1>1, <1>t, <2>1, LocalStep DEF Check, TypeOK, PCs
<1>2. ASSUME NEW s \in Savers, CreateTemp(s) PROVE Inv'
  <2>1. PICK to \in {"open", "failed"} : Goto(s, "checked", to)
    BY <1>2 DEF CreateTemp
  <2> QED
    BY <1>2, <1>t, <2>1, LocalStep DEF CreateTemp, TypeOK, PCs
<1>3. ASSUME NEW s \in Savers, Show(s) PROVE Inv'
  <2>1. PICK c \in {"none", "cut", "full"} :
          /\ buf' = [buf EXCEPT ![s] = c]
          /\ tainted' = (tainted \/ c # "full")
          /\ file' = [file EXCEPT ![s] = IF c = "none" THEN Nothing ELSE Part]
    BY <1>3 DEF Show
  <2>2. /\ file' \in [Savers -> Contents]
        /\ buf' \in [Savers -> {"none", "cut", "full"}]
        /\ buf'[s] = c
        /\ \A r \in Savers \ {s} : file'[r] = file[r] /\ buf'[r] = buf[r]
    BY <1>t, <1>c, <2>1 DEF TypeOK
  <2>3. tainted' \in BOOLEAN /\ (tainted => tainted') /\ (~tainted' => c = "full")
    BY <1>t, <2>1 DEF TypeOK
  <2>4. Goto(s, "open", "shown") /\ UNCHANGED <<disk, moved, renames, synced>>
    BY <1>3 DEF Show
  <2>5. "shown" \in PCs /\ disk' \in [Savers -> Contents]
    BY <1>t, <2>4 DEF TypeOK, PCs
  <2> QED
    BY <2>2, <2>3, <2>4, <2>5, LocalStep
<1>4. ASSUME NEW s \in Savers, PrintFails(s) PROVE Inv'
  BY <1>4, <1>t, LocalStep DEF PrintFails, TypeOK, PCs
<1>5. ASSUME NEW s \in Savers, Flush(s) PROVE Inv'
  <2>1. Goto(s, "shown", "flushed") /\ UNCHANGED <<disk, buf, moved, renames, synced>>
    BY <1>5 DEF Flush
  <2>2. PICK v \in BOOLEAN : \E c \in {[config |-> buf[s], version |-> v], Nothing, Part} :
          /\ file' = [file EXCEPT ![s] = c]
          /\ tainted' = (tainted \/ ~v \/ c # [config |-> buf[s], version |-> v])
    BY <1>5 DEF Flush
  <2>3. PICK c \in {[config |-> buf[s], version |-> v], Nothing, Part} :
          /\ file' = [file EXCEPT ![s] = c]
          /\ tainted' = (tainted \/ ~v \/ c # [config |-> buf[s], version |-> v])
    BY <2>2
  <2>4. [config |-> buf[s], version |-> v] \in Contents
    BY <1>t DEF TypeOK, Contents
  <2>5. c \in Contents
    BY <1>c, <2>3, <2>4
  <2>6. /\ file' \in [Savers -> Contents]
        /\ file'[s] = c
        /\ \A r \in Savers \ {s} : file'[r] = file[r]
    BY <1>t, <2>3, <2>5 DEF TypeOK
  <2>7. tainted' \in BOOLEAN /\ (tainted => tainted')
    BY <1>t, <2>3 DEF TypeOK
  <2>8. ~tainted' => c = Whole
    <3>1. ASSUME ~tainted' PROVE c = Whole
      <4>1. ~tainted /\ v /\ c = [config |-> buf[s], version |-> v]
        BY <2>3, <3>1
      <4>2. buf[s] = "full"
        BY <1>t, <2>1, <4>1 DEF WholeFirst, Goto
      <4>3. v = TRUE
        BY <4>1
      <4> QED
        BY <4>1, <4>2, <4>3 DEF Whole
    <3> QED
      BY <3>1
  <2>9. /\ "flushed" \in PCs /\ disk' \in [Savers -> Contents]
        /\ buf' \in [Savers -> {"none", "cut", "full"}]
    BY <1>t, <2>1 DEF TypeOK, PCs
  <2> QED
    BY <2>1, <2>6, <2>7, <2>8, <2>9, LocalStep
<1>6. ASSUME NEW s \in Savers, Fsync(s) PROVE Inv'
  <2>1. Goto(s, "flushed", "synced") /\ UNCHANGED <<file, buf, moved, renames, synced>>
    BY <1>6 DEF Fsync
  <2>2. /\ disk' \in [Savers -> Contents]
        /\ \A r \in Savers \ {s} : disk'[r] = disk[r]
        /\ tainted' \in BOOLEAN /\ (tainted => tainted')
        /\ ~tainted' => ~tainted /\ disk'[s] = file[s]
    BY <1>6, <1>t DEF Fsync, TypeOK
  <2>3. ~tainted' => file[s] = Whole
    BY <1>t, <2>1, <2>2 DEF WholeFirst, Goto
  <2>4. /\ "synced" \in PCs /\ file' \in [Savers -> Contents]
        /\ buf' \in [Savers -> {"none", "cut", "full"}]
    BY <1>t, <2>1 DEF TypeOK, PCs
  <2> QED
    BY <2>1, <2>2, <2>3, <2>4, LocalStep
<1>7. ASSUME NEW s \in Savers, WriteBack(s) PROVE Inv'
  BY <1>7, RenameType
     DEF WriteBack, Inv, TypeOK, Settled, WholeFirst, DoneIsDurable
<1>8. CASE WriteBackDirectory
  <2>1. /\ synced' = synced + 1 /\ synced' <= Len(renames) /\ synced' \in Nat
        /\ synced \in Nat /\ Len(renames) \in Nat
        /\ UNCHANGED <<pc, file, disk, buf, moved, renames, tainted>>
    BY <1>8, <1>t, RenameType DEF WriteBackDirectory, TypeOK
  <2>2. \A i \in 1..synced : i \in 1..synced'
    BY <2>1
  <2> QED
    BY <2>1, <2>2 DEF Inv, TypeOK, Settled, WholeFirst, DoneIsDurable
<1>9. CASE UNCHANGED vars
  BY <1>9 DEF vars, Inv, TypeOK, Settled, WholeFirst, DoneIsDurable
<1> QED
  BY <1>1, <1>2, <1>3, <1>4, <1>5, <1>6, <1>7, <1>8, <1>9, RenameStep,
     SyncDirectoryStep, CrashStep DEF Next, Save

\* The invariant holds throughout.
LEMMA Invariant == Spec => []Inv
<1>1. Init => Inv
  <2>1. Nothing \in Contents /\ <<>> \in Seq(Savers) /\ Len(<<>>) = 0
    BY DEF Nothing, Contents
  <2>2. Init => TypeOK
    <3> SUFFICES ASSUME Init PROVE TypeOK
      OBVIOUS
    <3>1. pc \in [Savers -> PCs] /\ buf \in [Savers -> {"none", "cut", "full"}]
      BY DEF Init, PCs
    <3>2. file \in [Savers -> Contents] /\ disk \in [Savers -> Contents]
      BY <2>1 DEF Init
    <3>3. moved \in SUBSET Savers /\ renames \in Seq(Savers) /\ synced \in Nat
      BY <2>1 DEF Init
    <3>4. tainted \in BOOLEAN
      BY DEF Init
    <3> QED
      BY <3>1, <3>2, <3>3, <3>4 DEF TypeOK
  <2>3. Init => Settled /\ WholeFirst /\ DoneIsDurable
    BY <2>1 DEF Init, Settled, WholeFirst, DoneIsDurable
  <2> QED
    BY <2>2, <2>3 DEF Inv
<1> QED
  BY <1>1, Step, PTL DEF Spec

\* However many processes save at once and whenever the machine crashes, the
\* saved configuration is whole, unless the script overlooked a failure.
THEOREM CrashSafe == Spec => []SavedIsWhole
BY Invariant, WholeSaved, PTL

\* A save that replaced the file and reported Done survives every later crash.
THEOREM Durable == Spec => []DoneIsDurable
BY Invariant, PTL DEF Inv
-----------------------------------------------------------------------------
(* The boot loader. *)

\* To the savers, the loader, the users and a reboot are nothing new.
LEMMA SaversRefined == BootSpec => Spec
<1>1. BootInit => Init
  BY DEF BootInit
<1>2. [BootNext]_allVars => [Next]_vars
  <2> SUFFICES ASSUME [BootNext]_allVars PROVE [Next]_vars
    OBVIOUS
  <2>1. CASE Loader
    BY <2>1 DEF Loader, SetUp, LoadFile, Commit, TearDown
  <2>2. CASE LoadConfig
    BY <2>2 DEF LoadConfig
  <2>3. ASSUME NEW s \in Savers, SaverStep(s) PROVE Next
    BY <2>3 DEF SaverStep, Next
  <2>4. CASE Kernel
    BY <2>4 DEF Kernel, Next
  <2>5. CASE CrashAndBoot
    BY <2>5 DEF CrashAndBoot, Next
  <2>6. CASE UNCHANGED allVars
    BY <2>6 DEF allVars
  <2> QED
    BY <2>1, <2>2, <2>3, <2>4, <2>5, <2>6 DEF BootNext
<1> QED
  BY <1>1, <1>2, PTL DEF BootSpec, Spec

\* A loader without a failure carries a whole configuration from the file to
\* configd; the inductive invariant, beside that of the savers.
Carried ==
  /\ failures \in BOOLEAN
  /\ ~failures /\ ~tainted =>
       /\ loader = "commit" => candidate = "full"
       /\ loader \in {"teardown 0", "teardown 1"} \cup Ended => running = "full"

\* No step takes a taint away, and only savers taint.
LEMMA TaintStays ==
  ASSUME TypeOK, BootNext
  PROVE  tainted => tainted'
<1>1. ASSUME NEW s \in Savers, Save(s) PROVE tainted => tainted'
  BY <1>1
  DEF Save, Check, CreateTemp, Show, PrintFails, Flush, Fsync, Rename, SyncDirectory, TypeOK
<1>2. WriteBackDirectory \/ (\E s \in Savers : WriteBack(s)) \/ Crash => (tainted => tainted')
  BY DEF WriteBackDirectory, WriteBack, Crash
<1>3. Loader \/ LoadConfig => (tainted => tainted')
  BY DEF Loader, SetUp, LoadFile, Commit, TearDown, LoadConfig, vars
<1> QED
  BY <1>1, <1>2, <1>3 DEF BootNext, SaverStep, Kernel, CrashAndBoot

\* What is in the file when nothing was tainted.
LEMMA FileWhole == SavedIsWhole /\ ~tainted => Saved.config = "full"
BY DEF SavedIsWhole, Whole

LEMMA CarriedStep ==
  ASSUME TypeOK, SavedIsWhole, Carried, [BootNext]_allVars
  PROVE  Carried'
<1> USE DEF Carried, Ended
<1>1. CASE SetUp
  BY <1>1 DEF SetUp, vars
<1>2. CASE LoadFile
  <2>1. PICK ok \in BOOLEAN : Loads(candidate, candidate', ok) /\ Noted(ok)
    BY <1>2 DEF LoadFile
  <2>2. ~failures' /\ ~tainted' => candidate' = "full"
    BY <1>2, <2>1, FileWhole DEF LoadFile, Loads, Noted, vars
  <2>3. failures' \in BOOLEAN /\ loader' = "commit"
    BY <1>2, <2>1 DEF LoadFile, Noted
  <2> QED
    BY <2>2, <2>3
<1>3. CASE Commit
  <2>1. PICK ok \in BOOLEAN : Commits(candidate, ok) /\ Noted(ok)
    BY <1>3 DEF Commit
  <2>2. ~failures' /\ ~tainted' => running' = "full"
    BY <1>3, <2>1 DEF Commit, Commits, Noted, vars
  <2>3. failures' \in BOOLEAN /\ loader' # "commit"
    BY <1>3, <2>1 DEF Commit, Noted
  <2> QED
    BY <2>2, <2>3
<1>4. CASE TearDown
  BY <1>4 DEF TearDown, vars
<1>5. CASE LoadConfig
  <2>1. PICK workspace \in Amounts, loaded \in BOOLEAN, ok \in BOOLEAN :
          /\ Loads(running, workspace, loaded)
          /\ \/ workspace # running /\ Commits(workspace, ok) /\ Noted(loaded /\ ok)
             \/ UNCHANGED running /\ Noted(loaded)
    BY <1>5 DEF LoadConfig
  <2>2. failures' \in BOOLEAN /\ UNCHANGED <<vars, loader, candidate>>
    BY <1>5, <2>1 DEF LoadConfig, Noted, boot
  <2>3. ~failures' => ~failures /\ workspace = Saved.config
                      /\ (running' = running \/ running' = workspace)
    BY <2>1 DEF Loads, Commits, Noted
  <2>4. ~tainted' => ~tainted
    BY <2>2 DEF vars
  <2> QED
    BY <2>2, <2>3, <2>4, FileWhole
<1>6. ASSUME tainted => tainted', UNCHANGED bootVars PROVE Carried'
  BY <1>6 DEF bootVars, boot
<1>7. ASSUME NEW s \in Savers, SaverStep(s) PROVE Carried'
  BY <1>6, <1>7, TaintStays DEF SaverStep, BootNext
<1>8. CASE Kernel
  BY <1>6, <1>8, TaintStays DEF Kernel, BootNext
<1>9. CASE CrashAndBoot
  BY <1>9 DEF CrashAndBoot, Up
<1>10. CASE UNCHANGED allVars
  BY <1>6, <1>10 DEF allVars, vars
<1> QED
  BY <1>1, <1>2, <1>3, <1>4, <1>5, <1>7, <1>8, <1>9, <1>10 DEF BootNext, Loader

\* For any savers, faults and crashes: when the loader has ended and no load and
\* no commit has failed, the router runs a whole configuration, unless a save
\* was tainted.
THEOREM BootsWhole == BootSpec => []BootRestores
<1>1. BootInit => Carried
  BY DEF BootInit, Up, Carried, Ended
<1>2. Inv => TypeOK /\ SavedIsWhole
  BY WholeSaved DEF Inv
<1>3. Carried => BootRestores
  BY DEF Carried, BootRestores
<1> QED
  BY <1>1, <1>2, <1>3, CarriedStep, SaversRefined, Invariant, PTL DEF BootSpec

\* Loading and booting do not endanger what the savers promise: the saved
\* configuration is whole at every moment, also for a router that boots.
THEOREM BootCrashSafe == BootSpec => []SavedIsWhole
BY SaversRefined, CrashSafe, PTL

\* A reported save is still there when the router boots.
THEOREM BootDurable == BootSpec => []DoneIsDurable
BY SaversRefined, Durable, PTL
=============================================================================
