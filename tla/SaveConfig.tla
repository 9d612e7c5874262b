----------------------------- MODULE SaveConfig ----------------------------
(***************************************************************************)
(* Saving the configuration to a local file                                *)
(* (src/scripts/vyatta-save-config.pl, mode "local").                      *)
(*                                                                         *)
(* Several processes may save to the same file; each writes a temporary    *)
(* file, syncs it, renames it over the target and syncs the directory.     *)
(* The machine may crash at any point: then only what has reached the disk *)
(* is left.  The kernel may write back data and directory on its own, in   *)
(* any order.                                                              *)
(*                                                                         *)
(* A file is abstracted to how much of the configuration it holds and      *)
(* whether the version line, which goes last, is there.                    *)
(***************************************************************************)
EXTENDS Integers, Sequences

CONSTANTS
  Savers,  \* the processes that save, each once
  Faults   \* what may go wrong besides a crash

ASSUME SaveAssumption ==
  Faults \subseteq {"show", "version", "space", "sync", "rename"}

VARIABLES
  pc,       \* [Savers -> ...] where each process is
  file,     \* [Savers -> Contents] its temporary file, as processes see it
  disk,     \* [Savers -> Contents] the same file, as a crash leaves it
  buf,      \* [Savers -> ...] how much of the configuration it was shown
  moved,    \* the savers whose rename succeeded
  renames,  \* the savers whose file replaced the target, oldest first
  synced,   \* how many of the renames are on the disk
  tainted   \* some file may lack a part of the configuration

vars == <<pc, file, disk, buf, moved, renames, synced, tainted>>

Contents == [config : {"none", "cut", "full"}, version : BOOLEAN]
Nothing == [config |-> "none", version |-> FALSE]
Part == [config |-> "cut", version |-> FALSE]
Whole == [config |-> "full", version |-> TRUE]

PCs == {"idle", "checked", "open", "shown", "flushed", "synced", "renamed",
        "done", "failed", "dead"}

\* Every variable stays in its range.
TypeOK ==
  /\ pc \in [Savers -> PCs]
  /\ file \in [Savers -> Contents]
  /\ disk \in [Savers -> Contents]
  /\ buf \in [Savers -> {"none", "cut", "full"}]
  /\ moved \in SUBSET Savers
  /\ renames \in Seq(Savers)
  /\ synced \in Nat
  /\ tainted \in BOOLEAN

Init ==
  /\ pc = [s \in Savers |-> "idle"]
  /\ file = [s \in Savers |-> Nothing]
  /\ disk = [s \in Savers |-> Nothing]
  /\ buf = [s \in Savers |-> "none"]
  /\ moved = {}
  /\ renames = <<>>
  /\ synced = 0
  /\ tainted = FALSE

\* The saved configuration is a whole one to begin with.
Saved == IF renames = <<>> THEN Whole ELSE file[renames[Len(renames)]]

\* The saved configuration a crash would leave.
SavedOnDisk == IF synced = 0 THEN Whole ELSE disk[renames[synced]]

Goto(s, from, to) == pc[s] = from /\ pc' = [pc EXCEPT ![s] = to]

-----------------------------------------------------------------------------
(* The script. *)

\* An existing file without a version line is not replaced.
Check(s) ==
  /\ Goto(s, "idle", IF Saved.version THEN "checked" ELSE "failed")
  /\ UNCHANGED <<file, disk, buf, moved, renames, synced, tainted>>

CreateTemp(s) ==
  /\ Goto(s, "checked", "open") \/ Goto(s, "checked", "failed")
  /\ UNCHANGED <<file, disk, buf, moved, renames, synced, tainted>>

\* Copy the output of cli-shell-api; nobody looks at its exit status, so a
\* command that failed half-way, or at once, looks like a small configuration.
Show(s) ==
  /\ Goto(s, "open", "shown")
  /\ \E c \in {"full"} \cup (IF "show" \in Faults THEN {"none", "cut"} ELSE {}) :
       /\ buf' = [buf EXCEPT ![s] = c]
       /\ tainted' = (tainted \/ c # "full")
       /\ file' = [file EXCEPT ![s] = IF c = "none" THEN Nothing ELSE Part]
  /\ UNCHANGED <<disk, moved, renames, synced>>

\* print or die.
PrintFails(s) ==
  /\ "space" \in Faults
  /\ Goto(s, "open", "failed")
  /\ UNCHANGED <<file, disk, buf, moved, renames, synced, tainted>>

\* print $version_str; $| = 1: the rest of the buffer is written.  The version
\* is empty if the program that prints it failed, and a write that fails here
\* goes unnoticed.
Flush(s) ==
  /\ Goto(s, "shown", "flushed")
  /\ \E v \in {TRUE} \cup (IF "version" \in Faults THEN {FALSE} ELSE {}) :
       LET all == [config |-> buf[s], version |-> v]
       IN \E c \in {all} \cup (IF "space" \in Faults THEN {Nothing, Part} ELSE {}) :
            /\ file' = [file EXCEPT ![s] = c]
            /\ tainted' = (tainted \/ ~v \/ c # all)
  /\ UNCHANGED <<disk, buf, moved, renames, synced>>

\* Mutant: the data is not synced.
NoFsync(s) ==
  /\ Goto(s, "flushed", "synced")
  /\ UNCHANGED <<file, disk, buf, moved, renames, synced, tainted>>

\* fsync $save, whose result is ignored.
Fsync(s) ==
  /\ Goto(s, "flushed", "synced")
  /\ \/ disk' = [disk EXCEPT ![s] = file[s]] /\ UNCHANGED tainted
     \/ "sync" \in Faults /\ tainted' = TRUE /\ UNCHANGED disk
  /\ UNCHANGED <<file, buf, moved, renames, synced>>

\* -s and rename, whose result is ignored.
Rename(s) ==
  /\ Goto(s, "synced", IF file[s] = Nothing THEN "done" ELSE "renamed")
  /\ \/ /\ file[s] # Nothing
        /\ renames' = Append(renames, s)
        /\ moved' = moved \cup {s}
     \/ /\ file[s] = Nothing \/ "rename" \in Faults
        /\ UNCHANGED <<renames, moved>>
  /\ UNCHANGED <<file, disk, buf, synced, tainted>>

\* Mutant: the directory is not synced.
NoSyncDirectory(s) ==
  /\ Goto(s, "renamed", "done")
  /\ UNCHANGED <<file, disk, buf, moved, renames, synced, tainted>>

\* fsync($fh_basedir) or die; then the script prints Done.
SyncDirectory(s) ==
  /\ \/ Goto(s, "renamed", "done") /\ synced' = Len(renames)
     \/ Goto(s, "renamed", "failed") /\ UNCHANGED synced
  /\ UNCHANGED <<file, disk, buf, moved, renames, tainted>>

-----------------------------------------------------------------------------
(* The kernel and the machine (external). *)

WriteBack(s) ==
  /\ disk' = [disk EXCEPT ![s] = file[s]]
  /\ UNCHANGED <<pc, file, buf, moved, renames, synced, tainted>>

WriteBackDirectory ==
  /\ synced < Len(renames)
  /\ synced' = synced + 1
  /\ UNCHANGED <<pc, file, disk, buf, moved, renames, tainted>>

\* Everybody who was not finished is gone, and so is what was not on the disk.
Crash ==
  /\ pc' = [s \in Savers |-> IF pc[s] \in {"idle", "done", "failed"}
                             THEN pc[s] ELSE "dead"]
  /\ file' = disk
  /\ renames' = SubSeq(renames, 1, synced)
  /\ UNCHANGED <<disk, buf, moved, synced, tainted>>

-----------------------------------------------------------------------------

Save(s) ==
  \/ Check(s)
  \/ CreateTemp(s)
  \/ Show(s)
  \/ PrintFails(s)
  \/ Flush(s)
  \/ Fsync(s)
  \/ Rename(s)
  \/ SyncDirectory(s)

Next ==
  \/ \E s \in Savers : Save(s) \/ WriteBack(s)
  \/ WriteBackDirectory
  \/ Crash

Spec == Init /\ [][Next]_vars

-----------------------------------------------------------------------------
(* Properties. *)

\* The saved configuration is a whole one, now and after a crash at this very
\* moment, however many processes are saving, unless a save went wrong in a way
\* the script does not look for: the data is on the disk before the rename is.
SavedIsWhole == ~tainted => Saved = Whole /\ SavedOnDisk = Whole

\* A save that replaced the file and reported Done is not undone by a crash,
\* then or later: its rename, or a later one over it, is on the disk.
DoneIsDurable ==
  \A s \in moved : pc[s] = "done" =>
    \E i \in 1..synced : i <= Len(renames) /\ renames[i] = s
=============================================================================
