----------------------------- MODULE BootConfig -----------------------------
(***************************************************************************)
(* Saving, crashing and booting: vyatta-boot-config-loader, which a router *)
(* runs when it comes up, and vyatta-load-config.pl, which a user runs,    *)
(* composed with the savers of SaveConfig (all under src/scripts).         *)
(*                                                                         *)
(* Loader and load-config read the saved file and fill a session of        *)
(* configd; a commit makes it the running configuration, which is what a   *)
(* saver is shown.  A crash takes the sessions and the running             *)
(* configuration with it, and the router boots from what is on the disk.   *)
(*                                                                         *)
(* A configuration is abstracted to how much there is of it.               *)
(***************************************************************************)
EXTENDS SaveConfig

CONSTANT MaxCrashes   \* bound on the crashes of the machine

ASSUME BootAssumption == MaxCrashes \in Nat

Amounts == {"none", "cut", "full"}

VARIABLES
  loader,      \* where the loader is; how it ended
  candidate,   \* what is in its session; "closed" if it works with none
  running,     \* what the router runs
  failures,    \* since it came up, a load or a commit did not succeed
  crashes      \* number of crashes

boot == <<loader, candidate>>
bootVars == <<boot, running, failures, crashes>>
allVars == <<vars, bootVars>>

Ended == {"exit 0", "exit 1"}

\* Every variable of the loader and of configd stays in its range.
BootTypeOK ==
  /\ loader \in {"setup", "load", "commit", "teardown 0", "teardown 1"} \cup Ended
  /\ candidate \in Amounts \cup {"closed"}
  /\ running \in Amounts
  /\ failures \in BOOLEAN
  /\ crashes \in 0..MaxCrashes

\* The router comes up: no session, nothing configured.
Up ==
  [loader |-> "setup", candidate |-> "closed", running |-> "none", failures |-> FALSE]

BootInit ==
  /\ Init
  /\ loader = Up.loader /\ candidate = Up.candidate
  /\ running = Up.running /\ failures = Up.failures
  /\ crashes = 0

-----------------------------------------------------------------------------
(* What configd does for both (external).  A request that fails may have   *)
(* been executed, in part or as a whole; one for a session that is not     *)
(* there fails and does nothing.                                           *)

\* What may be there after amount was to replace old, and it failed.
LeftBy(old, amount) == {old, amount} \cup (IF amount = "none" THEN {} ELSE {"cut"})

\* The file is loaded into a session that holds old.
Loads(old, new, ok) ==
  \/ ok /\ old # "closed" /\ new = Saved.config
  \/ ~ok /\ old # "closed" /\ new \in LeftBy(old, Saved.config)
  \/ ~ok /\ old = "closed" /\ new = old

\* A session's configuration becomes the running one.
Commits(amount, ok) ==
  \/ ok /\ amount # "closed" /\ running' = amount
  \/ ~ok /\ amount # "closed" /\ running' \in LeftBy(running, amount)
  \/ ~ok /\ amount = "closed" /\ running' = running

Noted(ok) == failures' = (failures \/ ~ok)

-----------------------------------------------------------------------------
(* vyatta-boot-config-loader.                                              *)

\* Only an error ends it: where configd answers that there is no session,
\* setupSession exits with 0 and the loader goes on.  A session that was set up
\* although the answer was an error is never used.
SetUp ==
  /\ loader = "setup"
  /\ \/ candidate' \in {"closed", "none"} /\ loader' = "load" /\ UNCHANGED failures
     \/ candidate' = "closed" /\ loader' = "exit 1" /\ failures' = TRUE
  /\ UNCHANGED <<vars, running, crashes>>

\* A load that failed is reported, and the loader goes on.
LoadFile ==
  /\ loader = "load" /\ loader' = "commit"
  /\ \E ok \in BOOLEAN : Loads(candidate, candidate', ok) /\ Noted(ok)
  /\ UNCHANGED <<vars, running, crashes>>

\* Mutant: the environment of the session is not set; another one is committed.
CommitOther ==
  /\ loader = "commit"
  /\ \E ok \in BOOLEAN :
       /\ Commits(running, ok) /\ Noted(ok)
       /\ loader' = IF ok THEN "teardown 0" ELSE "teardown 1"
  /\ UNCHANGED <<vars, candidate, crashes>>

Commit ==
  /\ loader = "commit"
  /\ \E ok \in BOOLEAN :
       /\ Commits(candidate, ok) /\ Noted(ok)
       /\ loader' = IF ok THEN "teardown 0" ELSE "teardown 1"
  /\ UNCHANGED <<vars, candidate, crashes>>

\* A teardown that failed is reported, and the loader ends as the commit did; a
\* session that is left behind is never used again.
TearDown ==
  /\ \/ loader = "teardown 0" /\ loader' = "exit 0"
     \/ loader = "teardown 1" /\ loader' = "exit 1"
  /\ candidate' = "closed"
  /\ UNCHANGED <<vars, running, failures, crashes>>

Loader == SetUp \/ LoadFile \/ Commit \/ TearDown

-----------------------------------------------------------------------------
(* vyatta-load-config.pl on the saved file.  What it loads is in the       *)
(* user's own session, where nobody sees it before the user commits: one   *)
(* step here.                                                              *)

\* loadFileReportWarnings, whose status is not looked at; sessionChanged, after
\* which a user who is told that there is nothing to commit does not; the
\* user's commit (external).
LoadConfig ==
  /\ \E workspace \in Amounts, loaded \in BOOLEAN, ok \in BOOLEAN :
       /\ Loads(running, workspace, loaded)
       /\ \/ workspace # running /\ Commits(workspace, ok) /\ Noted(loaded /\ ok)
          \/ UNCHANGED running /\ Noted(loaded)
  /\ UNCHANGED <<vars, boot, crashes>>

-----------------------------------------------------------------------------
(* The others.                                                             *)

\* A saver is shown the running configuration.
SaverStep(s) ==
  /\ Save(s)
  /\ pc[s] = "open" /\ pc'[s] = "shown" /\ buf'[s] = "full" => running = "full"
  /\ UNCHANGED bootVars

Kernel ==
  /\ WriteBackDirectory \/ \E s \in Savers : WriteBack(s)
  /\ UNCHANGED bootVars

CrashAndBoot ==
  /\ crashes < MaxCrashes /\ crashes' = crashes + 1
  /\ Crash
  /\ loader' = Up.loader /\ candidate' = Up.candidate
  /\ running' = Up.running /\ failures' = Up.failures

BootNext ==
  \/ Loader
  \/ LoadConfig
  \/ \E s \in Savers : SaverStep(s)
  \/ Kernel
  \/ CrashAndBoot

BootSpec == BootInit /\ [][BootNext]_allVars

-----------------------------------------------------------------------------
\* Whenever the loader has ended and no load or commit has failed since the
\* router came up, it runs a whole configuration, whatever was being saved when
\* it crashed and whoever loads or saves meanwhile, unless a save went wrong in
\* a way the script does not look for, or was made of a part of a configuration.
BootRestores == loader \in Ended /\ ~failures /\ ~tainted => running = "full"
=============================================================================
