----------------------------- MODULE CompatStore -----------------------------
(***************************************************************************)
(* The observers of class Cstore (src/src/compat/cstore-compat.cpp), which *)
(* Vyatta::Config gives to Perl.  An observer asks configd several         *)
(* questions, one RPC each, and puts the answers together; meanwhile other *)
(* clients edit, commit and tear the session down, and any RPC may fail.   *)
(*                                                                         *)
(* The model looks at one level of the configuration: the children (or     *)
(* values) of one path.                                                    *)
(***************************************************************************)
EXTENDS Naturals

CONSTANTS
  Children,  \* the names a child of the level may have
  Null,      \* no child
  MaxEdits,  \* bound on what other clients do
  MaxCalls   \* bound on the calls made

ASSUME CompatAssumption ==
  /\ Null \notin Children
  /\ MaxEdits \in Nat /\ MaxCalls \in Nat

Dbs == {"running", "candidate", "effective"}

\* The statuses for which cfgPathDeleted, cfgPathAdded and cfgPathChanged say yes.
Wanted == [isDeleted |-> {"deleted"}, isAdded |-> {"added"},
           isChanged |-> {"added", "deleted", "changed"}]

\* Observers of one RPC whose answer is yes or no, after assertSession or not;
\* schema: getParsedTmpl, tmplGetChildNodes, validateTmplPath.
Askers == DOMAIN Wanted \cup {"sessionChanged", "inSession", "default", "comment", "schema"}

\* The observers: the level as a whole, in one database or not, and a child.
Ops == [kind : DOMAIN Wanted, db : {"candidate"}, child : Children]
       \cup [kind : {"sessionChanged"}, db : {"candidate"}, child : {Null}]
       \cup [kind : {"inSession", "schema"}, db : {"running"}, child : {Null}]
       \cup [kind : {"tree", "default", "comment"}, db : Dbs \ {"effective"}, child : {Null}]
       \cup [kind : {"childStatus", "deletedValues"}, db : {"candidate"}, child : {Null}]
       \cup [kind : {"childNodes", "values", "value"}, db : Dbs, child : {Null}]
       \cup [kind : {"exists"}, db : Dbs, child : Children]
       \cup [kind : {"status"}, db : {"candidate"}, child : Children]
       \cup [kind : {"loadFile"}, db : {"candidate"}, child : {Null}]

VARIABLES
  type,         \* what the schema says the level is
  session,      \* configd has the session
  run,          \* children in the running configuration
  cand,         \* children in the candidate configuration
  mod,          \* children in both that differ below
  established,  \* conn_established
  op,           \* the call under way, or the last one
  pc,           \* the RPC it sends next, or "idle"
  avec,         \* children read from the running configuration
  todo,         \* umap: children whose status is still to be asked
  report,       \* result: status per child, "none" where there is no entry
  listed,       \* result: children or values
  answer,       \* "none" while the call is under way, "died", "true", "false"
  clean,        \* no RPC of this call has failed
  touched,      \* children that others have touched since this call began
  edits,        \* number of things others have done
  calls         \* number of calls

world == <<type, session, run, cand, mod, edits>>
vars == <<type, session, run, cand, mod, established, op, pc, avec, todo, report,
          listed, answer, clean, touched, edits, calls>>

Types == {"leaf", "multi", "container", "tag"}
Statuses == {"none", "static", "changed", "added", "deleted"}

\* What is true of a child.
Status(c) ==
  IF c \in cand
  THEN IF c \in run THEN IF c \in mod THEN "changed" ELSE "static" ELSE "added"
  ELSE IF c \in run THEN "deleted" ELSE "none"

\* Nothing is in effect that is not running, since a commit is one step here.
Content(db) == IF db = "candidate" THEN cand ELSE run

\* A leaf has at most one value.
Fits(S) == type = "leaf" => \A a, b \in S : a = b

\* Every variable stays in its range; every status has one of the four words.
TypeOK ==
  /\ type \in Types /\ session \in BOOLEAN /\ established \in BOOLEAN
  /\ run \subseteq Children /\ cand \subseteq Children
  /\ mod \subseteq run \cap cand
  /\ Fits(run) /\ Fits(cand)
  /\ op \in Ops
  /\ pc \in {"idle", "getRunning", "getCandidate", "assert", "walk", "type", "get",
             "status", "load", "ask"}
  /\ avec \subseteq Children /\ todo \subseteq Children /\ listed \subseteq Children
  /\ report \in [Children -> Statuses]
  /\ answer \in {"none", "died", "true", "false"}
  /\ clean \in BOOLEAN /\ touched \subseteq Children
  /\ edits \in Nat /\ calls \in Nat

Init ==
  /\ type \in Types /\ session \in BOOLEAN /\ established \in BOOLEAN
  /\ run \in SUBSET Children /\ Fits(run)
  /\ cand = run /\ mod = {}
  /\ op \in {o \in Ops : o.kind = "childStatus"} /\ pc = "idle"
  /\ avec = {} /\ todo = {} /\ listed = {}
  /\ report = [c \in Children |-> "none"]
  /\ answer = "false"
  /\ clean = FALSE /\ touched = {}
  /\ edits = 0 /\ calls = 0

-----------------------------------------------------------------------------
(* Other clients. *)

\* The children of which something has changed.
Touches ==
  touched' = touched \cup
    {c \in Children : \/ (c \in run) # (c \in run')
                      \/ (c \in cand) # (c \in cand')
                      \/ (c \in mod) # (c \in mod')}

Others ==
  /\ edits < MaxEdits /\ edits' = edits + 1
  /\ Touches
  /\ UNCHANGED <<type, established, op, pc, avec, todo, report, listed, answer, clean,
                 calls>>

\* Another user of the session edits the level or something below it.
Edit ==
  /\ session
  /\ \E C \in SUBSET Children : Fits(C) /\ cand' = C
  /\ \E M \in SUBSET (run \cap cand') : mod' = M
  /\ UNCHANGED <<session, run>>
  /\ Others

Commit ==
  /\ session
  /\ run' = cand /\ mod' = {}
  /\ UNCHANGED <<session, cand>>
  /\ Others

\* Another session commits.
CommitElsewhere ==
  /\ \E C \in SUBSET Children : Fits(C) /\ run' = C
  /\ IF session
     THEN cand' = cand /\ (\E M \in SUBSET (run' \cap cand) : mod' = M)
     ELSE cand' = run' /\ mod' = {}
  /\ UNCHANGED session
  /\ Others

Teardown ==
  /\ session /\ session' = FALSE
  /\ cand' = run /\ mod' = {}
  /\ UNCHANGED run
  /\ Others

-----------------------------------------------------------------------------
(* The observers. *)

Goto(p) == pc' = p /\ UNCHANGED answer

\* The early returns and the ends of the observers.
Return(r) == pc' = "idle" /\ answer' = r

\* The call goes on after an error as the code goes on; the ghost remembers it.
Fail == clean' = FALSE

\* Where an observer of one database starts.
ReadFrom(db) == IF db = "candidate" THEN "assert" ELSE "get"
AskFrom(db) == IF db = "candidate" THEN "assert" ELSE "ask"

\* Without a connection cfgPathGetType fails and the type is not looked at.
FirstRpc(o) ==
  CASE o.kind \in {"childStatus", "deletedValues"} -> "getRunning"
    [] o.kind \in {"childNodes", "values"} /\ established -> "type"
    [] o.kind \in {"childNodes", "values"} /\ ~established -> ReadFrom(o.db)
    [] o.kind \in {"value", "exists", "tree"} -> ReadFrom(o.db)
    [] o.kind \in Askers -> AskFrom(o.db)
    [] OTHER -> "assert"

\* The observers that return at once without a connection; the others go on to
\* an RPC, which fails.
NeedConnection == DOMAIN Wanted \cup {"status", "tree", "default", "schema"}

Call(o) ==
  /\ pc = "idle" /\ calls < MaxCalls
  /\ op' = o /\ calls' = calls + 1
  /\ avec' = {} /\ todo' = {} /\ listed' = {}
  /\ report' = [c \in Children |-> "none"]
  /\ clean' = established /\ touched' = {}
  /\ IF o.kind \in NeedConnection /\ ~established
     THEN Return("false")
     ELSE pc' = FirstRpc(o) /\ answer' = "none"
  /\ UNCHANGED <<world, established>>

result == <<report, listed>>
frame == <<world, established, op, touched, calls>>

\* assertSession: anything but a 1 ends the program, or dies in Perl.
AfterAssert ==
  CASE op.kind = "childStatus" -> "walk"
    [] op.kind = "status" -> "status"
    [] op.kind = "loadFile" -> "load"
    [] op.kind \in Askers -> "ask"
    [] OTHER -> "get"

AssertHolds ==
  /\ pc = "assert" /\ session /\ established
  /\ Goto(AfterAssert)
  /\ UNCHANGED <<avec, todo, result, clean, frame>>

AssertFails ==
  /\ pc = "assert"
  /\ Return("died")
  /\ \/ ~session /\ UNCHANGED clean
     \/ Fail
  /\ UNCHANGED <<avec, todo, result, frame>>

\* nodeGetDB(RUNNING, ...) of the two that compare.
GetRunning ==
  /\ pc = "getRunning" /\ established
  /\ avec' = run
  /\ Goto("getCandidate")
  /\ UNCHANGED <<todo, result, clean, frame>>

GetRunningFails ==
  /\ pc = "getRunning"
  /\ Fail
  /\ IF op.kind = "deletedValues" THEN Return("true") ELSE Goto("getCandidate")
  /\ UNCHANGED <<avec, todo, result, frame>>

\* Mutant: the union is taken the wrong way round, as for the deleted values.
UnionAdded(S) == S \ avec

\* umap: the children of the two databases.
Union(S) == avec \cup S

GetCandidate ==
  /\ pc = "getCandidate" /\ established
  /\ IF op.kind = "deletedValues"
     THEN /\ listed' = avec \ cand
          /\ Return("true")
          /\ UNCHANGED todo
     ELSE /\ todo' = Union(cand)
          /\ Goto("assert")
          /\ UNCHANGED listed
  /\ UNCHANGED <<avec, report, clean, frame>>

\* Mutant: a candidate that cannot be read is taken to be empty.
DeletedUnread == listed' = avec

\* cfgPathGetDeletedValues returns before it compares.
DeletedUnknown == listed' = {}

GetCandidateFails ==
  /\ pc = "getCandidate"
  /\ Fail
  /\ IF op.kind = "deletedValues"
     THEN DeletedUnknown /\ Return("true") /\ UNCHANGED todo
     ELSE todo' = Union({}) /\ Goto("assert") /\ UNCHANGED listed
  /\ UNCHANGED <<avec, report, frame>>

\* A child that is in neither is an error, one that is deleted may be.
Replies(c) ==
  CASE Status(c) = "none" -> {"error"}
    [] Status(c) = "deleted" -> {"deleted", "error"}
    [] OTHER -> {Status(c)}

\* Mutant: no case for -1, which leaves it to the default.
WordDefault(reply) == IF reply = "error" THEN "static" ELSE reply

\* The switch of cfgPathGetChildNodesStatus.
Word(reply) == IF reply = "error" THEN "deleted" ELSE reply

Walk(c) ==
  /\ pc = "walk" /\ c \in todo
  /\ \/ UNCHANGED clean /\ (\E r \in Replies(c) : report' = [report EXCEPT ![c] = Word(r)])
     \/ Fail /\ report' = [report EXCEPT ![c] = Word("error")]
  /\ todo' = todo \ {c}
  /\ Goto("walk")
  /\ UNCHANGED <<avec, listed, frame>>

WalkEnds ==
  /\ pc = "walk" /\ todo = {}
  /\ Return("true")
  /\ UNCHANGED <<avec, todo, result, clean, frame>>

\* cfgPathStatus leaves its result alone when the RPC fails, and returns true.
AskStatus ==
  /\ pc = "status"
  /\ \/ /\ UNCHANGED clean
        /\ \E r \in Replies(op.child) \ {"error"} : report' = [report EXCEPT ![op.child] = r]
     \/ Fail /\ UNCHANGED report
     \/ "error" \in Replies(op.child) /\ UNCHANGED <<clean, report>>
  /\ Return("true")
  /\ UNCHANGED <<avec, todo, listed, frame>>

\* Mutant: an unknown type is as good as the right one.
TypeFitsUnknown(t) ==
  CASE op.kind = "childNodes" -> t \notin {"leaf", "multi"}
    [] op.kind = "values" -> t \in {"multi", "unknown"}
    [] op.kind = "value" -> t # "multi"

\* What the observers make of cfgPathGetType, which succeeds with no type at
\* all when the RPC fails.
TypeFits(t) ==
  CASE op.kind = "childNodes" -> t \notin {"leaf", "multi"}
    [] op.kind = "values" -> t = "multi"
    [] op.kind = "value" -> t = "leaf"

TypeChecked(t) ==
  CASE ~TypeFits(t) -> Return("false") /\ listed' = {}
    [] TypeFits(t) /\ op.kind = "value" -> Return("true") /\ UNCHANGED listed
    [] OTHER -> Goto(ReadFrom(op.db)) /\ UNCHANGED listed

GetType ==
  /\ pc = "type"
  /\ \/ TypeChecked(type) /\ UNCHANGED clean
     \/ TypeChecked("unknown") /\ Fail
  /\ UNCHANGED <<avec, todo, report, frame>>

\* nodeGet and nodeExists.
Get ==
  /\ pc = "get" /\ established
  /\ listed' = IF op.kind = "exists" THEN Content(op.db) \cap {op.child} ELSE Content(op.db)
  /\ CASE op.kind = "value" /\ listed' # {} -> Goto("type")
       [] op.kind = "value" /\ listed' = {} -> Return("false")
       [] OTHER -> Return("true")
  /\ UNCHANGED <<avec, todo, report, clean, frame>>

GetFails ==
  /\ pc = "get"
  /\ Fail
  /\ Return("false")
  /\ UNCHANGED <<avec, todo, result, frame>>

\* loadFile: only a 0 is false.
Load ==
  /\ pc = "load"
  /\ UNCHANGED <<type, session, run, established, op, avec, todo, result, edits, calls>>
  /\ \/ /\ established /\ session
        /\ cand' \in {C \in SUBSET Children : Fits(C)}
        /\ mod' \in SUBSET (run \cap cand')
        /\ Touches
        /\ Return("true")
        /\ UNCHANGED clean
     \/ Return("false") /\ UNCHANGED <<cand, mod, touched, clean>>
     \/ Return("true") /\ Fail /\ UNCHANGED <<cand, mod, touched>>

Unchanged(c) == Status(c) \in {"static", "none"}

\* The answers configd may give; the session may have changes elsewhere as well.
MayAnswer(yes) ==
  CASE op.kind \in DOMAIN Wanted ->
         \E r \in Replies(op.child) : yes = (r \in Wanted[op.kind])
    [] op.kind = "sessionChanged" -> yes \/ \A c \in Children : Unchanged(c)
    [] op.kind = "inSession" -> yes = session
    [] OTHER -> TRUE

\* Mutant: as in loadFile, only a 0 is false.
YesOnError == "true"

\* -1 counts as no.
AnswerOnError == "false"

\* cfgPathGetComment makes a string of no comment where there is no error either.
Ask ==
  /\ pc = "ask"
  /\ \/ /\ established
        /\ \E yes \in BOOLEAN : MayAnswer(yes) /\ Return(IF yes THEN "true" ELSE "false")
        /\ UNCHANGED clean
     \/ Return(AnswerOnError) /\ Fail
     \/ op.kind = "comment" /\ Return("died") /\ Fail
  /\ UNCHANGED <<avec, todo, result, frame>>

\* Another object of the class: the connection is shared, and made again only
\* where there is none.
Connect ==
  /\ pc = "idle" /\ ~established
  /\ established' = TRUE
  /\ UNCHANGED <<world, op, pc, avec, todo, result, answer, clean, touched, calls>>

Done ==
  /\ pc = "idle" /\ calls = MaxCalls
  /\ UNCHANGED vars

Rpc ==
  \/ AssertHolds \/ AssertFails
  \/ GetRunning \/ GetRunningFails \/ GetCandidate \/ GetCandidateFails
  \/ (\E c \in Children : Walk(c)) \/ WalkEnds
  \/ AskStatus \/ GetType \/ Get \/ GetFails \/ Load \/ Ask

Next ==
  \/ Edit \/ Commit \/ CommitElsewhere \/ Teardown
  \/ Connect
  \/ \E o \in Ops : Call(o)
  \/ Rpc
  \/ Done

Spec == Init /\ [][Next]_vars

-----------------------------------------------------------------------------
(* Properties.  touched goes on after the call returns, so that what is     *)
(* said of the other children stays true until the next call.               *)

Returned(kind) == pc = "idle" /\ op.kind = kind /\ answer = "true"

\* When all RPCs succeed, listNodeStatus reports every child that nobody has
\* touched during the call with its status, and no other, whatever happens to
\* the rest of the level between the RPCs.
StatusesTrue ==
  Returned("childStatus") /\ clean =>
    \A c \in Children \ touched : report[c] = Status(c)

\* When RPCs fail, an untouched child may be missing or shown as deleted, but
\* no status is made up for it; a child that is nowhere is not shown at all.
ErrorsOnlyHide ==
  pc = "idle" =>
    \A c \in Children \ touched :
      /\ report[c] \in {Status(c), "deleted", "none"}
      /\ Status(c) = "none" => report[c] = "none"

\* A value that nobody has touched is in the list of deleted values only when
\* it is deleted, even when the candidate could not be read, and always when
\* nothing failed.
DeletedAreDeleted ==
  Returned("deletedValues") =>
    \A c \in Children \ touched :
      /\ c \in listed => Status(c) = "deleted"
      /\ clean /\ Status(c) = "deleted" => c \in listed

\* The observers that say yes or no are right about a child that nobody has
\* touched: they say yes only of what is so, even when the RPC fails, and no only
\* of what is not so when it succeeds.  configd may not know a deleted node.
AnswersTrue ==
  pc = "idle" => \A c \in Children \ touched :
    /\ op.kind \in DOMAIN Wanted /\ op.child = c =>
         /\ answer = "true" => Status(c) \in Wanted[op.kind]
         /\ answer = "false" /\ clean => Status(c) \notin Wanted[op.kind] \ {"deleted"}
    /\ op.kind = "sessionChanged" /\ answer = "false" /\ clean => Unchanged(c)

\* What an observer of one database should list.
Expected ==
  CASE op.kind = "exists" -> Content(op.db) \cap {op.child}
    [] op.kind = "tree" -> Content(op.db)
    [] op.kind = "childNodes" -> IF type \in {"leaf", "multi"} THEN {} ELSE Content(op.db)
    [] op.kind = "values" -> IF type = "multi" THEN Content(op.db) ELSE {}
    [] op.kind = "value" -> IF type = "leaf" THEN Content(op.db) ELSE {}
    [] OTHER -> {}

\* The observers whose list depends on the type as well.
Reads(kind) ==
  \/ kind \in {"exists", "tree", "values", "value"}
  \/ kind = "childNodes" /\ clean

\* The observers of one database list an untouched child only when it is there
\* and the node is of their kind, and always when nothing failed, although the
\* type and the content come from different RPCs.  Only childNodes goes on
\* without knowing the type.
ListsTrue ==
  pc = "idle" =>
    \A c \in Children \ touched :
      /\ c \in listed /\ Reads(op.kind) => c \in Expected
      /\ clean /\ answer # "died" /\ c \in Expected => c \in listed
=============================================================================
