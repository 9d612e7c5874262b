---------------------------- MODULE ClientProofs ----------------------------
(***************************************************************************)
(* Theorems about the two clients of configd that the language bindings    *)
(* wrap: CompatStore, for any number of children, calls and edits, and     *)
(* CfgClientSession, for any number of objects, sessions and calls.        *)
(***************************************************************************)
EXTENDS CompatStore, CfgClientSession, TLAPS

Listers == {"childNodes", "values", "value", "exists", "tree"}

\* Which call can be at which RPC, and that it has no answer yet.
PcFits ==
  /\ pc \in {"getRunning", "getCandidate"} => op.kind \in {"childStatus", "deletedValues"}
  /\ pc = "assert" => op.kind # "deletedValues"
  /\ pc = "walk" => op.kind = "childStatus"
  /\ pc = "status" => op.kind = "status"
  /\ pc = "load" => op.kind = "loadFile"
  /\ pc = "ask" => op.kind \in Askers
  /\ pc = "type" => op.kind \in {"childNodes", "values", "value"}
  /\ pc = "get" => op.kind \in Listers
  /\ pc # "idle" => answer = "none"

\* What has been read of a child is true of it.
ReadTrue(c) ==
  /\ pc = "getRunning" => c \notin avec
  /\ pc = "getCandidate" =>
       /\ c \in avec => c \in run
       /\ clean /\ c \in run => c \in avec

\* The children still to be asked for have no entry yet, and the others the
\* right one.
WalkTrue(c) ==
  op.kind = "childStatus" /\ pc \in {"assert", "walk"} =>
    /\ c \in todo => Status(c) # "none" /\ report[c] = "none"
    /\ c \notin todo => report[c] \in {Status(c), "deleted", "none"}
    /\ c \notin todo /\ Status(c) = "none" => report[c] = "none"
    /\ c \notin todo /\ clean => report[c] = Status(c)

\* Where there is no entry yet.
Unasked ==
  \/ op.kind \notin {"childStatus", "status"}
  \/ pc \in {"getRunning", "getCandidate", "status"}
  \/ op.kind = "status" /\ pc = "assert"

Blank(c) == Unasked => report[c] = "none"

\* The value read before the type is asked for.
ValueTrue(c) ==
  /\ pc = "type" /\ op.kind = "value" =>
       /\ c \in listed => c \in Content(op.db)
       /\ clean /\ c \in Content(op.db) => c \in listed
  /\ pc \in {"assert", "get", "getRunning", "getCandidate", "walk", "status", "load", "ask"}
       => c \notin listed
  /\ pc = "type" /\ op.kind # "value" => c \notin listed

\* The answer of the finished call, where it is about the child.
AnswerTrue(c) ==
  /\ op.kind \in DOMAIN Wanted /\ op.child = c =>
       /\ answer = "true" => Status(c) \in Wanted[op.kind]
       /\ answer = "false" /\ clean => Status(c) \notin Wanted[op.kind] \ {"deleted"}
  /\ op.kind = "sessionChanged" /\ answer = "false" /\ clean => Unchanged(c)

LEMMA AskerKinds ==
  /\ DOMAIN Wanted = {"isDeleted", "isAdded", "isChanged"}
  /\ Askers = {"isDeleted", "isAdded", "isChanged", "sessionChanged", "inSession",
               "default", "comment", "schema"}
BY DEF Wanted, Askers

\* An observer that lists has no answer about a child.
LEMMA NoAnswer ==
  ASSUME op'.kind \notin Askers, NEW c
  PROVE  AnswerTrue(c)'
BY DEF AnswerTrue, Askers

\* The lists of the finished call.
EndTrue(c) ==
  pc = "idle" =>
    /\ op.kind = "childStatus" /\ answer = "true" /\ clean => report[c] = Status(c)
    /\ report[c] \in {Status(c), "deleted", "none"}
    /\ Status(c) = "none" => report[c] = "none"
    /\ op.kind = "deletedValues" /\ answer = "true" /\ c \in listed => Status(c) = "deleted"
    /\ op.kind = "deletedValues" /\ answer = "true" /\ clean /\ Status(c) = "deleted"
         => c \in listed
    /\ c \in listed /\ Reads(op.kind) => c \in Expected
    /\ clean /\ answer # "died" /\ c \in Expected => c \in listed
    /\ AnswerTrue(c)

\* The type that has been asked for.
TypeKnown ==
  pc \in {"assert", "get"} =>
    /\ op.kind = "values" => type = "multi" \/ ~established
    /\ op.kind = "childNodes" /\ clean => type \notin {"leaf", "multi"}

ChildInv(c) ==
  ReadTrue(c) /\ WalkTrue(c) /\ Blank(c) /\ ValueTrue(c) /\ EndTrue(c)

\* The inductive invariant.
Inv == TypeOK /\ PcFits /\ TypeKnown /\ (\A c \in Children \ touched : ChildInv(c))

LEMMA InitInv == Init => Inv
<1> SUFFICES ASSUME Init PROVE Inv
  OBVIOUS
<1>1. clean \in BOOLEAN /\ session \in BOOLEAN /\ established \in BOOLEAN
  BY Zenon DEF Init
<1>2. TypeOK
  BY <1>1 DEF Init, TypeOK, Types, Statuses, Fits
<1>3. PcFits /\ TypeKnown
  BY DEF Init, PcFits, TypeKnown
<1>4. ASSUME NEW c \in Children PROVE ChildInv(c)
  BY <1>4, AskerKinds DEF Init, AnswerTrue, ChildInv, ReadTrue, WalkTrue, Blank, Unasked, ValueTrue, EndTrue,
              Expected, Status, Reads
<1> QED
  BY <1>2, <1>3, <1>4 DEF Inv

\* What is said of a child stays true of it while others touch only others.
LEMMA UntouchedStays ==
  ASSUME Inv, Touches,
         UNCHANGED <<type, op, pc, avec, todo, report, listed, answer, clean>>,
         NEW c \in Children \ touched'
  PROVE  ChildInv(c)'
<1>1. c \in Children \ touched
  BY DEF Touches
<1>2. ChildInv(c)
  BY <1>1 DEF Inv
<1>3. /\ (c \in run') = (c \in run)
      /\ (c \in cand') = (c \in cand)
      /\ (c \in mod') = (c \in mod)
  BY DEF Touches
<1>4. Status(c)' = Status(c)
  BY <1>3 DEF Status
<1>5. (c \in Content(op.db))' = (c \in Content(op.db))
  BY <1>3 DEF Content
<1>6. (c \in Expected)' = (c \in Expected)
  BY <1>5 DEF Expected
<1>7. AnswerTrue(c) => AnswerTrue(c)'
  BY <1>4 DEF AnswerTrue, Unchanged
<1> QED
  BY <1>2, <1>3, <1>4, <1>5, <1>6, <1>7
  DEF ChildInv, ReadTrue, WalkTrue, Blank, Unasked, ValueTrue, EndTrue, Reads

LEMMA OthersInv ==
  ASSUME Inv, Others, session' \in BOOLEAN,
         run' \subseteq Children, cand' \subseteq Children,
         mod' \subseteq run' \cap cand', Fits(run)', Fits(cand)'
  PROVE  Inv'
<1> USE CompatAssumption
<1>1. TypeOK'
  BY DEF Inv, TypeOK, Others, Touches
<1>2. PcFits' /\ TypeKnown'
  BY DEF Inv, PcFits, TypeKnown, Others
<1>3. ASSUME NEW c \in Children \ touched' PROVE ChildInv(c)'
  BY <1>3, UntouchedStays DEF Others
<1> QED
  BY <1>1, <1>2, <1>3 DEF Inv

LEMMA WorldInv ==
  ASSUME Inv, Edit \/ Commit \/ CommitElsewhere \/ Teardown
  PROVE  Inv'
<1>1. CASE Edit
  BY <1>1, OthersInv DEF Edit, Inv, TypeOK, Fits, Others
<1>2. CASE Commit
  BY <1>2, OthersInv DEF Commit, Inv, TypeOK, Fits, Others
<1>3. CASE CommitElsewhere
  BY <1>3, OthersInv DEF CommitElsewhere, Inv, TypeOK, Fits, Others
<1>4. CASE Teardown
  BY <1>4, OthersInv DEF Teardown, Inv, TypeOK, Fits, Others
<1> QED
  BY <1>1, <1>2, <1>3, <1>4

LEMMA CallInv ==
  ASSUME Inv, NEW o \in Ops, Call(o)
  PROVE  Inv'
<1> USE CompatAssumption
<1>0. o.kind \in {"childStatus", "deletedValues", "status", "loadFile"} \cup Listers \cup Askers
  BY AskerKinds DEF Ops, Listers
<1>1. pc' \in {"idle", "getRunning", "type", "assert", "get", "ask"}
  BY DEF Call, Return, FirstRpc, ReadFrom, AskFrom
<1>2. TypeOK'
  BY <1>1 DEF Inv, TypeOK, Call, Return, world, Statuses, Fits
<1>3. PcFits' /\ TypeKnown'
  BY <1>0, AskerKinds DEF Call, Return, FirstRpc, ReadFrom, AskFrom, PcFits, TypeKnown, Listers
<1>4. ASSUME NEW c \in Children PROVE ChildInv(c)'
  <2>1. op' = o /\ report'[c] = "none" /\ avec' = {} /\ listed' = {} /\ todo' = {}
    BY DEF Call
  <2>2. pc' = "idle" => ~clean' /\ answer' = "false"
    BY <1>0, AskerKinds DEF Call, Return, FirstRpc, ReadFrom, AskFrom, Listers
  <2>3. /\ pc' \in {"assert", "get", "ask", "type"} => o.kind # "childStatus"
        /\ pc' = "type" => o.kind # "value"
    BY <1>0, AskerKinds DEF Call, Return, FirstRpc, ReadFrom, AskFrom, Listers
  <2>4. pc' = "idle" => AnswerTrue(c)'
    BY <2>2 DEF AnswerTrue
  <2>5. EndTrue(c)'
    BY <2>1, <2>2, <2>4 DEF EndTrue
  <2>6. ReadTrue(c)' /\ WalkTrue(c)' /\ Blank(c)' /\ ValueTrue(c)'
    BY <1>1, <2>1, <2>3 DEF ReadTrue, WalkTrue, Blank, ValueTrue
  <2> QED
    BY <2>5, <2>6 DEF ChildInv
<1> QED
  BY <1>2, <1>3, <1>4 DEF Inv

\* The steps of a call do not touch the configuration, but for Load.
LEMMA RpcTypeOK ==
  ASSUME TypeOK, UNCHANGED frame,
         pc' \in {"idle", "getRunning", "getCandidate", "assert", "walk", "type", "get",
                  "status", "load", "ask"},
         avec' \subseteq Children, todo' \subseteq Children, listed' \subseteq Children,
         report' \in [Children -> Statuses], answer' \in {"none", "died", "true", "false"},
         clean' \in BOOLEAN
  PROVE  TypeOK'
BY DEF TypeOK, frame, world, Fits

LEMMA StatusFrame ==
  ASSUME UNCHANGED frame, NEW c
  PROVE  Status(c)' = Status(c)
BY DEF Status, frame, world

LEMMA ContentFrame ==
  ASSUME UNCHANGED frame
  PROVE  Content(op.db)' = Content(op.db) /\ Expected' = Expected
<1>1. run' = run /\ cand' = cand /\ op' = op /\ type' = type
  BY DEF frame, world
<1>2. Content(op.db)' = Content(op.db)
  BY <1>1 DEF Content
<1> QED
  BY <1>1, <1>2 DEF Expected

LEMMA AssertInv ==
  ASSUME Inv, AssertHolds \/ AssertFails
  PROVE  Inv'
<1>1. CASE AssertHolds
  <2>1. pc' \in {"walk", "status", "load", "get", "ask"}
    BY <1>1 DEF AssertHolds, Goto, AfterAssert
  <2>2. TypeOK'
    BY <1>1, <2>1, RpcTypeOK DEF AssertHolds, Goto, Inv, TypeOK, result
  <2>3. PcFits' /\ TypeKnown'
    BY <1>1, AskerKinds
    DEF AssertHolds, Goto, AfterAssert, Inv, TypeOK, Ops, PcFits, TypeKnown, Listers, frame, world
  <2>4. ASSUME NEW c \in Children \ touched' PROVE ChildInv(c)'
    <3>1. c \in Children \ touched /\ ChildInv(c)
      BY <1>1 DEF Inv, AssertHolds, frame
    <3>2. Status(c)' = Status(c)
      BY <1>1, StatusFrame DEF AssertHolds
    <3> QED
      BY <1>1, <2>1, <3>1, <3>2
      DEF AssertHolds, Goto, AfterAssert, Inv, TypeOK, ChildInv, ReadTrue, WalkTrue, Blank,
          Unasked, ValueTrue, EndTrue, frame, result
  <2> QED
    BY <2>2, <2>3, <2>4 DEF Inv
<1>2. CASE AssertFails
  <2>1. TypeOK'
    BY <1>2, RpcTypeOK DEF AssertFails, Return, Fail, Inv, TypeOK, result
  <2>2. PcFits' /\ TypeKnown'
    BY <1>2 DEF AssertFails, Return, PcFits, TypeKnown
  <2>3. ASSUME NEW c \in Children \ touched' PROVE ChildInv(c)'
    <3>1. c \in Children \ touched /\ ChildInv(c)
      BY <1>2 DEF Inv, AssertFails, frame
    <3>2. Status(c)' = Status(c)
      BY <1>2, StatusFrame DEF AssertFails
    <3>3. c \notin listed'
      BY <1>2, <3>1 DEF AssertFails, ChildInv, ValueTrue, result
    <3>4. report'[c] \in {Status(c), "deleted", "none"} /\ (Status(c) = "none" => report'[c] = "none")
      BY <1>2, <3>1 DEF AssertFails, ChildInv, WalkTrue, Blank, Unasked, result, Inv, TypeOK,
                        Statuses
    <3>5. AnswerTrue(c)'
      BY <1>2 DEF AssertFails, Return, AnswerTrue
    <3> QED
      BY <1>2, <3>1, <3>2, <3>3, <3>4, <3>5
      DEF AssertFails, Return, ChildInv, ReadTrue, WalkTrue, Blank,
          Unasked, ValueTrue, EndTrue, frame, result
  <2> QED
    BY <2>1, <2>2, <2>3 DEF Inv
<1> QED
  BY <1>1, <1>2

LEMMA GetRunningInv ==
  ASSUME Inv, GetRunning \/ GetRunningFails
  PROVE  Inv'
<1>1. TypeOK'
  BY RpcTypeOK DEF GetRunning, GetRunningFails, Return, Goto, Fail, Inv, TypeOK, result
<1>2. PcFits' /\ TypeKnown'
  BY DEF GetRunning, GetRunningFails, Return, Goto, Inv, PcFits, TypeKnown, frame
<1>3. ASSUME NEW c \in Children \ touched' PROVE ChildInv(c)'
  <2>1. c \in Children \ touched /\ ChildInv(c)
    BY DEF Inv, GetRunning, GetRunningFails, frame
  <2>2. Status(c)' = Status(c) /\ Expected' = Expected
    BY StatusFrame, ContentFrame DEF GetRunning, GetRunningFails
  <2>3. c \notin listed /\ report[c] = "none"
    BY <2>1 DEF GetRunning, GetRunningFails, ChildInv, ValueTrue, Blank, Unasked
  <2>4. CASE GetRunning
    BY <2>1, <2>2, <2>3, <2>4
    DEF GetRunning, Goto, ChildInv, ReadTrue, WalkTrue, Blank, Unasked, ValueTrue, EndTrue,
        frame, world, result
  <2>5. CASE GetRunningFails
    <3>1. avec' = avec /\ clean' = FALSE /\ op' = op
      BY <2>5 DEF GetRunningFails, Fail, frame
    <3>2. AnswerTrue(c)'
      BY <2>5, <3>1, NoAnswer, AskerKinds DEF GetRunningFails, Inv, PcFits
    <3> QED
    BY <2>1, <2>2, <2>3, <2>5, <3>1, <3>2
    DEF GetRunningFails, Return, Goto, Fail, ChildInv, ReadTrue, WalkTrue, Blank, Unasked,
        ValueTrue, EndTrue, Reads, frame, world, result
  <2> QED
    BY <2>4, <2>5
<1> QED
  BY <1>1, <1>2, <1>3 DEF Inv

LEMMA GetCandidateInv ==
  ASSUME Inv, GetCandidate \/ GetCandidateFails
  PROVE  Inv'
<1>1. TypeOK'
  BY RpcTypeOK
  DEF GetCandidate, GetCandidateFails, DeletedUnknown, Union, Return, Goto, Fail, Inv, TypeOK
<1>2. PcFits' /\ TypeKnown'
  BY DEF GetCandidate, GetCandidateFails, Return, Goto, Inv, PcFits, TypeKnown, frame
<1>3. ASSUME NEW c \in Children \ touched' PROVE ChildInv(c)'
  <2>1. c \in Children \ touched /\ ChildInv(c)
    BY DEF Inv, GetCandidate, GetCandidateFails, frame
  <2>2. Status(c)' = Status(c)
    BY StatusFrame DEF GetCandidate, GetCandidateFails
  <2>3. /\ c \notin listed /\ report[c] = "none"
        /\ c \in avec => c \in run
        /\ clean /\ c \in run => c \in avec
    BY <2>1
    DEF GetCandidate, GetCandidateFails, ChildInv, ValueTrue, Blank, Unasked, ReadTrue
  <2>4. op' = op /\ op.kind \in {"childStatus", "deletedValues"}
    BY DEF GetCandidate, GetCandidateFails, Inv, PcFits, frame
  <2>5. Expected' = {}
    BY <2>4 DEF Expected
  <2>6. ~Reads(op.kind)'
    BY <2>4 DEF Reads
  <2>0. AnswerTrue(c)'
    BY <2>4, NoAnswer, AskerKinds
  <2>7. CASE GetCandidate
    BY <2>0, <2>1, <2>2, <2>3, <2>4, <2>5, <2>6, <2>7
    DEF GetCandidate, Union, Return, Goto, ChildInv, ReadTrue, WalkTrue, Blank, Unasked,
        ValueTrue, EndTrue, Status
  <2>8. CASE GetCandidateFails
    BY <2>0, <2>1, <2>2, <2>3, <2>4, <2>5, <2>6, <2>8
    DEF GetCandidateFails, DeletedUnknown, Union, Return, Goto, Fail, ChildInv, ReadTrue,
        WalkTrue, Blank, Unasked, ValueTrue, EndTrue, Status
  <2> QED
    BY <2>7, <2>8
<1> QED
  BY <1>1, <1>2, <1>3 DEF Inv

\* The word for a child is its status, or deleted where there was an error.
LEMMA WordOfReply ==
  ASSUME TypeOK, NEW c, NEW r \in Replies(c)
  PROVE  /\ Status(c) # "none" => Word(r) = Status(c)
         /\ Word(r) \in Statuses
<1>1. Status(c) \in Statuses
  BY DEF Status, Statuses
<1> QED
  BY <1>1 DEF Replies, Word, Statuses

LEMMA WalkInv ==
  ASSUME Inv, NEW d \in Children, Walk(d)
  PROVE  Inv'
<1>1. PICK w \in Statuses : /\ report' = [report EXCEPT ![d] = w]
                            /\ \/ clean' = clean /\ (Status(d) # "none" => w = Status(d))
                               \/ clean' = FALSE /\ w = "deleted"
  <2>1. CASE UNCHANGED clean /\ (\E r \in Replies(d) : report' = [report EXCEPT ![d] = Word(r)])
    BY <2>1, WordOfReply DEF Inv
  <2>2. CASE Fail /\ report' = [report EXCEPT ![d] = Word("error")]
    BY <2>2 DEF Fail, Word, Statuses
  <2> QED
    BY <2>1, <2>2 DEF Walk
<1>2. pc = "walk" /\ pc' = "walk" /\ d \in todo /\ todo' = todo \ {d}
  BY DEF Walk, Goto
<1>3. TypeOK'
  BY <1>1, <1>2, RpcTypeOK DEF Walk, Goto, Inv, TypeOK
<1>4. PcFits' /\ TypeKnown'
  BY <1>2 DEF Walk, Goto, Inv, PcFits, TypeKnown, frame
<1>5. ASSUME NEW c \in Children \ touched' PROVE ChildInv(c)'
  <2>1. c \in Children \ touched /\ ChildInv(c)
    BY DEF Inv, Walk, frame
  <2>2. Status(c)' = Status(c) /\ op' = op /\ op.kind = "childStatus"
    BY <1>2, StatusFrame DEF Walk, frame, Inv, PcFits
  <2>3. WalkTrue(c)'
    <3>1. CASE c = d
      BY <1>1, <1>2, <2>1, <2>2, <3>1 DEF ChildInv, WalkTrue, Inv, TypeOK
    <3>2. CASE c # d
      BY <1>1, <1>2, <2>1, <2>2, <3>2 DEF ChildInv, WalkTrue, Inv, TypeOK
    <3> QED
      BY <3>1, <3>2
  <2>4. ReadTrue(c)' /\ Blank(c)' /\ EndTrue(c)'
    BY <1>2, <2>2 DEF ReadTrue, Blank, Unasked, EndTrue
  <2>5. ValueTrue(c)'
    BY <1>2, <2>1 DEF ChildInv, ValueTrue, Walk
  <2> QED
    BY <2>3, <2>4, <2>5 DEF ChildInv
<1> QED
  BY <1>3, <1>4, <1>5 DEF Inv

LEMMA WalkEndsInv ==
  ASSUME Inv, WalkEnds
  PROVE  Inv'
<1>1. TypeOK'
  BY RpcTypeOK DEF WalkEnds, Return, Inv, TypeOK, result
<1>2. PcFits' /\ TypeKnown'
  BY DEF WalkEnds, Return, PcFits, TypeKnown
<1>3. ASSUME NEW c \in Children \ touched' PROVE ChildInv(c)'
  <2>1. c \in Children \ touched /\ ChildInv(c)
    BY DEF Inv, WalkEnds, frame
  <2>2. Status(c)' = Status(c) /\ op' = op /\ op.kind = "childStatus"
    BY StatusFrame DEF WalkEnds, frame, Inv, PcFits
  <2>3. Expected' = {} /\ ~Reads(op.kind)'
    BY <2>2 DEF Expected, Reads
  <2>4. AnswerTrue(c)'
    BY <2>2, NoAnswer, AskerKinds
  <2> QED
    BY <2>1, <2>2, <2>3, <2>4
    DEF WalkEnds, Return, ChildInv, ReadTrue, WalkTrue, Blank, Unasked, ValueTrue, EndTrue, result
<1> QED
  BY <1>1, <1>2, <1>3 DEF Inv

LEMMA AskStatusInv ==
  ASSUME Inv, AskStatus
  PROVE  Inv'
<1>1. op.kind = "status" /\ op' = op /\ op.child \in Children
  BY DEF AskStatus, Inv, PcFits, TypeOK, Ops, frame
<1>2. PICK w \in Statuses : /\ report' = [report EXCEPT ![op.child] = w]
                            /\ w \in {Status(op.child), report[op.child]}
  <2>1. CASE \E r \in Replies(op.child) \ {"error"} : report' = [report EXCEPT ![op.child] = r]
    BY <2>1 DEF Replies, Statuses, Status
  <2>2. CASE UNCHANGED report
    BY <1>1, <2>2 DEF Inv, TypeOK
  <2> QED
    BY <2>1, <2>2 DEF AskStatus
<1>3. TypeOK'
  BY <1>1, <1>2, RpcTypeOK DEF AskStatus, Return, Fail, Inv, TypeOK
<1>4. PcFits' /\ TypeKnown'
  BY DEF AskStatus, Return, PcFits, TypeKnown
<1>5. ASSUME NEW c \in Children \ touched' PROVE ChildInv(c)'
  <2>1. c \in Children \ touched /\ ChildInv(c)
    BY DEF Inv, AskStatus, frame
  <2>2. Status(c)' = Status(c)
    BY StatusFrame DEF AskStatus
  <2>3. Expected' = {} /\ ~Reads(op.kind)'
    BY <1>1 DEF Expected, Reads
  <2>4. report[c] = "none" /\ c \notin listed
    BY <2>1 DEF AskStatus, ChildInv, Blank, Unasked, ValueTrue
  <2>5. report'[c] \in {Status(c), "none"}
    BY <1>1, <1>2, <2>4 DEF Inv, TypeOK
  <2>6. AnswerTrue(c)'
    BY <1>1, NoAnswer, AskerKinds
  <2> QED
    BY <1>1, <2>2, <2>3, <2>4, <2>5, <2>6
    DEF AskStatus, Return, ChildInv, ReadTrue, WalkTrue, Blank, Unasked, ValueTrue, EndTrue
<1> QED
  BY <1>3, <1>4, <1>5 DEF Inv

LEMMA TypeCheckedInv ==
  ASSUME Inv, pc = "type", NEW t \in Types \cup {"unknown"}, TypeChecked(t),
         UNCHANGED <<avec, todo, report, frame>>,
         \/ t = type /\ clean' = clean
         \/ t = "unknown" /\ clean' = FALSE
  PROVE  Inv'
<1>1. op.kind \in {"childNodes", "values", "value"} /\ op' = op /\ type' = type
  BY DEF Inv, PcFits, frame, world
<1>2. TypeFits(t) = IF op.kind = "childNodes" THEN t \notin {"leaf", "multi"}
                    ELSE IF op.kind = "values" THEN t = "multi" ELSE t = "leaf"
  BY <1>1 DEF TypeFits
<1>3. \/ ~TypeFits(t) /\ pc' = "idle" /\ answer' = "false" /\ listed' = {}
      \/ TypeFits(t) /\ op.kind = "value" /\ pc' = "idle" /\ answer' = "true" /\ listed' = listed
      \/ /\ TypeFits(t) /\ op.kind # "value" /\ pc' \in {"assert", "get"}
         /\ answer' = answer /\ listed' = listed
  BY DEF TypeChecked, Return, Goto, ReadFrom
<1> HIDE DEF TypeFits
<1>4. TypeOK'
  BY <1>3, RpcTypeOK DEF Inv, TypeOK
<1>5. PcFits' /\ TypeKnown'
  BY <1>1, <1>2, <1>3 DEF Inv, PcFits, TypeKnown, Listers, Types
<1>6. ASSUME NEW c \in Children \ touched' PROVE ChildInv(c)'
  <2>1. c \in Children \ touched /\ ChildInv(c)
    BY DEF Inv, frame
  <2>2. Status(c)' = Status(c) /\ Expected' = Expected /\ Content(op.db)' = Content(op.db)
    BY StatusFrame, ContentFrame
  <2>3. report[c] = "none"
    BY <1>1, <2>1 DEF ChildInv, Blank, Unasked
  <2>4. Expected = CASE op.kind = "childNodes" -> IF type \in {"leaf", "multi"} THEN {} ELSE Content(op.db)
                     [] op.kind = "values" -> IF type = "multi" THEN Content(op.db) ELSE {}
                     [] op.kind = "value" -> IF type = "leaf" THEN Content(op.db) ELSE {}
    BY <1>1 DEF Expected
  <2>5. ReadTrue(c)' /\ WalkTrue(c)' /\ Blank(c)' /\ ValueTrue(c)'
    BY <1>1, <1>3, <2>1, <2>3 DEF ChildInv, ReadTrue, WalkTrue, Blank, Unasked, ValueTrue
  <2>6. pc' = "idle" => (c \in listed' /\ Reads(op.kind)' => c \in Expected)
    BY <1>1, <1>2, <1>3, <2>1, <2>4 DEF ChildInv, ValueTrue
  <2>7. pc' = "idle" => (clean' /\ c \in Expected => c \in listed')
    BY <1>1, <1>2, <1>3, <2>1, <2>4 DEF ChildInv, ValueTrue
  <2>8. AnswerTrue(c)'
    BY <1>1, NoAnswer, AskerKinds
  <2>9. EndTrue(c)'
    BY <1>1, <2>2, <2>3, <2>6, <2>7, <2>8 DEF EndTrue
  <2> QED
    BY <2>5, <2>9 DEF ChildInv
<1> QED
  BY <1>4, <1>5, <1>6 DEF Inv

LEMMA GetTypeInv ==
  ASSUME Inv, GetType
  PROVE  Inv'
<1>1. CASE TypeChecked(type) /\ UNCHANGED clean
  BY <1>1, TypeCheckedInv DEF GetType, Inv, TypeOK
<1>2. CASE TypeChecked("unknown") /\ Fail
  BY <1>2, TypeCheckedInv DEF GetType, Fail
<1> QED
  BY <1>1, <1>2 DEF GetType

LEMMA GetInv ==
  ASSUME Inv, Get \/ GetFails
  PROVE  Inv'
<1>1. op.kind \in Listers /\ op' = op /\ type' = type
  BY DEF Get, GetFails, Inv, PcFits, frame, world
<1>2. Content(op.db) \subseteq Children
  BY DEF Content, Inv, TypeOK
<1>3. TypeOK'
  BY <1>2, RpcTypeOK DEF Get, GetFails, Return, Goto, Fail, Inv, TypeOK, result
<1>4. PcFits' /\ TypeKnown'
  BY DEF Get, GetFails, Return, Goto, Inv, PcFits, TypeKnown, frame
<1>5. ASSUME NEW c \in Children \ touched' PROVE ChildInv(c)'
  <2>1. c \in Children \ touched /\ ChildInv(c)
    BY DEF Inv, Get, GetFails, frame
  <2>2. Status(c)' = Status(c) /\ Expected' = Expected /\ Content(op.db)' = Content(op.db)
    BY StatusFrame, ContentFrame DEF Get, GetFails
  <2>3. report[c] = "none" /\ report' = report
    BY <1>1, <2>1 DEF Get, GetFails, ChildInv, Blank, Unasked, Listers, result
  <2>0. AnswerTrue(c)'
    BY <1>1, NoAnswer, AskerKinds DEF Listers
  <2>4. CASE Get
    <3>1. \/ pc' = "idle" /\ (op.kind = "value" => listed' = {})
          \/ pc' = "type" /\ op.kind = "value"
      BY <2>4 DEF Get, Return, Goto
    <3>2. listed' = IF op.kind = "exists" THEN Content(op.db) \cap {op.child} ELSE Content(op.db)
      BY <2>4 DEF Get
    <3>3. ReadTrue(c)' /\ WalkTrue(c)' /\ Blank(c)' /\ ValueTrue(c)'
      BY <1>1, <2>2, <2>3, <3>1, <3>2
      DEF ReadTrue, WalkTrue, Blank, Unasked, ValueTrue, Listers
    <3>4. clean' = clean
      BY <2>4 DEF Get
    <3>5. /\ op.kind = "exists" => Expected = Content(op.db) \cap {op.child}
          /\ op.kind = "tree" => Expected = Content(op.db)
          /\ op.kind = "value" => Expected \in {Content(op.db), {}}
          /\ op.kind = "values" => Expected = Content(op.db)
          /\ op.kind = "childNodes" /\ clean => Expected = Content(op.db)
      BY <2>4 DEF Expected, Get, Inv, TypeKnown
    <3>6. pc' = "idle" => (c \in listed' /\ Reads(op.kind)' => c \in Expected)
      BY <1>1, <3>1, <3>2, <3>4, <3>5 DEF Reads
    <3>7. pc' = "idle" => (clean' /\ c \in Expected => c \in listed')
      BY <1>1, <3>1, <3>2, <3>4, <3>5 DEF Listers
    <3>8. EndTrue(c)'
      BY <1>1, <2>0, <2>2, <2>3, <3>6, <3>7 DEF EndTrue, Listers
    <3> QED
      BY <3>3, <3>8 DEF ChildInv
  <2>5. CASE GetFails
    <3>1. c \notin listed'
      BY <2>1, <2>5 DEF GetFails, ChildInv, ValueTrue, result
    <3> QED
      BY <1>1, <2>0, <2>2, <2>3, <2>5, <3>1
      DEF GetFails, Return, Fail, ChildInv, ReadTrue, WalkTrue, Blank, Unasked, ValueTrue,
          EndTrue, Listers
  <2> QED
    BY <2>4, <2>5
<1> QED
  BY <1>3, <1>4, <1>5 DEF Inv

LEMMA LoadInv ==
  ASSUME Inv, Load
  PROVE  Inv'
<1>1. op.kind = "loadFile" /\ op' = op /\ pc' = "idle" /\ listed' = listed /\ report' = report
  BY DEF Load, Return, Inv, PcFits, result
<1>2. touched \subseteq touched' /\ touched' \subseteq Children
  BY DEF Load, Touches, Inv, TypeOK
<1>3. cand' \subseteq Children /\ mod' \subseteq run \cap cand' /\ Fits(cand)'
  BY DEF Load, Inv, TypeOK, Fits
<1>4. clean' \in BOOLEAN /\ answer' \in {"true", "false"}
  BY DEF Load, Return, Fail, Inv, TypeOK
<1>5. TypeOK'
  BY <1>1, <1>2, <1>3, <1>4 DEF Load, Inv, TypeOK, Fits, result
<1>6. PcFits' /\ TypeKnown'
  BY <1>1 DEF PcFits, TypeKnown
<1>7. ASSUME NEW c \in Children \ touched' PROVE ChildInv(c)'
  <2>1. report'[c] = "none"
    BY <1>1, <1>2 DEF Inv, ChildInv, Blank, Unasked
  <2>2. Expected' = {} /\ ~Reads(op.kind)'
    BY <1>1 DEF Expected, Reads
  <2>3. AnswerTrue(c)'
    BY <1>1, NoAnswer, AskerKinds
  <2> QED
    BY <1>1, <2>1, <2>2, <2>3
    DEF ChildInv, ReadTrue, WalkTrue, Blank, Unasked, ValueTrue, EndTrue
<1> QED
  BY <1>5, <1>6, <1>7 DEF Inv

LEMMA AskInv ==
  ASSUME Inv, Ask
  PROVE  Inv'
<1>1. op.kind \in Askers /\ op' = op /\ pc' = "idle" /\ listed' = listed /\ report' = report
  BY DEF Ask, Return, Inv, PcFits, result, frame
<1>2. \/ /\ clean' = clean /\ answer' \in {"true", "false"}
         /\ MayAnswer(answer' = "true")
      \/ clean' = FALSE /\ answer' \in {"false", "died"}
  BY DEF Ask, Return, Fail, AnswerOnError
<1>3. TypeOK'
  BY <1>1, <1>2, RpcTypeOK DEF Ask, Inv, TypeOK, result
<1>4. PcFits' /\ TypeKnown'
  BY <1>1 DEF PcFits, TypeKnown
<1>5. ASSUME NEW c \in Children \ touched' PROVE ChildInv(c)'
  <2>1. c \in Children \ touched /\ ChildInv(c)
    BY DEF Inv, Ask, frame
  <2>2. Status(c)' = Status(c)
    BY StatusFrame DEF Ask
  <2>3. Expected' = {} /\ ~Reads(op.kind)'
    BY <1>1 DEF Expected, Reads, Askers, Wanted
  <2>4. report'[c] = "none" /\ c \notin listed'
    BY <1>1, <2>1 DEF Ask, ChildInv, Blank, Unasked, ValueTrue, Askers, Wanted
  <2>5. AnswerTrue(c)'
    <3>1. CASE op.kind \in DOMAIN Wanted
      BY <1>1, <1>2, <2>2, <3>1 DEF AnswerTrue, MayAnswer, Replies, Wanted, Status
    <3>2. CASE op.kind = "sessionChanged"
      BY <1>1, <1>2, <2>1, <2>2, <3>2 DEF AnswerTrue, MayAnswer, Unchanged, Wanted
    <3> QED
      BY <1>1, <3>1, <3>2 DEF AnswerTrue
  <2> QED
    BY <1>1, <2>3, <2>4, <2>5
    DEF ChildInv, ReadTrue, WalkTrue, Blank, ValueTrue, EndTrue, Askers, Wanted
<1> QED
  BY <1>3, <1>4, <1>5 DEF Inv

LEMMA ConnectInv ==
  ASSUME Inv, Connect
  PROVE  Inv'
<1>1. TypeOK'
  BY DEF Connect, Inv, TypeOK, world, result, Fits
<1>2. PcFits' /\ TypeKnown'
  BY DEF Connect, Inv, PcFits, TypeKnown
<1>3. touched' = touched /\ Touches
  BY DEF Connect, world, Touches
<1>4. ASSUME NEW c \in Children \ touched' PROVE ChildInv(c)'
  BY <1>3, UntouchedStays DEF Connect, world, result
<1> QED
  BY <1>1, <1>2, <1>4 DEF Inv

LEMMA StutterInv ==
  ASSUME Inv, UNCHANGED vars
  PROVE  Inv'
<1>1. TypeOK' /\ PcFits' /\ TypeKnown'
  BY DEF vars, Inv, TypeOK, PcFits, TypeKnown, Fits
<1>2. touched' = touched /\ Touches
  BY DEF vars, Touches
<1>3. ASSUME NEW c \in Children \ touched' PROVE ChildInv(c)'
  BY <1>2, UntouchedStays DEF vars
<1> QED
  BY <1>1, <1>3 DEF Inv

LEMMA NextInv == Inv /\ [Next]_vars => Inv'
<1> SUFFICES ASSUME Inv, [Next]_vars PROVE Inv'
  OBVIOUS
<1>1. CASE Rpc
  BY <1>1, AssertInv, GetRunningInv, GetCandidateInv, WalkInv, WalkEndsInv, AskStatusInv,
     GetTypeInv, GetInv, LoadInv, AskInv DEF Rpc
<1> QED
  BY <1>1, WorldInv, ConnectInv, CallInv, StutterInv DEF Next, Done

LEMMA Invariant == Spec => []Inv
BY InitInv, NextInv, PTL DEF Spec

\* Whatever others do to the rest of the level between the RPCs of the call,
\* listNodeStatus is right about the children they leave alone, for levels of
\* every size.
THEOREM StatusWalk == Spec => []StatusesTrue
<1>1. Inv => StatusesTrue
  BY DEF Inv, StatusesTrue, Returned, ChildInv, EndTrue
<1> QED
  BY <1>1, Invariant, PTL

\* Errors hide children or show them as deleted, and do nothing worse.
THEOREM StatusErrors == Spec => []ErrorsOnlyHide
<1>1. Inv => ErrorsOnlyHide
  BY DEF Inv, ErrorsOnlyHide, ChildInv, EndTrue
<1> QED
  BY <1>1, Invariant, PTL

\* The deleted values are deleted, even when an RPC fails.
THEOREM DeletedValues == Spec => []DeletedAreDeleted
<1>1. Inv => DeletedAreDeleted
  BY DEF Inv, DeletedAreDeleted, Returned, ChildInv, EndTrue
<1> QED
  BY <1>1, Invariant, PTL

\* Yes means yes, even when an RPC fails, and no means no when none does.
THEOREM Answers == Spec => []AnswersTrue
<1>1. Inv => AnswersTrue
  BY DEF Inv, AnswersTrue, ChildInv, EndTrue, AnswerTrue
<1> QED
  BY <1>1, Invariant, PTL

\* The lists of the other observers hold what they should.
THEOREM Lists == Spec => []ListsTrue
<1>1. Inv => ListsTrue
  BY DEF Inv, ListsTrue, ChildInv, EndTrue
<1> QED
  BY <1>1, Invariant, PTL

-----------------------------------------------------------------------------
(* CfgClient, for any number of objects, sessions and calls. *)

\* The connection may also be apart from the member in a program that ended.
ClientInv == ClientTypeOK /\ FallsBackToKnown /\ OneContext

LEMMA ClientInitInv == ClientInit => ClientInv
BY DEF ClientInit, ClientInv, ClientTypeOK, FallsBackToKnown, OneContext, AnySid

LEMMA FlagUpdate ==
  ASSUME up \in [Clients -> BOOLEAN], NEW c \in Clients, NEW b \in BOOLEAN
  PROVE  [up EXCEPT ![c] = b] \in [Clients -> BOOLEAN]
BY Zenon

LEMMA ClientNextInv == ClientInv /\ [ClientNext]_client_vars => ClientInv'
<1> SUFFICES ASSUME ClientInv, [ClientNext]_client_vars PROVE ClientInv'
  OBVIOUS
<1> USE DEF ClientInv, ClientTypeOK, FallsBackToKnown, OneContext, AnySid
<1>1. ASSUME NEW c \in Clients, NEW s \in AnySid, Construct(c, s) PROVE ClientInv'
  <2>1. up' \in [Clients -> BOOLEAN]
    BY <1>1, FlagUpdate DEF Construct
  <2>2. CASE client' = [client EXCEPT ![c] = "open"]
             /\ session_id' = [session_id EXCEPT ![c] = s]
             /\ _sessionid' = [_sessionid EXCEPT ![c] = s]
             /\ known' = [known EXCEPT ![c] = {s} \ {NoSid}]
    BY <1>1, <2>1, <2>2 DEF Construct, Step
  <2>3. CASE client' = [client EXCEPT ![c] = "closed"]
             /\ UNCHANGED <<session_id, _sessionid, known>>
    BY <1>1, <2>1, <2>3 DEF Construct, Step
  <2> QED
    BY <1>1, <2>2, <2>3 DEF Construct
<1>2. ASSUME NEW c \in Clients, Destroy(c) PROVE ClientInv'
  BY <1>2 DEF Destroy, Step
<1>3. ASSUME NEW c \in Clients, HangUp(c) PROVE ClientInv'
  BY <1>3 DEF HangUp
<1>4. ASSUME NEW c \in Clients, SetupWithoutId(c) PROVE ClientInv'
  BY <1>4 DEF SetupWithoutId, ClientCall, Step, Throws
<1>5. ASSUME NEW c \in Clients, NEW s \in AnySid,
             SetupSucceeds(c, s) \/ SetupDenied(c, s) \/ Attach(c, s)
      PROVE  ClientInv'
  <2>1. Enter(c, s) /\ UNCHANGED client /\ s \in Sids
    BY <1>5 DEF SetupSucceeds, SetupDenied, Attach, Returns
  <2>3. client_calls' \in Nat /\ sessions' \subseteq Sids /\ up' = up
    BY <1>5 DEF SetupSucceeds, SetupDenied, Attach, ClientCall, Step
  <2> QED
    BY <2>1, <2>3 DEF Enter, configd_set_session_id
<1>6. ASSUME NEW c \in Clients, NEW s \in AnySid, SetupThrows(c,
      s) \/ SetupLost(c, s)
      PROVE  ClientInv'
  <2>1. KeepMember(c, s) /\ refused' = [refused EXCEPT ![c] = @ \cup {s}] /\ s \in Sids
        /\ known' = known
    BY <1>6 DEF SetupThrows, SetupLost
  <2>2. client' = client \/ client' = [client EXCEPT ![c] = "terminated"]
    BY <1>6 DEF SetupThrows, SetupLost, Fails, Throws, Terminates
  <2>4. client_calls' \in Nat /\ sessions' \subseteq Sids
    BY <1>6, <2>1 DEF SetupThrows, SetupLost, ClientCall, Step
  <2>5. up' \in [Clients -> BOOLEAN]
    <3>1. up' = up \/ up' = [up EXCEPT ![c] = FALSE]
      BY <1>6 DEF SetupThrows, SetupLost
    <3> QED
      BY <3>1, FlagUpdate
  <2> QED
    BY <2>1, <2>2, <2>4, <2>5 DEF KeepMember, configd_set_session_id
<1>7. ASSUME NEW c \in Clients, NEW s \in AnySid, AttachThrows(c, s) PROVE ClientInv'
  BY <1>7 DEF AttachThrows, Restored, configd_set_session_id, Throws,
      ClientCall, Step
<1>8. ASSUME NEW c \in Clients, NEW s \in AnySid, AttachTerminates(c, s) PROVE ClientInv'
  BY <1>8 DEF AttachTerminates, configd_set_session_id, Terminates, ClientCall,
      Step
<1>9. ASSUME NEW c \in Clients, SessionTeardown(c) PROVE ClientInv'
  BY <1>9 DEF SessionTeardown, Returns, Fails, Throws, Terminates,
      ClientCall, Step
<1>10. ASSUME NEW c \in Clients, Operate(c) \/ OperateGuarded(c) PROVE ClientInv'
  <2>1. client' = client \/ client' = [client EXCEPT ![c] = "terminated"]
    BY <1>10 DEF Operate, OperateGuarded, Applied, Returns, Fails,
        Throws, Terminates
  <2>3. client_calls' \in Nat /\ UNCHANGED <<sessions, up, session_id, _sessionid, known, refused>>
    BY <1>10 DEF Operate, OperateGuarded, ClientCall, Step
  <2> QED
    BY <2>1, <2>3
<1>11. CASE UNCHANGED client_vars
  BY <1>11 DEF client_vars
<1> QED
  BY <1>1, <1>2, <1>3, <1>4, <1>5, <1>6, <1>7, <1>8, <1>9, <1>10, <1>11 DEF ClientNext, ClientDone

LEMMA ClientInvariant == ClientSpec => []ClientInv
BY ClientInitInv, ClientNextInv, PTL DEF ClientSpec

\* For any objects and sessions, the connection and the member disagree only
\* after a setup that threw.
THEOREM ContextsAgree == ClientSpec => []OneContext
<1>1. ClientInv => OneContext
  BY DEF ClientInv
<1> QED
  BY <1>1, ClientInvariant, PTL

\* The session to fall back to is never that of a call that threw.
THEOREM FallBack == ClientSpec => []FallsBackToKnown
<1>1. ClientInv => FallsBackToKnown
  BY DEF ClientInv
<1> QED
  BY <1>1, ClientInvariant, PTL
=============================================================================
