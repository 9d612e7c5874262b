----------------------- MODULE TemplateActionsProofs -----------------------
(***************************************************************************)
(* Theorems about TemplateActions, for lists of actions of any length and  *)
(* depth, and about VarRef, for any schema, references and configurations. *)
(***************************************************************************)
EXTENDS TemplateActions, RefMeaning, SequenceTheorems, FiniteSetTheorems, WellFoundedInduction,
        TLAPS

-----------------------------------------------------------------------------
(* What an action means: big-step rules over the events of its leaves.     *)

\* The nodes that leave an event.
Leaves == {"EXEC_OP", "PATTERN_OP", "ASSIGN_OP", "COND_OP"}

\* The rules of a big-step semantics: <<t, k, n>> is in yes (in no) if t is true
\* (false) by the events of l from the k-th to the one before the n-th.
LeafRule(yes, no, l) ==
  \A k \in 1..Len(l) : l[k].at \in Nodes /\ l[k].at.op \in Leaves =>
    <<l[k].at, k, k + 1>> \in IF l[k].did \in Affirmed THEN yes ELSE no

NotRule(yes, no) ==
  \A t \in Nodes, k, n \in Nat : t.op = "NOT_OP" =>
    /\ <<t.left, k, n>> \in yes => <<t, k, n>> \in no
    /\ <<t.left, k, n>> \in no => <<t, k, n>> \in yes

\* The message of an expression that failed is an event.
HelpRule(yes, no, l) ==
  \A t \in Nodes, k, n \in Nat : t.op = "HELP_OP" =>
    /\ <<t.left, k, n>> \in yes => <<t, k, n>> \in yes
    /\ <<t.left, k, n>> \in no /\ n \in 1..Len(l) /\ l[n].at = t => <<t, k, n + 1>> \in no

\* The right operand decides, and is evaluated, if the left one does not.
AndRule(yes, no) ==
  \A t \in Nodes, k, n \in Nat : t.op = "AND_OP" =>
    /\ <<t.left, k, n>> \in no => <<t, k, n>> \in no
    /\ <<t.left, k, n>> \in yes => \A m \in Nat :
         /\ <<t.right, n, m>> \in yes => <<t, k, m>> \in yes
         /\ <<t.right, n, m>> \in no => <<t, k, m>> \in no

OrRule(yes, no) ==
  \A t \in Nodes, k, n \in Nat : t.op = "OR_OP" =>
    /\ <<t.left, k, n>> \in yes => <<t, k, n>> \in yes
    /\ <<t.left, k, n>> \in no => \A m \in Nat :
         /\ <<t.right, n, m>> \in yes => <<t, k, m>> \in yes
         /\ <<t.right, n, m>> \in no => <<t, k, m>> \in no

\* The first entry that fails is the last one evaluated.
ListRule(yes, no) ==
  \A t \in Nodes, k, n \in Nat : t.op = "LIST_OP" =>
    /\ <<First(t), k, n>> \in no => <<t, k, n>> \in no
    /\ <<First(t), k, n>> \in yes =>
         IF Tail(t.entries) = <<>> THEN <<t, k, n>> \in yes
         ELSE \A m \in Nat :
                /\ <<RestOf(t), n, m>> \in yes => <<t, k, m>> \in yes
                /\ <<RestOf(t), n, m>> \in no => <<t, k, m>> \in no

Rules(yes, no, l) ==
  /\ LeafRule(yes, no, l) /\ NotRule(yes, no) /\ HelpRule(yes, no, l)
  /\ AndRule(yes, no) /\ OrRule(yes, no) /\ ListRule(yes, no)

-----------------------------------------------------------------------------
\* What the call at a depth of the stack was called with.
Called(i) == IF i = Len(stack) + 1 THEN list ELSE First(stack[i])

Promise(yes, no, t, k, u, j) ==
  \A m \in Nat : /\ <<t, k, m>> \in yes => <<u, j, m>> \in yes
                 /\ <<t, k, m>> \in no => <<u, j, m>> \in no

Waiting == {"LIST_OP", "HELP_OP", "NOT_OP", "AND_OP", "OR_OP"}

IsSeq(s) == s \in Seq({s[i] : i \in DOMAIN s})

WalkType ==
  /\ IsSeq(log) /\ ret \in BOOLEAN
  /\ stack \in Seq(Nodes) /\ \A i \in 1..Len(stack) : stack[i].op \in Waiting
  /\ list \in Scripts \cup {EmptyList}
  /\ pc = "eval" => node \in Nodes
  /\ pc # "main" => in_commit

\* starts: where the call at each depth began to read.
Walking(yes, no, starts) ==
  /\ starts \in [1..(Len(stack) + 1) -> Nat]
  /\ starts[Len(stack) + 1] = 1
  /\ \A i \in 1..Len(stack) :
       Promise(yes, no, stack[i], starts[i], Called(i + 1), starts[i + 1])
  /\ pc = "eval" => Promise(yes, no, node, Len(log) + 1, Called(1), starts[1])
  /\ pc = "return" => <<Called(1), starts[1], Len(log) + 1>> \in IF ret THEN yes ELSE no

\* Nothing is on the stack and in the log before the walk.
Before == pc \in {"main", "connect", "parse", "action", "char2val", "expand"} => stack = <<>> /\ log = <<>>

WalkInv(yes, no) ==
  /\ WalkType /\ Before
  /\ Rules(yes, no, log) /\ pc \in {"eval", "return"} =>
       \E starts : Walking(yes, no, starts)

LEMMA LogGrows ==
  ASSUME NEW l, IsSeq(l), NEW e
  PROVE  /\ IsSeq(Append(l, e)) /\ Append(l, e) # <<>>
         /\ Len(l) \in Nat /\ Len(Append(l, e)) = Len(l) + 1
         /\ Append(l, e)[Len(l) + 1] = e
         /\ \A i \in 1..Len(l) : Append(l, e)[i] = l[i]
<1> DEFINE S == {l[i] : i \in DOMAIN l} \cup {e}
           a == Append(l, e)
<1>1. l \in Seq(S)
  <2>1. l \in Seq({l[i] : i \in DOMAIN l}) /\ {l[i] : i \in DOMAIN l} \subseteq S
    BY DEF IsSeq
  <2> HIDE DEF S
  <2> QED
    BY <2>1
<1>2. e \in S
  OBVIOUS
<1> HIDE DEF S
<1>3. /\ a \in Seq(S) /\ Len(l) \in Nat /\ Len(a) = Len(l) + 1 /\ a[Len(l) + 1] = e
      /\ \A i \in 1..Len(l) : a[i] = l[i]
  BY <1>1, <1>2, AppendProperties
<1> HIDE DEF a
<1>4. a \in Seq({a[i] : i \in DOMAIN a})
  BY <1>3
<1>5. a # <<>>
  BY <1>3
<1> QED
  BY <1>3, <1>4, <1>5 DEF IsSeq, a

LEMMA EmptyLog == IsSeq(<<>>) /\ Len(<<>>) = 0
BY DEF IsSeq

\* What can be derived from a log can be derived from a longer one.
LEMMA RulesShrink ==
  ASSUME NEW yes, NEW no, NEW l, IsSeq(l), NEW e, Rules(yes, no, Append(l, e))
  PROVE  Rules(yes, no, l)
<1> DEFINE a == Append(l, e)
<1>1. Len(l) \in Nat /\ Len(a) = Len(l) + 1 /\ \A i \in 1..Len(l) : a[i] = l[i]
  BY LogGrows
<1>2. LeafRule(yes, no, a) /\ HelpRule(yes, no, a)
  BY DEF Rules
<1> HIDE DEF a
<1>3. LeafRule(yes, no, l)
  BY <1>1, <1>2 DEF LeafRule
<1>4. HelpRule(yes, no, l)
  <2> SUFFICES ASSUME NEW t \in Nodes, NEW k \in Nat, NEW n \in Nat, t.op = "HELP_OP"
               PROVE  /\ <<t.left, k, n>> \in yes => <<t, k, n>> \in yes
                      /\ <<t.left, k, n>> \in no /\ n \in 1..Len(l) /\ l[n].at = t
                           => <<t, k, n + 1>> \in no
    BY DEF HelpRule
  <2> QED
    BY <1>1, <1>2 DEF HelpRule
<1> QED
  BY <1>3, <1>4 DEF Rules

-----------------------------------------------------------------------------
(* The moves of the stack. *)

LEMMA PushWalks ==
  ASSUME NEW yes, NEW no, WalkType, pc = "eval", NEW starts,
         Walking(yes, no, starts), stack' = <<node>> \o stack, node' = First(node),
         pc' = "eval", UNCHANGED <<log, list>>
  PROVE  \E s : Walking(yes, no, s)'
<1> DEFINE d == Len(stack)
<1>1. d \in Nat /\ Len(log) \in Nat /\ stack \in Seq(Nodes) /\ node \in Nodes
  BY DEF WalkType, IsSeq
<1>2. Len(stack') = d + 1 /\ stack'[1] = node /\ \A i \in 2..(d + 1) : stack'[i] = stack[i - 1]
  BY <1>1
<1>3. /\ starts \in [1..(d + 1) -> Nat] /\ starts[d + 1] = 1
      /\ \A i \in 1..d : Promise(yes, no, stack[i], starts[i], Called(i + 1), starts[i + 1])
      /\ Promise(yes, no, node, Len(log) + 1, Called(1), starts[1])
  BY DEF Walking
<1>4. Called(1)' = node' /\ \A i \in 1..(d + 1) : Called(i + 1)' = Called(i)
  BY <1>1, <1>2 DEF Called
<1>5. PICK s \in [1..(d + 2) -> Nat] :
        /\ s[1] = Len(log) + 1 /\ \A i \in 1..(d + 1) : s[i + 1] = starts[i]
        /\ \A i \in 2..(d + 2) : s[i] = starts[i - 1]
  <2> DEFINE f == [i \in 1..(d + 2) |-> IF i = 1 THEN Len(log) + 1 ELSE starts[i - 1]]
  <2>1. f \in [1..(d + 2) -> Nat] /\ f[1] = Len(log) + 1
    BY <1>1, <1>3
  <2>2. \A i \in 1..(d + 1) : f[i + 1] = starts[i]
    BY <1>1, <1>3
  <2>3. \A i \in 2..(d + 2) : f[i] = starts[i - 1]
    BY <1>1, <1>3
  <2> HIDE DEF f
  <2> QED
    BY <2>1, <2>2, <2>3
<1>6. ASSUME NEW i \in 1..(d + 1)
      PROVE  Promise(yes, no, stack'[i], s[i], Called(i + 1)', s[i + 1])
  <2>1. CASE i = 1
    BY <1>1, <1>2, <1>3, <1>4, <1>5, <2>1
  <2>2. CASE i # 1
    <3>1. i - 1 \in 1..d /\ i \in 2..(d + 1)
      BY <1>1, <2>2
    <3>2. stack'[i] = stack[i - 1] /\ s[i] = starts[i - 1] /\ s[i + 1] = starts[i] /\ Called(i + 1)' = Called(i)
      BY <1>1, <1>2, <1>4, <1>5, <3>1
    <3>3. (i - 1) + 1 = i
      OBVIOUS
    <3>4. Promise(yes, no, stack[i - 1], starts[i - 1], Called((i - 1) + 1), starts[(i - 1) + 1])
      BY <1>3, <3>1
    <3> QED
      BY <3>2, <3>3, <3>4
  <2> QED
    BY <2>1, <2>2
<1>7. Promise(yes, no, node', Len(log') + 1, Called(1)', s[1])
  BY <1>4, <1>5 DEF Promise
<1>8. s[Len(stack') + 1] = 1 /\ Len(stack') + 1 = d + 2
  BY <1>1, <1>2, <1>3, <1>5
<1>9. /\ s \in [1..(Len(stack') + 1) -> Nat]
      /\ \A i \in 1..Len(stack') : Promise(yes, no, stack'[i], s[i], Called(i + 1)', s[i + 1])
  BY <1>2, <1>5, <1>6, <1>8
<1>10. Walking(yes, no, s)'
  BY <1>7, <1>8, <1>9 DEF Walking
<1> QED
  BY <1>10

\* A call that returns, or is replaced by one in tail position.
LEMMA PopWalks ==
  ASSUME NEW yes, NEW no, WalkType, pc = "return", stack # <<>>, NEW starts,
         Walking(yes, no, starts), stack' = Tail(stack), pc' \in {"eval", "return"},
         UNCHANGED list,
         pc' = "eval" => Promise(yes, no, node', Len(log') + 1, Head(stack), starts[1]),
         pc' = "return" => <<Head(stack), starts[1], Len(log') + 1>> \in IF ret' THEN yes ELSE no,
         Len(log') \in Nat
  PROVE  \E s : Walking(yes, no, s)'
<1> DEFINE d == Len(stack)
<1>1. d \in Nat \ {0} /\ stack \in Seq(Nodes)
  BY DEF WalkType
<1>2. Head(stack) = stack[1] /\ Len(stack') = d - 1 /\ \A i \in 1..(d - 1) : stack'[i] = stack[i + 1]
  BY <1>1
<1>3. /\ starts \in [1..(d + 1) -> Nat] /\ starts[d + 1] = 1
      /\ \A i \in 1..d : Promise(yes, no, stack[i], starts[i], Called(i + 1), starts[i + 1])
  BY DEF Walking
<1>4. ASSUME NEW i \in 1..d PROVE Called(i)' = Called(i + 1)
  <2>1. CASE i = d
    BY <1>1, <1>2, <2>1 DEF Called
  <2>2. CASE i # d
    <3>1. i \in 1..(d - 1) /\ i # (d - 1) + 1 /\ i + 1 # d + 1
      BY <1>1, <2>2
    <3> QED
      BY <1>2, <3>1 DEF Called
  <2> QED
    BY <2>1, <2>2
<1>5. PICK s \in [1..d -> Nat] : \A i \in 1..d : s[i] = starts[i + 1]
  <2> DEFINE f == [i \in 1..d |-> starts[i + 1]]
  <2>1. f \in [1..d -> Nat] /\ \A i \in 1..d : f[i] = starts[i + 1]
    BY <1>1, <1>3
  <2> HIDE DEF f
  <2> QED
    BY <2>1
<1>6. ASSUME NEW i \in 1..(d - 1)
      PROVE  Promise(yes, no, stack'[i], s[i], Called(i + 1)', s[i + 1])
  <2>1. i + 1 \in 1..d /\ i \in 1..d
    BY <1>1
  <2>2. stack'[i] = stack[i + 1] /\ s[i] = starts[i + 1] /\ s[i + 1] = starts[(i + 1) + 1]
        /\ Called(i + 1)' = Called((i + 1) + 1)
    BY <1>1, <1>2, <1>4, <1>5, <2>1
  <2>3. Promise(yes, no, stack[i + 1], starts[i + 1], Called((i + 1) + 1), starts[(i + 1) + 1])
    BY <1>3, <2>1
  <2> QED
    BY <2>2, <2>3
<1>7. Promise(yes, no, Head(stack), starts[1], Called(1)', s[1])
  BY <1>1, <1>2, <1>3, <1>4, <1>5
<1>8. pc' = "eval" => Promise(yes, no, node', Len(log') + 1, Called(1)', s[1])
  BY <1>7 DEF Promise
<1>9. pc' = "return" => <<Called(1)', s[1], Len(log') + 1>> \in IF ret' THEN yes ELSE no
  BY <1>7 DEF Promise
<1>10. s[Len(stack') + 1] = 1 /\ Len(stack') + 1 = d
  BY <1>1, <1>2, <1>3, <1>5
<1>11. /\ s \in [1..(Len(stack') + 1) -> Nat]
       /\ \A i \in 1..Len(stack') : Promise(yes, no, stack'[i], s[i], Called(i + 1)', s[i + 1])
  BY <1>2, <1>5, <1>6, <1>10
<1>12. Walking(yes, no, s)'
  BY <1>8, <1>9, <1>10, <1>11 DEF Walking
<1> QED
  BY <1>12

\* A leaf has left its event.
LEMMA LeafWalks ==
  ASSUME NEW yes, NEW no, WalkType, pc = "eval", NEW starts,
         Walking(yes, no, starts), UNCHANGED <<stack, list>>, pc' = "return",
         Len(log') \in Nat,
         <<node, Len(log) + 1, Len(log') + 1>> \in IF ret' THEN yes ELSE no
  PROVE  \E s : Walking(yes, no, s)'
<1>1. Promise(yes, no, node, Len(log) + 1, Called(1), starts[1])
  BY DEF Walking
<1>2. \A i : Called(i)' = Called(i)
  BY DEF Called
<1>3. <<Called(1)', starts[1], Len(log') + 1>> \in IF ret' THEN yes ELSE no
  BY <1>1, <1>2 DEF Promise
<1>4. Walking(yes, no, starts)'
  BY <1>2, <1>3 DEF Walking
<1> QED
  BY <1>4

-----------------------------------------------------------------------------
(* The types. *)

LEMMA PushType ==
  ASSUME stack \in Seq(Nodes), \A i \in 1..Len(stack) : stack[i].op \in Waiting,
         node \in Nodes, node.op \in Waiting, stack' = <<node>> \o stack
  PROVE  stack' \in Seq(Nodes) /\ \A i \in 1..Len(stack') : stack'[i].op \in Waiting
<1>1. /\ stack' \in Seq(Nodes) /\ Len(stack) \in Nat /\ Len(stack') = Len(stack) + 1
      /\ stack'[1] = node /\ \A i \in 2..(Len(stack) + 1) : stack'[i] = stack[i - 1]
  OBVIOUS
<1>2. ASSUME NEW i \in 1..(Len(stack) + 1) PROVE stack'[i].op \in Waiting
  <2>1. CASE i = 1
    BY <1>1, <2>1
  <2>2. CASE i # 1
    <3>1. i \in 2..(Len(stack) + 1) /\ i - 1 \in 1..Len(stack)
      BY <1>1, <2>2
    <3> QED
      BY <1>1, <3>1
  <2> QED
    BY <2>1, <2>2
<1> QED
  BY <1>1, <1>2

LEMMA PopType ==
  ASSUME stack \in Seq(Nodes), \A i \in 1..Len(stack) : stack[i].op \in Waiting,
         stack # <<>>, stack' = Tail(stack)
  PROVE  /\ stack' \in Seq(Nodes) /\ \A i \in 1..Len(stack') : stack'[i].op \in Waiting
         /\ Head(stack) \in Nodes /\ Head(stack).op \in Waiting
<1>1. /\ stack' \in Seq(Nodes) /\ Len(stack) \in Nat \ {0} /\ Len(stack') = Len(stack) - 1
      /\ Head(stack) = stack[1] /\ stack[1] \in Nodes
      /\ \A i \in 1..(Len(stack) - 1) : stack'[i] = stack[i + 1]
  OBVIOUS
<1>2. \A i \in 1..(Len(stack) - 1) : i + 1 \in 1..Len(stack)
  BY <1>1
<1> QED
  BY <1>1, <1>2

\* The parts of a tree that are evaluated after it.
LEMMA Parts ==
  ASSUME NEW t \in Nodes
  PROVE  /\ t.op \in Waiting => First(t) \in Nodes
         /\ t.op \in {"AND_OP", "OR_OP"} => t.right \in Nodes
         /\ t.op = "LIST_OP" /\ Tail(t.entries) # <<>> => RestOf(t) \in Nodes
BY NodesAssumption DEF Unary, Binary, Waiting

LEMMA ListStep ==
  ASSUME WalkType, EvalList
  PROVE  /\ pc = "eval" /\ pc' = "eval" /\ node.op = "LIST_OP" /\ stack' = <<node>> \o stack
         /\ node' = First(node) /\ UNCHANGED <<program, ret, log>>
<1>1. in_commit
  BY DEF WalkType, EvalList, Evaluating
<1> QED
  BY <1>1 DEF EvalList, Evaluating, Go, First

LEMMA LeftStep ==
  ASSUME EvalLeft
  PROVE  /\ pc = "eval" /\ pc' = "eval" /\ node.op \in Waiting /\ stack' = <<node>> \o stack
         /\ node' = First(node) /\ UNCHANGED <<program, ret, log>>
BY DEF EvalLeft, Evaluating, Go, First, Waiting

PopStep == ReturnToList \/ ReturnToHelp \/ ReturnToNot \/ ReturnToAnd \/ ReturnToOr

LeafStep == EvalExec \/ EvalPattern \/ EvalAssign \/ EvalCond

\* A call that waited returns or is replaced by one of its parts.
LEMMA PopCases ==
  ASSUME WalkType, PopStep
  PROVE  /\ pc = "return" /\ stack # <<>> /\ stack' = Tail(stack) /\ UNCHANGED program
         /\ \/ pc' = "return" /\ ret' \in BOOLEAN
            \/ pc' = "eval" /\ node' \in Nodes /\ UNCHANGED ret
         /\ log' = log \/ \E e : log' = Append(log, e)
<1> DEFINE h == Head(stack)
<1>1. pc = "return" /\ stack # <<>> /\ UNCHANGED program /\ stack' = Tail(stack)
  BY DEF PopStep, ReturnToList, ReturnToHelp, ReturnToNot, ReturnToAnd, ReturnToOr, Returning, Pop,
         Instead
<1>2. h \in Nodes
  BY <1>1 DEF WalkType
<1>3. ret \in BOOLEAN
  BY DEF WalkType
<1>4. log' = log \/ \E e : log' = Append(log, e)
  BY DEF PopStep, ReturnToList, ReturnToHelp, ReturnToNot, ReturnToAnd, ReturnToOr
<1>5. CASE ReturnToList
  <2>1. h.op = "LIST_OP"
    BY <1>5 DEF ReturnToList, Returning
  <2>2. \/ pc' = "return" /\ ret' = ret
        \/ pc' = "eval" /\ Tail(h.entries) # <<>> /\ node' = RestOf(h) /\ ret' = ret
    BY <1>5 DEF ReturnToList, Return, Instead, Go, RestOf
  <2> QED
    BY <1>1, <1>2, <1>3, <1>4, <2>1, <2>2, Parts
<1>6. CASE ReturnToHelp
  BY <1>1, <1>3, <1>4, <1>6 DEF ReturnToHelp, Return, Go
<1>7. CASE ReturnToNot
  BY <1>1, <1>3, <1>4, <1>7 DEF ReturnToNot, Return, Go
<1>8. CASE ReturnToAnd \/ ReturnToOr
  <2>1. h.op \in {"AND_OP", "OR_OP"}
    BY <1>8 DEF ReturnToAnd, ReturnToOr, Returning
  <2>2. \/ pc' = "return" /\ ret' \in BOOLEAN
        \/ pc' = "eval" /\ node' = h.right /\ ret' = ret
    BY <1>8 DEF ReturnToAnd, ReturnToOr, Return, Instead, Go
  <2> QED
    BY <1>1, <1>2, <1>4, <2>1, <2>2, Parts
<1> QED
  BY <1>5, <1>6, <1>7, <1>8 DEF PopStep

\* A leaf leaves an event that says what it returns, or ends the program.
LEMMA LeafCases ==
  ASSUME LeafStep
  PROVE  /\ pc = "eval" /\ node.op \in Leaves /\ UNCHANGED <<program, stack>>
         /\ \E what : /\ log' = Append(log, [at |-> node, did |-> what])
                      /\ \/ pc' = "return" /\ ret' \in BOOLEAN /\ (ret' <=> what \in Affirmed)
                         \/ pc' = "exit" /\ ret' = ret
<1>1. CASE EvalExec
  <2>1. PICK what \in {"unexpanded", "exit 0", "exit 1"} : Did(what) /\ Return(what = "exit 0")
    BY <1>1 DEF EvalExec
  <2> QED
    BY <1>1, <2>1 DEF EvalExec, Leaf, Evaluating, Leaves, Did, Return, Go, Affirmed
<1>2. CASE EvalPattern
  <2>1. CASE \E what \in {"status", "all match", "one does not"} :
               Did(what) /\ Return(what = "all match")
    <3>1. PICK what \in {"status", "all match", "one does not"} :
                 Did(what) /\ Return(what = "all match")
      BY <2>1
    <3> QED
      BY <1>2, <3>1 DEF EvalPattern, Leaf, Evaluating, Leaves, Did, Return, Go, Affirmed
  <2>2. CASE Did("bad regex") /\ Dies("failure")
    BY <1>2, <2>2 DEF EvalPattern, Leaf, Evaluating, Leaves, Did, Dies, Exit
  <2> QED
    BY <1>2, <2>1, <2>2 DEF EvalPattern
<1>3. CASE EvalAssign
  <2>1. PICK right \in eval_va(node.right) :
          IF right \in {"status", "list", "multi_list"}
          THEN Did(right) /\ Return(FALSE)
          ELSE /\ \E what \in (IF right = "zero" THEN {"not set"} ELSE {"set", "not set"}) : Did(what)
               /\ Return(TRUE)
    BY <1>3 DEF EvalAssign
  <2>2. \/ right \in {"status", "list", "multi_list"} /\ Did(right) /\ Return(FALSE)
        \/ (\E what \in {"set", "not set"} : Did(what)) /\ Return(TRUE)
    BY <2>1
  <2> QED
    BY <1>3, <2>2 DEF EvalAssign, Leaf, Evaluating, Leaves, Did, Return, Go, Affirmed
<1>4. CASE EvalCond
  <2>1. PICK left \in eval_va(node.left), right \in eval_va(node.right) :
          \E what \in check_comp(left, right) :
            /\ Did(what)
            /\ CASE what = "bye" -> Dies("failure")
                 [] what = "killed" -> Dies("killed")
                 [] OTHER -> Return(what = "yes")
    BY <1>4, Zenon DEF EvalCond
  <2>2. check_comp(left, right) \subseteq {"yes", "no", "bye", "killed"}
    BY DEF check_comp
  <2>3. PICK what \in {"yes", "no", "bye", "killed"} :
            /\ Did(what)
            /\ CASE what = "bye" -> Dies("failure")
                 [] what = "killed" -> Dies("killed")
                 [] OTHER -> Return(what = "yes")
    BY <2>1, <2>2, Zenon
  <2>4. Did(what) /\ ((Return(what = "yes") /\ what \in {"yes", "no"}) \/ \E how : Dies(how))
    BY <2>3
  <2> QED
    BY <1>4, <2>4 DEF EvalCond, Leaf, Evaluating, Leaves, Did, Return, Go, Dies, Exit, Affirmed
<1> QED
  BY <1>1, <1>2, <1>3, <1>4 DEF LeafStep

LEMMA WalkTypeInit == ASSUME Init PROVE WalkType /\ Before
BY EmptyLog DEF Init, WalkType, Before

LEMMA WalkTypeNext ==
  ASSUME WalkType, Before, [Next]_vars
  PROVE  WalkType' /\ Before'
<1> USE DEF program, walk
<1>1. CASE UNCHANGED vars
  BY <1>1 DEF vars, WalkType, Before, IsSeq
<1>2. CASE Main \/ connect \/ get_action_type
  <2>1. /\ UNCHANGED <<list, walk>> /\ pc' \notin {"eval", "return", "main"}
        /\ in_commit'
        /\ pc \in {"main", "connect", "action"}
    BY <1>2 DEF Main, connect, get_action_type, Go, Exit, AfterAction, WalkType
  <2> QED
    BY <2>1 DEF WalkType, Before, IsSeq
<1>3. CASE parse_def
  <2>1. /\ UNCHANGED <<in_commit, walk>> /\ pc' \notin {"eval", "return", "main"}
        /\ list' \in Scripts \cup {EmptyList} /\ pc = "parse"
    BY <1>3 DEF parse_def, Go, Exit, WalkType
  <2> QED
    BY <2>1 DEF WalkType, Before, IsSeq
<1>4. CASE process_string
  <2>1. /\ UNCHANGED <<in_commit, list, stack, ret>> /\ pc' = "exit" /\ pc = "expand"
        /\ log' = log \/ \E e : log' = Append(log, e)
    BY <1>4 DEF process_string, Exit, Did
  <2>2. IsSeq(log')
    BY <2>1, LogGrows DEF WalkType
  <2> QED
    BY <2>1, <2>2 DEF WalkType, Before
<1>5. CASE execute_list
  <2>1. /\ UNCHANGED <<in_commit, list, stack, ret, log>> /\ pc = "char2val"
        /\ \/ pc' = "exit"
           \/ pc' = "eval" /\ list # EmptyList /\ node' = list
    BY <1>5 DEF execute_list, Go, Exit
  <2>2. pc' = "eval" => node' \in Nodes
    BY <2>1, NodesAssumption DEF WalkType
  <2> QED
    BY <2>1, <2>2 DEF WalkType, Before, IsSeq
<1>6. CASE Finish
  <2>1. UNCHANGED <<program, walk>> /\ pc' = "exit" /\ pc = "return"
    BY <1>6 DEF Finish, Exit
  <2> QED
    BY <2>1 DEF WalkType, Before, IsSeq
<1>7. CASE EvalList \/ EvalLeft
  <2>1. /\ pc = "eval" /\ pc' = "eval" /\ node.op \in Waiting /\ stack' = <<node>> \o stack
        /\ node' = First(node) /\ UNCHANGED <<program, ret, log>>
    BY <1>7, ListStep, LeftStep DEF Waiting
  <2>2. node \in Nodes
    BY <2>1 DEF WalkType
  <2>3. node' \in Nodes
    BY <2>1, <2>2, Parts
  <2>4. stack' \in Seq(Nodes) /\ \A i \in 1..Len(stack') : stack'[i].op \in Waiting
    BY <2>1, <2>2, PushType DEF WalkType
  <2> QED
    BY <2>1, <2>3, <2>4 DEF WalkType, Before, IsSeq
<1>8. CASE PopStep
  <2>1. /\ pc = "return" /\ stack # <<>> /\ stack' = Tail(stack) /\ UNCHANGED program
        /\ \/ pc' = "return" /\ ret' \in BOOLEAN
           \/ pc' = "eval" /\ node' \in Nodes /\ UNCHANGED ret
        /\ log' = log \/ \E e : log' = Append(log, e)
    BY <1>8, PopCases
  <2>2. IsSeq(log')
    BY <2>1, LogGrows DEF WalkType
  <2>3. stack' \in Seq(Nodes) /\ \A i \in 1..Len(stack') : stack'[i].op \in Waiting
    BY <2>1, PopType DEF WalkType
  <2> QED
    BY <2>1, <2>2, <2>3 DEF WalkType, Before
<1>9. CASE LeafStep
  <2>1. PICK what :
          /\ pc = "eval" /\ UNCHANGED <<program, stack>>
          /\ log' = Append(log, [at |-> node, did |-> what])
          /\ ret' \in BOOLEAN \/ ret' = ret
          /\ pc' \in {"return", "exit"}
    BY <1>9, LeafCases
  <2>2. IsSeq(log')
    BY <2>1, LogGrows DEF WalkType
  <2> QED
    BY <2>1, <2>2 DEF WalkType, Before
<1> QED
  BY <1>1, <1>2, <1>3, <1>4, <1>5, <1>6, <1>7, <1>8, <1>9 DEF Next, Step, Done, PopStep, LeafStep

\* One step of the walk, for sets that the rules hold for.
LEMMA WalkStep ==
  ASSUME NEW yes, NEW no, WalkInv(yes, no), [Next]_vars,
         Rules(yes, no, log'), pc' \in {"eval", "return"}
  PROVE  \E s : Walking(yes, no, s)'
<1> USE DEF program, walk
<1>1. WalkType /\ Before /\ Len(log) \in Nat
  BY DEF WalkInv, WalkType, IsSeq
<1>2. ASSUME pc \in {"eval", "return"}, log' = log \/ \E e : log' = Append(log, e)
      PROVE  \E s : Walking(yes, no, s)
  <2>1. Rules(yes, no, log)
    BY <1>1, <1>2, RulesShrink DEF WalkType
  <2> QED
    BY <1>2, <2>1 DEF WalkInv
<1>3. CASE UNCHANGED vars
  <2>1. PICK s : Walking(yes, no, s)
    BY <1>2, <1>3 DEF vars
  <2>2. \A i : Called(i)' = Called(i)
    BY <1>3 DEF vars, Called
  <2>3. Walking(yes, no, s)'
    BY <1>3, <2>1, <2>2 DEF vars, Walking
  <2> QED
    BY <2>3
<1>4. CASE execute_list
  <2>1. UNCHANGED <<list, stack, log>> /\ pc = "char2val" /\ pc' = "eval" /\ node' = list
    BY <1>4 DEF execute_list, Go, Exit
  <2>2. stack' = <<>> /\ log' = <<>>
    BY <1>1, <2>1 DEF Before
  <2>3. Len(stack') = 0 /\ Len(log') = 0 /\ Called(1)' = list'
    BY <2>2 DEF Called
  <2>4. PICK s \in [1..1 -> Nat] : s[1] = 1
    <3>1. [i \in 1..1 |-> 1] \in [1..1 -> Nat] /\ [i \in 1..1 |-> 1][1] = 1
      OBVIOUS
    <3> QED
      BY <3>1
  <2>5. Walking(yes, no, s)'
    BY <2>1, <2>3, <2>4 DEF Walking, Promise
  <2> QED
    BY <2>5
<1>5. CASE EvalList \/ EvalLeft
  <2>1. /\ pc = "eval" /\ pc' = "eval" /\ stack' = <<node>> \o stack
        /\ node' = First(node) /\ UNCHANGED <<log, list>>
    BY <1>1, <1>5, ListStep, LeftStep
  <2>2. PICK s : Walking(yes, no, s)
    BY <1>2, <2>1
  <2> QED
    BY <1>1, <2>1, <2>2, PushWalks
<1>6. CASE LeafStep
  <2>1. PICK what :
          /\ pc = "eval" /\ node.op \in Leaves /\ UNCHANGED <<program, stack>>
          /\ log' = Append(log, [at |-> node, did |-> what])
          /\ pc' = "return" /\ ret' \in BOOLEAN /\ (ret' <=> what \in Affirmed)
    BY <1>6, LeafCases
  <2>2. PICK s : Walking(yes, no, s)
    BY <1>2, <2>1
  <2> DEFINE e == [at |-> node, did |-> what]
             n == Len(log) + 1
  <2>3. Len(log') = n /\ log'[n] = e /\ n \in 1..Len(log')
    <3>1. Len(log') = Len(log) + 1 /\ log'[Len(log) + 1] = e
      BY <1>1, <2>1, LogGrows DEF WalkType
    <3> QED
      BY <1>1, <3>1
  <2>4. e.at = node /\ e.did = what /\ node \in Nodes
    BY <1>1, <2>1 DEF WalkType
  <2> HIDE DEF e
  <2>5. <<node, n, n + 1>> \in IF what \in Affirmed THEN yes ELSE no
    BY <2>1, <2>3, <2>4 DEF Rules, LeafRule
  <2>6. <<node, Len(log) + 1, Len(log') + 1>> \in IF ret' THEN yes ELSE no
    BY <2>1, <2>3, <2>5
  <2>7. Len(log') \in Nat /\ UNCHANGED <<stack, list>>
    BY <1>1, <2>1, <2>3
  <2> QED
    BY <1>1, <2>1, <2>2, <2>6, <2>7, LeafWalks
<1>7. CASE PopStep
  <2>1. /\ pc = "return" /\ stack # <<>> /\ stack' = Tail(stack) /\ UNCHANGED list
        /\ log' = log \/ \E e : log' = Append(log, e)
    BY <1>1, <1>7, PopCases
  <2>2. PICK s : Walking(yes, no, s)
    BY <1>2, <2>1
  <2> DEFINE h == Head(stack)
             n == Len(log) + 1
  <2>3. h = stack[1] /\ h \in Nodes /\ Len(stack) \in Nat \ {0}
    BY <1>1, <2>1 DEF WalkType
  <2>4. <<First(h), s[1], n>> \in (IF ret THEN yes ELSE no) /\ s[1] \in Nat /\ n \in Nat
    <3>1. Called(1) = First(h) /\ n \in Nat
      BY <1>1, <2>3 DEF Called, WalkType, IsSeq
    <3>2. /\ s \in [1..(Len(stack) + 1) -> Nat]
          /\ <<Called(1), s[1], n>> \in IF ret THEN yes ELSE no
      BY <2>1, <2>2 DEF Walking
    <3>3. s[1] \in Nat
      BY <2>3, <3>2
    <3> QED
      BY <3>1, <3>2, <3>3
  <2>5. Len(log') \in Nat
    BY <1>1, <2>1, LogGrows DEF WalkType
  <2> SUFFICES /\ pc' = "eval" => Promise(yes, no, node', Len(log') + 1, h, s[1])
               /\ pc' = "return" => <<h, s[1], Len(log') + 1>> \in IF ret' THEN yes ELSE no
    BY <1>1, <2>1, <2>2, <2>5, PopWalks
  <2> HIDE DEF n
  <2>6. CASE ReturnToList
    <3>1. h.op = "LIST_OP" /\ log' = log
          /\ \/ pc' = "return" /\ ret' = ret /\ (~ret \/ Tail(h.entries) = <<>>)
             \/ pc' = "eval" /\ ret /\ Tail(h.entries) # <<>> /\ node' = RestOf(h)
      BY <2>6 DEF ReturnToList, Returning, Return, Instead, Go, RestOf
    <3> HIDE DEF h
    <3>2. CASE pc' = "return"
      BY <1>1, <2>3, <2>4, <3>1, <3>2 DEF Rules, ListRule, n
    <3>3. CASE pc' = "eval"
      <4>1. \A m \in Nat : /\ <<RestOf(h), n, m>> \in yes => <<h, s[1], m>> \in yes
                           /\ <<RestOf(h), n, m>> \in no => <<h, s[1], m>> \in no
        BY <2>3, <2>4, <3>1, <3>3 DEF Rules, ListRule
      <4> QED
        BY <1>1, <3>1, <3>3, <4>1 DEF Promise, n
    <3> QED
      BY <3>1, <3>2, <3>3
  <2>7. CASE ReturnToNot
    <3>1. h.op = "NOT_OP" /\ log' = log /\ pc' = "return" /\ ret' = ~ret
      BY <2>7 DEF ReturnToNot, Returning, Return, Go
    <3>2. First(h) = h.left
      BY <3>1 DEF First
    <3> HIDE DEF h
    <3> QED
      BY <1>1, <2>3, <2>4, <3>1, <3>2 DEF Rules, NotRule, n
  <2>8. CASE ReturnToHelp
    <3>1. /\ h.op = "HELP_OP" /\ pc' = "return" /\ ret' = ret
          /\ \/ ret /\ log' = log
             \/ ~ret /\ \E what : log' = Append(log, [at |-> h, did |-> what])
      BY <2>8 DEF ReturnToHelp, Returning, Return, Go
    <3>2. First(h) = h.left
      BY <3>1 DEF First
    <3> HIDE DEF h
    <3>3. CASE ret /\ log' = log
      BY <1>1, <2>3, <2>4, <3>1, <3>2, <3>3 DEF Rules, HelpRule, n
    <3>4. CASE ~ret /\ \E what : log' = Append(log, [at |-> h, did |-> what])
      <4>1. Len(log') = n /\ log'[n].at = h
        BY <1>1, <3>4, LogGrows DEF WalkType, n
      <4>2. n \in 1..Len(log')
        BY <1>1, <4>1 DEF n
      <4>3. <<h, s[1], n + 1>> \in no
        BY <2>3, <2>4, <3>1, <3>2, <3>4, <4>1, <4>2 DEF Rules, HelpRule
      <4> QED
        BY <3>1, <3>4, <4>1, <4>3
    <3> QED
      BY <3>1, <3>3, <3>4
  <2>9. CASE ReturnToAnd
    <3>1. h.op = "AND_OP" /\ log' = log
          /\ \/ pc' = "return" /\ ret' = FALSE /\ ~ret
             \/ pc' = "eval" /\ ret /\ node' = h.right
      BY <2>9 DEF ReturnToAnd, Returning, Return, Instead, Go
    <3>2. First(h) = h.left
      BY <3>1 DEF First
    <3> HIDE DEF h
    <3> QED
      BY <1>1, <2>3, <2>4, <3>1, <3>2 DEF Rules, AndRule, Promise, n
  <2>10. CASE ReturnToOr
    <3>1. h.op = "OR_OP" /\ log' = log
          /\ \/ pc' = "return" /\ ret' = TRUE /\ ret
             \/ pc' = "eval" /\ ~ret /\ node' = h.right
      BY <2>10 DEF ReturnToOr, Returning, Return, Instead, Go
    <3>2. First(h) = h.left
      BY <3>1 DEF First
    <3> HIDE DEF h
    <3> QED
      BY <1>1, <2>3, <2>4, <3>1, <3>2 DEF Rules, OrRule, Promise, n
  <2> QED
    BY <1>7, <2>6, <2>7, <2>8, <2>9, <2>10 DEF PopStep
<1>8. CASE Main \/ connect \/ parse_def \/ get_action_type \/ process_string \/ Finish
  BY <1>8
  DEF Main, connect, parse_def, get_action_type, process_string, Finish, Go, Exit, AfterAction
<1> QED
  BY <1>3, <1>4, <1>5, <1>6, <1>7, <1>8 DEF Next, Step, Done, PopStep, LeafStep

\* The invariant of the walk, for every reading of the log that the rules hold
\* for; the reading may be one that changes with the log.
LEMMA WalkDerives == Spec => [](\A yes, no : WalkInv(yes, no))
<1>1. Init => \A yes, no : WalkInv(yes, no)
  <2> SUFFICES ASSUME Init, NEW yes, NEW no PROVE WalkInv(yes, no)
    OBVIOUS
  <2>1. pc = "main"
    BY DEF Init
  <2> QED
    BY <2>1, WalkTypeInit DEF WalkInv
<1>2. (\A yes, no : WalkInv(yes, no)) /\ [Next]_vars => (\A yes, no : WalkInv(yes, no))'
  <2> SUFFICES ASSUME \A yes, no : WalkInv(yes, no), [Next]_vars, NEW yes, NEW no
               PROVE  WalkInv(yes, no)'
    OBVIOUS
  <2>1. WalkInv(yes, no)
    OBVIOUS
  <2>2. WalkType' /\ Before'
    BY <2>1, WalkTypeNext DEF WalkInv
  <2>3. Rules(yes, no, log)' /\ pc' \in {"eval", "return"} => \E s : Walking(yes, no, s)'
    BY <2>1, WalkStep
  <2> QED
    BY <2>2, <2>3 DEF WalkInv
<1> QED
  BY <1>1, <1>2, PTL DEF Spec

-----------------------------------------------------------------------------
(***************************************************************************)
(* Induction over the natural numbers, from the least element of a set:    *)
(* the statement has a set where NatInduction has an operator.             *)
(***************************************************************************)

\* A set of natural numbers that is not empty has a least element.
LEMMA LeastElement ==
  ASSUME NEW T, T \subseteq Nat, T # {}
  PROVE  \E x \in T : \A y \in T : x <= y
<1> DEFINE R == OpToRel(<, Nat)
<1>1. IsWellFoundedOn(R, Nat)
  BY NatLessThanWellFounded, Zenon
<1>2. \A x, y \in Nat : y < x => <<y, x>> \in R
  BY DEF OpToRel
<1> HIDE DEF R
<1>3. PICK x \in T : \A y \in T : <<y, x>> \notin R
  BY <1>1, WFMin
<1>4. ASSUME NEW y \in T PROVE x <= y
  <2>1. x \in Nat /\ y \in Nat
    OBVIOUS
  <2>2. ~(y < x)
    BY <1>2, <1>3, <2>1
  <2> QED
    BY <2>1, <2>2
<1> QED
  BY <1>4

\* A set that holds 0 and with every number the next one holds all of them.
LEMMA SetInduction ==
  ASSUME NEW T, 0 \in T, \A k \in Nat : k \in T => k + 1 \in T
  PROVE  \A k \in Nat : k \in T
<1> DEFINE U == Nat \ T
<1>1. SUFFICES ASSUME U # {} PROVE FALSE
  OBVIOUS
<1>2. PICK x \in U : \A y \in U : x <= y
  BY <1>1, LeastElement
<1>3. x # 0 /\ x - 1 \in Nat
  BY <1>2
<1>4. x - 1 \notin U
  BY <1>2, <1>3
<1> QED
  BY <1>2, <1>3, <1>4

-----------------------------------------------------------------------------
(* The recursion of Meaning defines a function, because a tree has a depth. *)

\* The nodes whose meaning the meaning of t refers to.
PartOf(u, t) ==
  \/ t.op \in Waiting /\ u = First(t)
  \/ t.op \in Binary /\ u = t.right
  \/ t.op = "LIST_OP" /\ Tail(t.entries) # <<>> /\ u = RestOf(t)

IsDepth(Depth) ==
  /\ Depth \in [Nodes -> Nat]
  /\ \A t, u \in Nodes : PartOf(u, t) => Depth[u] < Depth[t]

LEMMA PartIsNode ==
  ASSUME NEW t \in Nodes, NEW u, PartOf(u, t)
  PROVE  u \in Nodes
BY Parts DEF PartOf, Binary

\* Reads looks at the meaning of the parts of a tree only.
LEMMA ReadsAgree ==
  ASSUME NEW t, NEW M, NEW N, \A u : PartOf(u, t) => M[u] = N[u]
  PROVE  Reads(M, t) = Reads(N, t)
<1>1. CASE t.op \notin Waiting
  BY <1>1 DEF Reads, Waiting
<1>2. CASE t.op \in Unary
  <2>1. M[First(t)] = N[First(t)]
    BY <1>2 DEF PartOf, Waiting, Unary
  <2> QED
    BY <1>2, <2>1 DEF Reads, Unary
<1>3. CASE t.op \in Binary
  <2>1. M[First(t)] = N[First(t)] /\ M[t.right] = N[t.right]
    BY <1>3 DEF PartOf, Waiting, Binary
  <2> QED
    BY <1>3, <2>1 DEF Reads, Binary
<1>4. CASE t.op = "LIST_OP"
  <2>1. /\ M[First(t)] = N[First(t)]
        /\ Tail(t.entries) # <<>> => M[RestOf(t)] = N[RestOf(t)]
    BY <1>4 DEF PartOf, Waiting
  <2> QED
    BY <1>4, <2>1 DEF Reads
<1> QED
  BY <1>1, <1>2, <1>3, <1>4 DEF Waiting, Unary, Binary

\* The meaning of the trees below a depth.
Below(Depth, n) == {t \in Nodes : Depth[t] < n}

Attempt(M, Depth, n) == M = [t \in Below(Depth, n) |-> Reads(M, t)]

LEMMA AttemptExists ==
  ASSUME NEW Depth, IsDepth(Depth)
  PROVE  \A n \in Nat : \E M : Attempt(M, Depth, n)
<1> DEFINE T == {n \in Nat : \E M : Attempt(M, Depth, n)}
<1>1. 0 \in T
  <2> DEFINE M == [t \in Below(Depth, 0) |-> 0]
  <2>1. Below(Depth, 0) = {}
    BY DEF Below, IsDepth
  <2>2. Attempt(M, Depth, 0)
    BY <2>1 DEF Attempt
  <2> QED
    BY <2>2
<1>2. ASSUME NEW n \in Nat, n \in T PROVE n + 1 \in T
  <2>1. PICK M : Attempt(M, Depth, n)
    BY <1>2
  <2> DEFINE N == [t \in Below(Depth, n + 1) |-> Reads(M, t)]
  <2>2. ASSUME NEW t \in Below(Depth, n + 1) PROVE Reads(M, t) = Reads(N, t)
    <3>1. ASSUME NEW u, PartOf(u, t) PROVE M[u] = N[u]
      <4>1. u \in Below(Depth, n) /\ u \in Below(Depth, n + 1)
        BY <3>1, PartIsNode DEF Below, IsDepth
      <4> QED
        BY <2>1, <4>1 DEF Attempt
    <3> HIDE DEF N
    <3> QED
      BY <3>1, ReadsAgree
  <2>3. N = [t \in Below(Depth, n + 1) |-> Reads(N, t)]
    BY <2>2
  <2> HIDE DEF N
  <2>4. Attempt(N, Depth, n + 1)
    BY <2>3 DEF Attempt
  <2> QED
    BY <2>4
<1> HIDE DEF T
<1>3. \A n \in Nat : n \in T
  BY <1>1, <1>2, SetInduction
<1> QED
  BY <1>3 DEF T

\* Two of them agree on the trees that both give a meaning.
LEMMA AttemptsAgree ==
  ASSUME NEW Depth, IsDepth(Depth), NEW m \in Nat, NEW n \in Nat,
         NEW M, Attempt(M, Depth, m), NEW N, Attempt(N, Depth, n)
  PROVE  \A t \in Below(Depth, m) \cap Below(Depth, n) : M[t] = N[t]
<1> DEFINE B == Below(Depth, m) \cap Below(Depth, n)
           T == {k \in Nat : \A t \in B : Depth[t] < k => M[t] = N[t]}
<1>1. 0 \in T
  BY DEF Below, IsDepth
<1>2. ASSUME NEW k \in Nat, k \in T PROVE k + 1 \in T
  <2> SUFFICES ASSUME NEW t \in B, Depth[t] < k + 1 PROVE M[t] = N[t]
    OBVIOUS
  <2>1. t \in Nodes /\ Depth[t] \in Nat /\ Depth[t] < m /\ Depth[t] < n
    BY DEF Below, IsDepth
  <2>2. ASSUME NEW u, PartOf(u, t) PROVE M[u] = N[u]
    <3>1. u \in Nodes /\ Depth[u] \in Nat /\ Depth[u] < Depth[t]
      BY <2>1, <2>2, PartIsNode DEF IsDepth
    <3>2. u \in B /\ Depth[u] < k
      BY <2>1, <3>1 DEF Below
    <3> QED
      BY <1>2, <3>2
  <2>3. Reads(M, t) = Reads(N, t)
    BY <2>2, ReadsAgree
  <2>4. M[t] = Reads(M, t) /\ N[t] = Reads(N, t)
    BY DEF Attempt
  <2> QED
    BY <2>3, <2>4
<1> HIDE DEF T
<1>3. \A k \in Nat : k \in T
  BY <1>1, <1>2, SetInduction
<1>4. ASSUME NEW t \in B PROVE M[t] = N[t]
  <2>1. Depth[t] + 1 \in Nat /\ Depth[t] < Depth[t] + 1
    BY DEF Below, IsDepth
  <2> QED
    BY <1>3, <2>1 DEF T
<1> QED
  BY <1>4

LEMMA MeaningReads ==
  ASSUME NEW Depth, IsDepth(Depth)
  PROVE  \A t \in Nodes : Meaning[t] = Reads(Meaning, t)
<1> DEFINE A(n) == CHOOSE M : Attempt(M, Depth, n)
           F == [t \in Nodes |-> Reads(A(Depth[t]), t)]
           P(M) == M = [t \in Nodes |-> Reads(M, t)]
<1>1. \A n \in Nat : Attempt(A(n), Depth, n)
  BY AttemptExists, Zenon
<1> HIDE DEF A
<1>2. ASSUME NEW t \in Nodes PROVE Reads(A(Depth[t]), t) = Reads(F, t)
  <2>1. ASSUME NEW u, PartOf(u, t) PROVE A(Depth[t])[u] = F[u]
    <3>1. u \in Nodes /\ Depth[u] \in Nat /\ Depth[t] \in Nat /\ Depth[u] < Depth[t]
      BY <2>1, PartIsNode DEF IsDepth
    <3>2. Attempt(A(Depth[t]), Depth, Depth[t]) /\ Attempt(A(Depth[u]), Depth, Depth[u])
      BY <1>1, <3>1
    <3>3. A(Depth[t])[u] = Reads(A(Depth[t]), u)
      <4>1. u \in Below(Depth, Depth[t])
        BY <3>1 DEF Below
      <4> QED
        BY <3>2, <4>1 DEF Attempt
    <3>4. ASSUME NEW v, PartOf(v, u) PROVE A(Depth[t])[v] = A(Depth[u])[v]
      <4>1. v \in Below(Depth, Depth[t]) \cap Below(Depth, Depth[u])
        BY <3>1, <3>4, PartIsNode DEF Below, IsDepth
      <4> QED
        BY <3>1, <3>2, <4>1, AttemptsAgree
    <3>5. Reads(A(Depth[t]), u) = Reads(A(Depth[u]), u)
      BY <3>4, ReadsAgree
    <3> QED
      BY <3>1, <3>3, <3>5
  <2> HIDE DEF F
  <2> QED
    BY <2>1, ReadsAgree
<1>3. P(F)
  BY <1>2
<1> HIDE DEF F
<1>4. Meaning = CHOOSE M : P(M)
  BY DEF Meaning
<1>5. P(Meaning)
  <2> HIDE DEF P
  <2>1. P(CHOOSE M : P(M))
    BY <1>3, Zenon
  <2> QED
    BY <1>4, <2>1, Zenon
<1> QED
  BY <1>5

-----------------------------------------------------------------------------
(* The rules hold for what the trees mean. *)

Yes == {x \in Nodes \X Nat \X Nat : Meaning[x[1]][x[2]] = [truth |-> TRUE, next |-> x[3]]}
No == {x \in Nodes \X Nat \X Nat : Meaning[x[1]][x[2]] = [truth |-> FALSE, next |-> x[3]]}

LEMMA YesOrNo ==
  ASSUME NEW t \in Nodes, NEW k \in Nat, NEW n \in Nat
  PROVE  /\ <<t, k, n>> \in Yes <=> Meaning[t][k] = [truth |-> TRUE, next |-> n]
         /\ <<t, k, n>> \in No <=> Meaning[t][k] = [truth |-> FALSE, next |-> n]
BY DEF Yes, No

\* A tree that means what a part of it means, from another event on perhaps.
LEMMA Passes ==
  ASSUME NEW t \in Nodes, NEW u, NEW k \in Nat, NEW n \in Nat, Meaning[t][k] = Meaning[u][n]
  PROVE  \A m \in Nat : /\ <<u, n, m>> \in Yes => <<t, k, m>> \in Yes
                        /\ <<u, n, m>> \in No => <<t, k, m>> \in No
BY DEF Yes, No

\* The first operand of a tree.
LEMMA FirstMeans ==
  ASSUME NEW t \in Nodes, t.op \in Waiting, NEW k \in Nat, NEW n \in Nat
  PROVE  /\ <<First(t), k, n>> \in Yes <=> Meaning[First(t)][k] = [truth |-> TRUE, next |-> n]
         /\ <<First(t), k, n>> \in No <=> Meaning[First(t)][k] = [truth |-> FALSE, next |-> n]
BY Parts, YesOrNo

LEMMA Negated ==
  ASSUME NEW a, NEW n, NEW b \in BOOLEAN, a = [truth |-> b, next |-> n]
  PROVE  /\ b = TRUE => [a EXCEPT !.truth = ~@] = [truth |-> FALSE, next |-> n]
         /\ b = FALSE => [a EXCEPT !.truth = ~@] = [truth |-> TRUE, next |-> n]
<1> DEFINE c == ~a.truth
<1>1. (b = TRUE => c = FALSE) /\ (b = FALSE => c = TRUE)
  OBVIOUS
<1>2. [a EXCEPT !.truth = ~@] = [a EXCEPT !.truth = c]
  BY Zenon
<1> HIDE DEF c
<1>3. [a EXCEPT !.truth = c] = [truth |-> c, next |-> n]
  OBVIOUS
<1> QED
  BY <1>1, <1>2, <1>3

\* What a tree means, from what the operand evaluated first means.
LEMMA MeaningOf ==
  ASSUME NEW Depth, IsDepth(Depth), NEW t \in Nodes, NEW k \in Nat, NEW n \in Nat
  PROVE  /\ Meaning[First(t)][k] = [truth |-> TRUE, next |-> n] =>
              /\ t.op = "NOT_OP" => Meaning[t][k] = [truth |-> FALSE, next |-> n]
              /\ t.op \in {"HELP_OP", "OR_OP"} => Meaning[t][k] = [truth |-> TRUE, next |-> n]
              /\ t.op = "AND_OP" => Meaning[t][k] = Meaning[t.right][n]
              /\ t.op = "LIST_OP" =>
                   IF Tail(t.entries) = <<>> THEN Meaning[t][k] = [truth |-> TRUE, next |-> n]
                   ELSE Meaning[t][k] = Meaning[RestOf(t)][n]
         /\ Meaning[First(t)][k] = [truth |-> FALSE, next |-> n] =>
              /\ t.op = "NOT_OP" => Meaning[t][k] = [truth |-> TRUE, next |-> n]
              /\ t.op = "HELP_OP" /\ EventOf(t, n) =>
                   Meaning[t][k] = [truth |-> FALSE, next |-> n + 1]
              /\ t.op \in {"AND_OP", "LIST_OP"} =>
                   Meaning[t][k] = [truth |-> FALSE, next |-> n]
              /\ t.op = "OR_OP" => Meaning[t][k] = Meaning[t.right][n]
<1>1. PICK a : a = Meaning[First(t)][k]
  OBVIOUS
<1>2. PICK r : r = Meaning[t][k]
  OBVIOUS
<1>3. r = Reads(Meaning, t)[k]
  BY <1>2, MeaningReads
<1>4. t.op = "NOT_OP" => r = [a EXCEPT !.truth = ~@]
  BY <1>1, <1>3 DEF Reads
<1>5. t.op = "HELP_OP" =>
        r = IF a.truth THEN a
            ELSE IF EventOf(t, a.next) THEN [a EXCEPT !.next = @ + 1] ELSE NoEvent
  BY <1>1, <1>3 DEF Reads
<1>6. t.op = "AND_OP" => r = IF a.truth THEN Meaning[t.right][a.next] ELSE a
  BY <1>1, <1>3 DEF Reads
<1>7. t.op = "OR_OP" => r = IF a.truth THEN a ELSE Meaning[t.right][a.next]
  BY <1>1, <1>3 DEF Reads
<1>8. t.op = "LIST_OP" =>
        r = IF a.truth /\ Tail(t.entries) # <<>> THEN Meaning[RestOf(t)][a.next] ELSE a
  BY <1>1, <1>3 DEF Reads
<1>9. ASSUME a = [truth |-> TRUE, next |-> n]
      PROVE  /\ t.op = "NOT_OP" => r = [truth |-> FALSE, next |-> n]
             /\ t.op \in {"HELP_OP", "OR_OP"} => r = [truth |-> TRUE, next |-> n]
             /\ t.op = "AND_OP" => r = Meaning[t.right][n]
             /\ t.op = "LIST_OP" =>
                  IF Tail(t.entries) = <<>> THEN r = [truth |-> TRUE, next |-> n]
                  ELSE r = Meaning[RestOf(t)][n]
  <2>1. a.truth /\ a.next = n
    BY <1>9
  <2>2. t.op = "NOT_OP" => r = [truth |-> FALSE, next |-> n]
    BY <1>4, <1>9, Negated
  <2>3. t.op \in {"HELP_OP", "OR_OP"} => r = a
    BY <1>5, <1>7, <2>1
  <2>4. t.op = "AND_OP" => r = Meaning[t.right][n]
    BY <1>6, <2>1
  <2>5. t.op = "LIST_OP" => IF Tail(t.entries) = <<>> THEN r = a ELSE r = Meaning[RestOf(t)][n]
    BY <1>8, <2>1
  <2> QED
    BY <1>9, <2>2, <2>3, <2>4, <2>5
<1>10. ASSUME a = [truth |-> FALSE, next |-> n]
       PROVE  /\ t.op = "NOT_OP" => r = [truth |-> TRUE, next |-> n]
              /\ t.op = "HELP_OP" /\ EventOf(t, n) => r = [truth |-> FALSE, next |-> n + 1]
              /\ t.op \in {"AND_OP", "LIST_OP"} => r = [truth |-> FALSE, next |-> n]
              /\ t.op = "OR_OP" => r = Meaning[t.right][n]
  <2>1. ~a.truth /\ a.next = n
    BY <1>10
  <2>2. t.op = "NOT_OP" => r = [truth |-> TRUE, next |-> n]
    BY <1>4, <1>10, Negated
  <2>3. t.op = "HELP_OP" /\ EventOf(t, n) => r = [truth |-> FALSE, next |-> n + 1]
    <3>1. t.op = "HELP_OP" /\ EventOf(t, n) => r = [a EXCEPT !.next = @ + 1]
      BY <1>5, <2>1
    <3>2. PICK b : b = FALSE
      OBVIOUS
    <3>3. a = [truth |-> b, next |-> n]
      BY <1>10, <3>2
    <3>4. [a EXCEPT !.next = @ + 1] = [truth |-> b, next |-> n + 1]
      BY <3>3
    <3> QED
      BY <3>1, <3>2, <3>4
  <2>4. t.op \in {"AND_OP", "LIST_OP"} => r = a
    BY <1>6, <1>8, <2>1
  <2>5. t.op = "OR_OP" => r = Meaning[t.right][n]
    BY <1>7, <2>1
  <2> QED
    BY <1>10, <2>2, <2>3, <2>4, <2>5
<1> QED
  BY <1>1, <1>2, <1>9, <1>10

LEMMA MeaningRules ==
  ASSUME NEW Depth, IsDepth(Depth), IsSeq(log)
  PROVE  Rules(Yes, No, log)
<1>1. DOMAIN log = 1..Len(log) /\ Len(log) \in Nat
  BY DEF IsSeq
<1>2. LeafRule(Yes, No, log)
  <2> SUFFICES ASSUME NEW k \in 1..Len(log), log[k].at \in Nodes, log[k].at.op \in Leaves
               PROVE  <<log[k].at, k, k + 1>> \in IF log[k].did \in Affirmed THEN Yes ELSE No
    BY DEF LeafRule
  <2> DEFINE t == log[k].at
             b == log[k].did \in Affirmed
  <2>1. k \in Nat /\ k + 1 \in Nat /\ EventOf(t, k)
    BY <1>1 DEF EventOf
  <2>2. Meaning[t][k] = [truth |-> b, next |-> k + 1]
    <3>1. Reads(Meaning, t)[k] = [truth |-> b, next |-> k + 1]
      BY <2>1 DEF Reads, Leaves
    <3> QED
      BY <2>1, <3>1, MeaningReads
  <2>3. b = TRUE \/ b = FALSE
    OBVIOUS
  <2> SUFFICES <<t, k, k + 1>> \in IF b THEN Yes ELSE No
    OBVIOUS
  <2>4. t \in Nodes
    OBVIOUS
  <2> HIDE DEF b, t
  <2>5. Meaning[t][k] = [truth |-> TRUE, next |-> k + 1] => <<t, k, k + 1>> \in Yes
    BY <2>1, <2>4, YesOrNo
  <2>6. Meaning[t][k] = [truth |-> FALSE, next |-> k + 1] => <<t, k, k + 1>> \in No
    BY <2>1, <2>4, YesOrNo
  <2> QED
    BY <2>2, <2>3, <2>5, <2>6
<1>3. ASSUME NEW t \in Nodes, NEW k \in Nat, NEW n \in Nat, t.op \in Waiting
      PROVE  /\ <<First(t), k, n>> \in Yes =>
                  /\ t.op = "NOT_OP" => <<t, k, n>> \in No
                  /\ t.op \in {"HELP_OP", "OR_OP"} => <<t, k, n>> \in Yes
                  /\ t.op = "LIST_OP" /\ Tail(t.entries) = <<>> => <<t, k, n>> \in Yes
             /\ <<First(t), k, n>> \in No =>
                  /\ t.op = "NOT_OP" => <<t, k, n>> \in Yes
                  /\ t.op = "HELP_OP" /\ EventOf(t, n) => <<t, k, n + 1>> \in No
                  /\ t.op \in {"AND_OP", "LIST_OP"} => <<t, k, n>> \in No
  <2>1. /\ Meaning[t][k] = [truth |-> TRUE, next |-> n] => <<t, k, n>> \in Yes
        /\ Meaning[t][k] = [truth |-> FALSE, next |-> n] => <<t, k, n>> \in No
    BY YesOrNo
  <2>2. Meaning[t][k] = [truth |-> FALSE, next |-> n + 1] => <<t, k, n + 1>> \in No
    <3>1. n + 1 \in Nat
      OBVIOUS
    <3> QED
      BY <3>1, YesOrNo
  <2>3. /\ <<First(t), k, n>> \in Yes => Meaning[First(t)][k] = [truth |-> TRUE, next |-> n]
        /\ <<First(t), k, n>> \in No => Meaning[First(t)][k] = [truth |-> FALSE, next |-> n]
    BY <1>3, FirstMeans
  <2> QED
    BY <2>1, <2>2, <2>3, MeaningOf
<1>4. ASSUME NEW t \in Nodes, NEW k \in Nat, NEW n \in Nat, t.op \in Waiting
      PROVE  /\ <<First(t), k, n>> \in Yes =>
                  /\ t.op = "AND_OP" => Meaning[t][k] = Meaning[t.right][n]
                  /\ t.op = "LIST_OP" /\ Tail(t.entries) # <<>> =>
                       Meaning[t][k] = Meaning[RestOf(t)][n]
             /\ <<First(t), k, n>> \in No /\ t.op = "OR_OP" =>
                  Meaning[t][k] = Meaning[t.right][n]
  <2>1. /\ <<First(t), k, n>> \in Yes => Meaning[First(t)][k] = [truth |-> TRUE, next |-> n]
        /\ <<First(t), k, n>> \in No => Meaning[First(t)][k] = [truth |-> FALSE, next |-> n]
    BY <1>4, FirstMeans
  <2> QED
    BY <2>1, MeaningOf
<1>5. NotRule(Yes, No)
  <2> SUFFICES ASSUME NEW t \in Nodes, NEW k \in Nat, NEW n \in Nat, t.op = "NOT_OP"
               PROVE  /\ <<First(t), k, n>> \in Yes => <<t, k, n>> \in No
                      /\ <<First(t), k, n>> \in No => <<t, k, n>> \in Yes
    BY DEF NotRule, First
  <2> QED
    BY <1>3 DEF Waiting
<1>6. HelpRule(Yes, No, log)
  <2> SUFFICES ASSUME NEW t \in Nodes, NEW k \in Nat, NEW n \in Nat, t.op = "HELP_OP"
               PROVE  /\ <<First(t), k, n>> \in Yes => <<t, k, n>> \in Yes
                      /\ <<First(t), k, n>> \in No /\ n \in 1..Len(log) /\ log[n].at = t =>
                           <<t, k, n + 1>> \in No
    BY DEF HelpRule, First
  <2>1. n \in 1..Len(log) /\ log[n].at = t => EventOf(t, n)
    BY <1>1 DEF EventOf
  <2> QED
    BY <1>3, <2>1 DEF Waiting
<1>7. AndRule(Yes, No)
  <2> SUFFICES ASSUME NEW t \in Nodes, NEW k \in Nat, NEW n \in Nat, t.op = "AND_OP"
               PROVE  /\ <<First(t), k, n>> \in No => <<t, k, n>> \in No
                      /\ <<First(t), k, n>> \in Yes => \A m \in Nat :
                           /\ <<t.right, n, m>> \in Yes => <<t, k, m>> \in Yes
                           /\ <<t.right, n, m>> \in No => <<t, k, m>> \in No
    BY DEF AndRule, First
  <2>1. <<First(t), k, n>> \in Yes => Meaning[t][k] = Meaning[t.right][n]
    BY <1>4 DEF Waiting
  <2>2. Meaning[t][k] = Meaning[t.right][n] => \A m \in Nat :
          /\ <<t.right, n, m>> \in Yes => <<t, k, m>> \in Yes
          /\ <<t.right, n, m>> \in No => <<t, k, m>> \in No
    BY Passes
  <2> QED
    BY <1>3, <2>1, <2>2 DEF Waiting
<1>8. OrRule(Yes, No)
  <2> SUFFICES ASSUME NEW t \in Nodes, NEW k \in Nat, NEW n \in Nat, t.op = "OR_OP"
               PROVE  /\ <<First(t), k, n>> \in Yes => <<t, k, n>> \in Yes
                      /\ <<First(t), k, n>> \in No => \A m \in Nat :
                           /\ <<t.right, n, m>> \in Yes => <<t, k, m>> \in Yes
                           /\ <<t.right, n, m>> \in No => <<t, k, m>> \in No
    BY DEF OrRule, First
  <2>1. <<First(t), k, n>> \in No => Meaning[t][k] = Meaning[t.right][n]
    BY <1>4 DEF Waiting
  <2>2. Meaning[t][k] = Meaning[t.right][n] => \A m \in Nat :
          /\ <<t.right, n, m>> \in Yes => <<t, k, m>> \in Yes
          /\ <<t.right, n, m>> \in No => <<t, k, m>> \in No
    BY Passes
  <2> QED
    BY <1>3, <2>1, <2>2 DEF Waiting
<1>9. ListRule(Yes, No)
  <2> SUFFICES ASSUME NEW t \in Nodes, NEW k \in Nat, NEW n \in Nat, t.op = "LIST_OP"
               PROVE  /\ <<First(t), k, n>> \in No => <<t, k, n>> \in No
                      /\ <<First(t), k, n>> \in Yes =>
                           IF Tail(t.entries) = <<>> THEN <<t, k, n>> \in Yes
                           ELSE \A m \in Nat :
                                  /\ <<RestOf(t), n, m>> \in Yes => <<t, k, m>> \in Yes
                                  /\ <<RestOf(t), n, m>> \in No => <<t, k, m>> \in No
    BY DEF ListRule
  <2>1. <<First(t), k, n>> \in Yes /\ Tail(t.entries) # <<>> => Meaning[t][k] = Meaning[RestOf(t)][n]
    BY <1>4 DEF Waiting
  <2>2. Meaning[t][k] = Meaning[RestOf(t)][n] => \A m \in Nat :
          /\ <<RestOf(t), n, m>> \in Yes => <<t, k, m>> \in Yes
          /\ <<RestOf(t), n, m>> \in No => <<t, k, m>> \in No
    BY Passes
  <2> QED
    BY <1>3, <2>1, <2>2 DEF Waiting
<1> QED
  BY <1>2, <1>5, <1>6, <1>7, <1>8, <1>9 DEF Rules

\* For lists of actions of any length and depth, and whatever their leaves do,
\* the walk of check_syn_func returns to execute_list (cli_new.c) what the list
\* means, and has run, set, compared and printed what that meaning calls for,
\* nothing else, in its order.  The hypothesis is that trees are finite: every
\* node has a depth, greater than that of the nodes it is made of.
THEOREM WalkMeans ==
  ASSUME NEW Depth, IsDepth(Depth)
  PROVE  Spec => []ReturnsMeaning
<1>1. (\A yes, no : WalkInv(yes, no)) => ReturnsMeaning
  <2> SUFFICES ASSUME \A yes, no : WalkInv(yes, no), pc = "return", stack = <<>>
               PROVE  Meaning[list][1] = [truth |-> ret, next |-> Len(log) + 1]
    BY DEF ReturnsMeaning
  <2>1. WalkInv(Yes, No)
    OBVIOUS
  <2>2. WalkType /\ IsSeq(log) /\ Len(log) \in Nat
    BY <2>1 DEF WalkInv, WalkType, IsSeq
  <2>3. PICK s : Walking(Yes, No, s)
    BY <2>1, <2>2, MeaningRules DEF WalkInv
  <2>4. Len(stack) = 0 /\ Called(1) = list
    BY DEF Called
  <2>5. <<list, 1, Len(log) + 1>> \in IF ret THEN Yes ELSE No
    BY <2>3, <2>4 DEF Walking
  <2>6. CASE ret
    <3>1. Meaning[list][1] = [truth |-> TRUE, next |-> Len(log) + 1]
      BY <2>5, <2>6 DEF Yes
    <3> QED
      BY <2>2, <2>6, <3>1 DEF WalkType
  <2>7. CASE ~ret
    <3>1. Meaning[list][1] = [truth |-> FALSE, next |-> Len(log) + 1]
      BY <2>5, <2>7 DEF No
    <3> QED
      BY <2>2, <2>7, <3>1 DEF WalkType
  <2> QED
    BY <2>6, <2>7
<1> QED
  BY <1>1, WalkDerives, PTL

-----------------------------------------------------------------------------
(* The connection to configd. *)

\* Connected with where each way of calling the program leads: a walk is under
\* way only in cliexpr, which connects first, and a string with references is
\* expanded only after process_string has connected.
ConnInv ==
  /\ IsSeq(log) /\ called \in Calls
  /\ pc # "main" => in_commit
  /\ pc \notin {"main", "exit"} => called \notin {"help", "unusable"}
  /\ log # <<>> => called # "help"
  /\ pc \in {"parse", "char2val", "eval", "return"} => called = "cliexpr" /\ connected
  /\ pc = "action" /\ called = "cliexpr" => connected
  /\ pc = "expand" /\ called \notin {"cmd", "script"} => connected
  /\ pc = "return" => log # <<>>
  /\ Connected

LEMMA ConnStep == ConnInv /\ [Next]_vars => ConnInv'
<1> SUFFICES ASSUME ConnInv, [Next]_vars PROVE ConnInv'
  OBVIOUS
<1> USE DEF program, walk
<1>1. IsSeq(log) /\ \A e : IsSeq(Append(log, e)) /\ Append(log, e) # <<>>
  BY LogGrows DEF ConnInv
<1>2. CASE UNCHANGED vars
  BY <1>1, <1>2 DEF vars, ConnInv, Connected
<1>3. CASE Main \/ connect
  BY <1>1, <1>3 DEF Main, connect, Go, Exit, ConnInv, Connected, Calls
<1>4. CASE parse_def \/ execute_list
  BY <1>1, <1>4 DEF parse_def, execute_list, Go, Exit, ConnInv, Connected
<1>5. CASE get_action_type
  <2>1. /\ UNCHANGED <<program, walk>> /\ pc = "action"
        /\ Go(AfterAction) \/ Exit("failure")
    BY <1>5 DEF get_action_type
  <2>2. CASE Go(AfterAction)
    BY <1>1, <2>1, <2>2 DEF AfterAction, Go, ConnInv, Connected, Calls
  <2>3. CASE Exit("failure")
    BY <1>1, <2>1, <2>3 DEF Exit, ConnInv, Connected
  <2> QED
    BY <2>1, <2>2, <2>3
<1>6. CASE process_string
  <2>1. /\ pc = "expand" /\ pc' = "exit" /\ UNCHANGED program
        /\ \/ exit' = "failure" /\ log' = log
           \/ \E e : log' = Append(log, e)
    BY <1>6 DEF process_string, Exit, Did
  <2> QED
    BY <1>1, <2>1 DEF ConnInv, Connected
<1>7. CASE Finish
  BY <1>1, <1>7 DEF Finish, Exit, ConnInv, Connected
<1>8. CASE EvalList \/ EvalLeft
  <2>1. pc = "eval" /\ pc' = "eval" /\ UNCHANGED <<program, log, exit>>
    BY <1>8 DEF EvalList, EvalLeft, Evaluating, Go, ConnInv
  <2> QED
    BY <1>1, <2>1 DEF ConnInv, Connected
<1>9. CASE PopStep
  <2>1. /\ pc = "return" /\ pc' \in {"eval", "return"} /\ UNCHANGED <<program, exit>>
        /\ log' = log \/ \E e : log' = Append(log, e)
    <3>1. CASE ReturnToList \/ ReturnToNot
      BY <3>1 DEF ReturnToList, ReturnToNot, Returning, Return, Instead, Go
    <3>2. CASE ReturnToAnd \/ ReturnToOr
      BY <3>2 DEF ReturnToAnd, ReturnToOr, Returning, Return, Instead, Go
    <3>3. CASE ReturnToHelp
      <4>1. /\ Returning("HELP_OP") /\ Return(ret) /\ UNCHANGED program
            /\ log' = log \/ \E e : log' = Append(log, e)
        BY <3>3, Zenon DEF ReturnToHelp
      <4> QED
        BY <4>1 DEF Returning, Return, Go
    <3> QED
      BY <1>9, <3>1, <3>2, <3>3 DEF PopStep
  <2>2. called = "cliexpr" /\ connected /\ in_commit /\ log # <<>>
    BY <2>1 DEF ConnInv
  <2>3. log' # <<>> /\ IsSeq(log')
    BY <1>1, <2>1, <2>2, Zenon
  <2> QED
    BY <2>1, <2>2, <2>3 DEF ConnInv, Connected
<1>10. CASE LeafStep
  <2>1. /\ pc = "eval" /\ pc' \in {"return", "exit"} /\ UNCHANGED program
        /\ \E e : log' = Append(log, e)
    BY <1>10, LeafCases
  <2> QED
    BY <1>1, <2>1 DEF ConnInv, Connected
<1> QED
  BY <1>2, <1>3, <1>4, <1>5, <1>6, <1>7, <1>8, <1>9, <1>10 DEF Next, Step, Done, PopStep, LeafStep

\* Whatever lists the templates hold, the program starts no walk and expands no
\* reference without a connection (main and process_string in cliexec.cpp), and
\* unless it is asked for its usage it succeeds only after it has done something.
THEOREM StaysConnected == Spec => []Connected
<1>1. Init => ConnInv
  BY EmptyLog DEF Init, ConnInv, Connected
<1>2. ConnInv => Connected
  BY DEF ConnInv
<1> QED
  BY <1>1, <1>2, ConnStep, PTL DEF Spec

-----------------------------------------------------------------------------
(* References, VarRef: an action uses them at its leaves. *)

\* A step leaves the path alone, begins a reference, or puts the path back.
LEMMA RefSteps ==
  ASSUME RefNext
  PROVE  \/ UNCHANGED <<ref_pc, cfg_path, start>>
         \/ ref_pc' \in {"get", "set"}
         \/ cfg_path' = start' /\ start' = start
<1> USE DEF args
<1>1. ASSUME NEW r, NEW from_active, cstore_get_var_ref(r, from_active)
      PROVE  ref_pc' \in {"get", "set"}
  BY <1>1 DEF cstore_get_var_ref
<1>2. ASSUME NEW r, cstore_set_var_ref(r)
      PROVE  ref_pc' \in {"get", "set"}
  BY <1>2 DEF cstore_set_var_ref
<1>3a. ASSUME NEW r, GetRefused(r)
       PROVE  UNCHANGED <<ref_pc, cfg_path, start>>
  BY <1>3a DEF GetRefused, Call
<1>3. CASE Edit \/ PathDone \/ LeafValues
  BY <1>3 DEF Edit, PathDone, LeafValues
<1>4. CASE \E comps : Component(comps)
  BY <1>4 DEF Component
<1>5. CASE \/ RefAt \/ RefDot \/ RefDotDot \/ RefAtAt
           \/ RefText \/ TemplateFails \/ ChildrenFail
  <2>1. \E comps : Component(comps)
    BY <1>5 DEF RefAt, RefDot, RefDotDot, RefAtAt, RefText, TemplateFails, ChildrenFail, Resolving
  <2> QED
    BY <1>4, <2>1
<1>6. CASE GetReturns \/ SetFails \/ SetReturns
  BY <1>6 DEF GetReturns, SetFails, SetReturns
<1>7. CASE RefDone
  BY <1>7 DEF RefDone, ref_vars, state
<1> QED
  BY <1>1, <1>2, <1>3a, <1>3, <1>5, <1>6, <1>7 DEF RefNext

\* However a reference ends, the global path is the node of the action again
\* (cstore_get_var_ref and cstore_set_var_ref in cstore-c.cpp): the invariant
\* carries over a whole reference because each of them puts it back on every
\* way out, the ones after a failed request included.
THEOREM PathIsPutBack == RefSpec => []PathPutBack
<1>1. RefInit => PathPutBack
  BY DEF RefInit, PathPutBack
<1>2. PathPutBack /\ [RefNext]_ref_vars => PathPutBack'
  <2>1. CASE UNCHANGED ref_vars
    <3>1. UNCHANGED <<ref_pc, start, cfg_path>>
      BY <2>1 DEF ref_vars, args, state
    <3> QED
      BY <3>1 DEF PathPutBack
  <2>2. CASE RefNext
    BY <2>2, RefSteps DEF PathPutBack
  <2> QED
    BY <2>1, <2>2
<1> QED
  BY <1>1, <1>2, PTL DEF RefSpec

-----------------------------------------------------------------------------
(* The schema is a tree: a path has one template.                          *)

LEMMA FrontFacts ==
  ASSUME NEW S, NEW s \in Seq(S), s # <<>>
  PROVE  /\ Front(s) \in Seq(S) /\ Len(Front(s)) = Len(s) - 1 /\ Len(s) - 1 \in Nat
         /\ \A i \in 1..Len(s) - 1 : Front(s)[i] = s[i]
         /\ Last(s) \in S /\ s = Append(Front(s), Last(s))
<1> DEFINE n == Len(s) - 1
           f == SubSeq(s, 1, n)
<1>1. n \in Nat /\ Len(s) = n + 1 /\ Front(s) = f
  BY DEF Front
<1>2. f \in Seq(S) /\ Len(f) = n /\ \A i \in 1..n : f[i] = s[i]
  <2> HIDE DEF n
  <2>1. \A i \in 1..n : s[i] \in S
    BY <1>1
  <2>2. f = [i \in 1..n |-> s[i]]
    BY <1>1
  <2> QED
    BY <1>1, <2>1, <2>2
<1>3. Last(s) = s[n + 1] /\ s[n + 1] \in S
  BY <1>1 DEF Last
<1> DEFINE a == Append(f, s[n + 1])
<1> HIDE DEF n, f
<1>4. a \in Seq(S) /\ Len(a) = n + 1 /\ a[n + 1] = s[n + 1] /\ \A i \in 1..n : a[i] = f[i]
  BY <1>1, <1>2, <1>3
<1> HIDE DEF a
<1>5. \A i \in 1..n + 1 : a[i] = s[i]
  BY <1>1, <1>2, <1>4
<1>6. a = s
  BY <1>1, <1>4, <1>5
<1> QED
  BY <1>1, <1>2, <1>3, <1>6 DEF n, a

LEMMA SchemaRules ==
  ASSUME NEW s \in DOMAIN Schema
  PROVE  /\ s \in Seq(STRING) /\ Len(s) \in Nat /\ Len(s) > 0 /\ DOMAIN s = 1..Len(s)
         /\ Schema[s] \in {"container", "tag", "leaf", "multi"}
         /\ \A i \in 1..Len(s) : s[i] = "*" => i > 1 /\ i < Len(s) /\ s[i - 1] # "*"
         /\ \A i \in 1..Len(s) : s[i] # "*" /\ i < Len(s) =>
              /\ SubSeq(s, 1, i) \in DOMAIN Schema
              /\ Schema[SubSeq(s, 1, i)] = IF s[i + 1] = "*" THEN "tag" ELSE "container"
<1>1. s \in Seq(STRING) /\ s # <<>>
  BY SchemaAssumption
<1>2. Len(s) \in Nat /\ Len(s) > 0 /\ DOMAIN s = 1..Len(s)
  BY <1>1
<1>3. Schema[s] \in {"container", "tag", "leaf", "multi"}
  BY SchemaAssumption
<1> QED
  BY <1>1, <1>2, <1>3, SchemaAssumption, Zenon

\* Two templates below the same one both have a tag value next, or neither has.
LEMMA StarAgrees ==
  ASSUME NEW s \in DOMAIN Schema, NEW t \in DOMAIN Schema, NEW k \in Nat,
         1 <= k, k <= Len(s), k <= Len(t), \A i \in 1..k - 1 : s[i] = t[i], s[k] = "*"
  PROVE  t[k] = "*"
<1>1. k > 1 /\ s[k - 1] # "*"
  BY SchemaRules
<1>2. k - 1 \in 1..Len(s) /\ k - 1 \in 1..Len(t) /\ k - 1 < Len(s) /\ k - 1 < Len(t)
      /\ (k - 1) + 1 = k
  BY <1>1, SchemaRules
<1>3. t[k - 1] # "*"
  BY <1>1, <1>2
<1>4. SubSeq(s, 1, k - 1) = SubSeq(t, 1, k - 1)
  BY <1>2, SchemaRules
<1>5. Schema[SubSeq(s, 1, k - 1)] = "tag"
  BY <1>1, <1>2, SchemaRules
<1>6. Schema[SubSeq(t, 1, k - 1)] = IF t[k] = "*" THEN "tag" ELSE "container"
  BY <1>2, <1>3, SchemaRules
<1> QED
  BY <1>4, <1>5, <1>6

\* Templates that both fit the first n components of a path agree on them.
LEMMA SchemaAgrees ==
  ASSUME NEW s \in DOMAIN Schema, NEW t \in DOMAIN Schema, NEW p, NEW n \in Nat,
         n <= Len(s), n <= Len(t),
         \A i \in 1..n : s[i] \in {"*", p[i]} /\ t[i] \in {"*", p[i]}
  PROVE  \A i \in 1..n : s[i] = t[i]
<1> DEFINE D == {i \in 1..n : s[i] # t[i]}
<1>1. SUFFICES ASSUME D # {} PROVE FALSE
  OBVIOUS
<1>2. PICK k \in D : \A i \in D : k <= i
  <2>1. D \subseteq Nat
    OBVIOUS
  <2> QED
    BY <1>1, <2>1, LeastElement
<1>3. k \in 1..n /\ s[k] # t[k] /\ k \in Nat
  BY <1>2
<1>4. \A i \in 1..k - 1 : s[i] = t[i]
  BY <1>2, <1>3
<1>5. 1 <= k /\ k <= Len(s) /\ k <= Len(t)
  BY <1>3, SchemaRules
<1>6. s[k] = "*" \/ t[k] = "*"
  BY <1>3
<1>7. CASE s[k] = "*"
  BY <1>3, <1>4, <1>5, <1>7, StarAgrees
<1>8. CASE t[k] = "*"
  <2>1. \A i \in 1..k - 1 : t[i] = s[i]
    BY <1>4
  <2> QED
    BY <1>3, <2>1, <1>5, <1>8, StarAgrees
<1> QED
  BY <1>6, <1>7, <1>8

LEMMA OneTemplate ==
  ASSUME NEW p, NEW s \in DOMAIN Schema, NEW t \in DOMAIN Schema, Matches(s, p), Matches(t, p)
  PROVE  s = t
<1>1. Len(s) = Len(t) /\ DOMAIN s = 1..Len(s) /\ DOMAIN t = 1..Len(s) /\ Len(s) \in Nat
  BY SchemaRules DEF Matches
<1>2. \A i \in 1..Len(s) : s[i] \in {"*", p[i]} /\ t[i] \in {"*", p[i]}
  BY <1>1 DEF Matches
<1>3. \A i \in 1..Len(s) : s[i] = t[i]
  <2> DEFINE n == Len(s)
  <2>1. n \in Nat /\ n <= Len(s) /\ n <= Len(t)
    BY <1>1
  <2>2. \A i \in 1..n : s[i] \in {"*", p[i]} /\ t[i] \in {"*", p[i]}
    BY <1>2
  <2> HIDE DEF n
  <2>3. \A i \in 1..n : s[i] = t[i]
    BY <2>1, <2>2, SchemaAgrees
  <2> QED
    BY <2>3 DEF n
<1>4. s \in Seq(STRING) /\ t \in Seq(STRING)
  BY SchemaRules
<1> QED
  BY <1>1, <1>3, <1>4

LEMMA KindsOfNode ==
  ASSUME NEW p, NEW s \in DOMAIN Schema, Matches(s, p)
  PROVE  NodeKinds(p) = {Schema[s]}
<1>1. {t \in DOMAIN Schema : Matches(t, p)} = {s}
  BY OneTemplate
<1> QED
  BY <1>1 DEF NodeKinds

\* The template of a path fits the beginnings of the path.
LEMMA MatchesPrefix ==
  ASSUME NEW s \in Seq(STRING), NEW p \in Seq(STRING), Matches(s, p), NEW k \in 0..Len(s)
  PROVE  Matches(SubSeq(s, 1, k), SubSeq(p, 1, k))
<1>1. Len(s) = Len(p) /\ \A i \in 1..Len(s) : s[i] \in {"*", p[i]}
  BY DEF Matches
<1>2. /\ Len(SubSeq(s, 1, k)) = k /\ Len(SubSeq(p, 1, k)) = k
      /\ DOMAIN SubSeq(s, 1, k) = 1..k
      /\ \A i \in 1..k : SubSeq(s, 1, k)[i] = s[i] /\ SubSeq(p, 1, k)[i] = p[i]
  BY <1>1
<1> QED
  BY <1>1, <1>2 DEF Matches

\* A beginning of a path that the template of the path does not end in a tag
\* value with fits the template cut to its length, and no other.
LEMMA TemplateOfPrefix ==
  ASSUME NEW s \in DOMAIN Schema, NEW p \in Seq(STRING), Matches(s, p),
         NEW k \in 0..Len(s), NEW t \in DOMAIN Schema, Matches(t, SubSeq(p, 1, k))
  PROVE  t = SubSeq(s, 1, k) /\ k > 0 /\ s[k] # "*"
<1>1. s \in Seq(STRING) /\ Len(s) = Len(p) /\ Len(s) \in Nat /\ DOMAIN s = 1..Len(s)
  BY SchemaRules DEF Matches
<1>2. Len(SubSeq(p, 1, k)) = k /\ \A i \in 1..k : SubSeq(p, 1, k)[i] = p[i]
  BY <1>1
<1>3. t \in Seq(STRING) /\ Len(t) = k /\ DOMAIN t = 1..k /\ k > 0
  BY <1>2, SchemaRules DEF Matches
<1>4. \A i \in 1..k : s[i] \in {"*", p[i]} /\ t[i] \in {"*", p[i]}
  <2>1. \A i \in 1..Len(s) : s[i] \in {"*", p[i]}
    BY <1>1 DEF Matches
  <2>2. \A i \in 1..k : t[i] \in {"*", SubSeq(p, 1, k)[i]}
    BY <1>3 DEF Matches
  <2>3. \A i \in 1..k : i \in 1..Len(s)
    BY <1>1
  <2> QED
    BY <1>2, <2>1, <2>2, <2>3
<1>5. \A i \in 1..k : s[i] = t[i]
  <2>1. k \in Nat /\ k <= Len(s) /\ k <= Len(t)
    BY <1>1, <1>3
  <2> QED
    BY <2>1, <1>4, SchemaAgrees
<1>6. t = SubSeq(s, 1, k)
  BY <1>1, <1>3, <1>5
<1>7. t[k] # "*"
  BY <1>3, SchemaRules
<1> QED
  BY <1>3, <1>5, <1>6, <1>7

\* A node is not the value of another.
LEMMA NodeIsNoValue ==
  ASSUME NEW s \in DOMAIN Schema, NEW p \in Seq(STRING), Matches(s, p)
  PROVE  p # <<>> /\ ValueKinds(p) = {}
<1>1. Len(s) = Len(p) /\ Len(s) \in Nat /\ Len(s) > 0 /\ DOMAIN s = 1..Len(s)
  BY SchemaRules DEF Matches
<1>2. ASSUME NEW t \in DOMAIN Schema, Matches(t, Front(p)) PROVE Schema[t] = "container"
  <2> DEFINE k == Len(s) - 1
  <2>1. k \in 0..Len(s) /\ Front(p) = SubSeq(p, 1, k)
    BY <1>1 DEF Front
  <2>2. t = SubSeq(s, 1, k) /\ k > 0 /\ s[k] # "*"
    BY <1>2, <2>1, TemplateOfPrefix
  <2>3. k \in 1..Len(s) /\ k < Len(s) /\ k + 1 = Len(s)
    BY <1>1, <2>2
  <2>4. s[k + 1] # "*"
    BY <1>1, <2>3, SchemaRules
  <2> HIDE DEF k
  <2> QED
    BY <2>2, <2>3, <2>4, SchemaRules
<1>3. NodeKinds(Front(p)) \subseteq {"container"}
  BY <1>2 DEF NodeKinds
<1> QED
  BY <1>1, <1>3 DEF ValueKinds

\* What the code learns from the template of a node.
LEMMA NodeFacts ==
  ASSUME NEW s \in DOMAIN Schema, NEW p \in Seq(STRING), Matches(s, p)
  PROVE  /\ Got(p) /\ ~IsValue(p) /\ p # <<>>
         /\ IsTypeless(p) <=> Schema[s] = "container"
         /\ IsTagNode(p) <=> Schema[s] = "tag"
         /\ IsLeafNode(p) <=> Schema[s] \in {"leaf", "multi"}
         /\ Is("multi", p) <=> Schema[s] = "multi"
         /\ NodeKinds(p) = {Schema[s]}
<1>1. NodeKinds(p) = {Schema[s]}
  BY KindsOfNode
<1>2. ValueKinds(p) = {} /\ p # <<>>
  BY NodeIsNoValue
<1> QED
  BY <1>1, <1>2 DEF Got, IsValue, IsTypeless, IsTagNode, IsLeafNode, Is

\* The empty path is nothing.
LEMMA RootFacts == ~Got(<<>>) /\ ~IsTagNode(<<>>) /\ ~IsTagValue(<<>>)
<1>1. ASSUME NEW t \in DOMAIN Schema PROVE ~Matches(t, <<>>)
  <2>1. Len(t) > 0
    BY SchemaRules
  <2>2. Len(<<>>) = 0
    OBVIOUS
  <2> QED
    BY <2>1, <2>2 DEF Matches
<1>2. NodeKinds(<<>>) = {}
  BY <1>1 DEF NodeKinds
<1>3. ValueKinds(<<>>) = {}
  BY DEF ValueKinds
<1> QED
  BY <1>2, <1>3 DEF Got, IsTagNode, IsTagValue, IsValue, Is

\* From a node the code goes up to the node that the schema has above it.
LEMMA ParentFacts ==
  ASSUME NEW s \in DOMAIN Schema, NEW p \in Seq(STRING), Matches(s, p)
  PROVE  /\ Len(p) > 1 => Got(Front(p))
         /\ Len(s) > 1 /\ s[Len(s) - 1] = "*" => Parent(p) = Front(Front(p))
         /\ ~(Len(s) > 1 /\ s[Len(s) - 1] = "*") => Parent(p) = Front(p)
<1>1. s \in Seq(STRING) /\ Len(s) = Len(p) /\ Len(s) \in Nat /\ Len(s) > 0
  BY SchemaRules DEF Matches
<1> DEFINE k == Len(s) - 1
           q == SubSeq(p, 1, k)
<1>2. k \in 0..Len(s) /\ k < Len(s) /\ Front(p) = q /\ q \in Seq(STRING) /\ Len(q) = k
  BY <1>1 DEF Front
<1>3. CASE Len(s) = 1
  <2>1. q = <<>>
    BY <1>1, <1>2, <1>3
  <2> HIDE DEF q
  <2> QED
    BY <1>1, <1>2, <1>3, <2>1, RootFacts DEF Parent
<1>4. CASE Len(s) > 1 /\ s[k] = "*"
  <2>1. k \in 1..Len(s)
    BY <1>1, <1>4
  <2>2. k > 1 /\ s[k - 1] # "*"
    BY <1>4, <2>1, SchemaRules
  <2> DEFINE u == SubSeq(s, 1, k - 1)
             v == SubSeq(p, 1, k - 1)
  <2>3. k - 1 \in 1..Len(s) /\ k - 1 < Len(s) /\ (k - 1) + 1 = k /\ k - 1 \in 0..Len(s)
    BY <1>1, <2>1, <2>2
  <2>4. u \in DOMAIN Schema /\ Schema[u] = "tag"
    BY <1>4, <2>2, <2>3, SchemaRules
  <2>5. Matches(u, v)
    BY <1>1, <2>3, MatchesPrefix
  <2>6. Front(q) = v
    BY <1>1, <1>2, <2>2, <2>3 DEF Front
  <2>7. NodeKinds(v) = {"tag"}
    <3> HIDE DEF u, v
    <3> QED
      BY <2>4, <2>5, KindsOfNode
  <2>8. q # <<>>
    <3> HIDE DEF q, k
    <3>1. Len(q) > 1
      BY <1>2, <2>2
    <3> QED
      BY <3>1
  <2>9. ValueKinds(q) = {"tag"}
    BY <2>6, <2>7, <2>8 DEF ValueKinds
  <2>10. NodeKinds(q) = {}
    <3>1. ASSUME NEW t \in DOMAIN Schema, Matches(t, q) PROVE FALSE
      <4> HIDE DEF k
      <4> QED
      BY <1>2, <1>4, <3>1, TemplateOfPrefix
    <3> QED
      BY <3>1 DEF NodeKinds
  <2> HIDE DEF q, k
  <2>11. IsTagValue(q) /\ Got(q)
    BY <2>9, <2>10 DEF IsTagValue, IsValue, Is, Got
  <2> QED
    BY <1>2, <1>4, <2>11 DEF Parent, k
<1>5. CASE Len(s) > 1 /\ s[k] # "*"
  <2>1. k \in 1..Len(s)
    BY <1>1, <1>5
  <2> DEFINE u == SubSeq(s, 1, k)
  <2>2. u \in DOMAIN Schema
    BY <1>2, <1>5, <2>1, SchemaRules
  <2>3. Matches(u, q)
    BY <1>1, <1>2, MatchesPrefix
  <2> HIDE DEF u, q, k
  <2>4. Got(q) /\ ~IsTagValue(q)
    BY <1>2, <2>2, <2>3, NodeFacts DEF IsTagValue
  <2> QED
    BY <1>2, <1>5, <2>4 DEF Parent, k
<1> QED
  BY <1>1, <1>3, <1>4, <1>5

-----------------------------------------------------------------------------
(* A node of the schema, in the configuration.                             *)

\* The tag values that a template needs are on the path.
Covers(st, s) == \A i \in 1..Len(s) : s[i] = "*" => i <= Len(st)

LEMMA NodeAtFacts ==
  ASSUME NEW st \in Seq(STRING), NEW s \in Seq(STRING), Covers(st, s)
  PROVE  /\ NodeAt(st, s) \in Seq(STRING) /\ Len(NodeAt(st, s)) = Len(s)
         /\ Matches(s, NodeAt(st, s))
         /\ \A i \in 1..Len(s) : NodeAt(st, s)[i] = IF s[i] = "*" THEN st[i] ELSE s[i]
<1>1. DOMAIN s = 1..Len(s) /\ Len(s) \in Nat /\ \A i \in 1..Len(s) : s[i] \in STRING
  OBVIOUS
<1>2. \A i \in 1..Len(s) : s[i] = "*" => st[i] \in STRING
  <2>1. Len(st) \in Nat /\ \A i \in 1..Len(st) : st[i] \in STRING
    OBVIOUS
  <2> QED
    BY <1>1, <2>1 DEF Covers
<1>3. NodeAt(st, s) = [i \in 1..Len(s) |-> IF s[i] = "*" THEN st[i] ELSE s[i]]
  BY <1>1 DEF NodeAt
<1>4. \A i \in 1..Len(s) : NodeAt(st, s)[i] = IF s[i] = "*" THEN st[i] ELSE s[i]
  BY <1>3
<1>5. \A i \in 1..Len(s) : NodeAt(st, s)[i] \in STRING
  BY <1>1, <1>2, <1>4
<1>6. NodeAt(st, s) \in [1..Len(s) -> STRING]
  BY <1>3, <1>5
<1>7. NodeAt(st, s) \in Seq(STRING) /\ Len(NodeAt(st, s)) = Len(s)
  BY <1>1, <1>6
<1> QED
  BY <1>1, <1>4, <1>7 DEF Matches

LEMMA FrontAt ==
  ASSUME NEW st \in Seq(STRING), NEW s \in Seq(STRING), Covers(st, s), s # <<>>
  PROVE  /\ NodeAt(st, Front(s)) = Front(NodeAt(st, s))
         /\ Covers(st, Front(s)) /\ Front(s) \in Seq(STRING) /\ Len(Front(s)) = Len(s) - 1
         /\ \A i \in 1..Len(s) - 1 : Front(s)[i] = s[i]
<1> DEFINE n == Len(s) - 1
<1>1. n \in Nat /\ Len(s) = n + 1 /\ n <= Len(s)
  OBVIOUS
<1>2. /\ Front(s) \in Seq(STRING) /\ Len(Front(s)) = n /\ DOMAIN Front(s) = 1..n
      /\ \A i \in 1..n : Front(s)[i] = s[i]
  BY <1>1 DEF Front
<1>3. Covers(st, Front(s))
  BY <1>1, <1>2 DEF Covers
<1> DEFINE N == NodeAt(st, s)
           M == NodeAt(st, Front(s))
<1>4. /\ N \in Seq(STRING) /\ Len(N) = n + 1
      /\ \A i \in 1..n : N[i] = IF s[i] = "*" THEN st[i] ELSE s[i]
  BY <1>1, NodeAtFacts
<1>5. /\ M \in Seq(STRING) /\ Len(M) = n
      /\ \A i \in 1..n : M[i] = IF Front(s)[i] = "*" THEN st[i] ELSE Front(s)[i]
  BY <1>2, <1>3, NodeAtFacts
<1> HIDE DEF N, M
<1>6. \A i \in 1..n : M[i] = N[i]
  BY <1>2, <1>4, <1>5
<1>7. M = SubSeq(N, 1, n)
  BY <1>1, <1>4, <1>5, <1>6
<1>8. Front(N) = SubSeq(N, 1, n)
  BY <1>1, <1>4 DEF Front
<1> QED
  BY <1>1, <1>2, <1>3, <1>7, <1>8 DEF N, M

\* A component below a node.
LEMMA BelowAt ==
  ASSUME NEW st \in Seq(STRING), NEW s \in Seq(STRING), Covers(st, s), NEW c \in STRING, c # "*"
  PROVE  /\ s \o <<>> \o <<c>> = Append(s, c)
         /\ NodeAt(st, s \o <<>> \o <<c>>) = Append(NodeAt(st, s), c)
<1>1. s \o <<>> \o <<c>> = Append(s, c)
  OBVIOUS
<1> DEFINE N == NodeAt(st, s)
           M == NodeAt(st, Append(s, c))
<1>2. /\ N \in Seq(STRING) /\ Len(N) = Len(s)
      /\ \A i \in 1..Len(s) : N[i] = IF s[i] = "*" THEN st[i] ELSE s[i]
  BY NodeAtFacts
<1>3. /\ Append(s, c) \in Seq(STRING) /\ Len(Append(s, c)) = Len(s) + 1 /\ Len(s) \in Nat
      /\ Append(s, c)[Len(s) + 1] = c /\ \A i \in 1..Len(s) : Append(s, c)[i] = s[i]
  OBVIOUS
<1>4. Covers(st, Append(s, c))
  BY <1>3 DEF Covers
<1>5. /\ M \in Seq(STRING) /\ Len(M) = Len(s) + 1
      /\ \A i \in 1..Len(s) + 1 :
           M[i] = IF Append(s, c)[i] = "*" THEN st[i] ELSE Append(s, c)[i]
  BY <1>3, <1>4, NodeAtFacts
<1> HIDE DEF N, M
<1>6. M[Len(s) + 1] = c /\ \A i \in 1..Len(s) : M[i] = N[i]
  BY <1>2, <1>3, <1>5
<1>7. M = Append(N, c)
  BY <1>2, <1>3, <1>5, <1>6
<1> QED
  BY <1>1, <1>7 DEF N, M

\* A component below a value of a tag node.
LEMMA BelowTagAt ==
  ASSUME NEW st \in Seq(STRING), NEW s \in Seq(STRING), Covers(st, s), NEW c \in STRING, c # "*",
         Len(s) + 1 <= Len(st), s \o <<"*">> \o <<c>> \in Seq(STRING)
  PROVE  NodeAt(st, s \o <<"*">> \o <<c>>) = Append(Append(NodeAt(st, s), st[Len(s) + 1]), c)
<1> DEFINE v == st[Len(s) + 1]
           t == s \o <<"*">> \o <<c>>
           n == Len(s)
           N == NodeAt(st, s)
           M == NodeAt(st, t)
<1>1. v \in STRING
  OBVIOUS
<1>2. /\ N \in Seq(STRING) /\ Len(N) = n /\ n \in Nat
      /\ \A i \in 1..n : N[i] = IF s[i] = "*" THEN st[i] ELSE s[i]
  BY NodeAtFacts
<1>3. /\ t \in Seq(STRING) /\ Len(t) = n + 2
      /\ t[n + 1] = "*" /\ t[n + 2] = c /\ \A i \in 1..n : t[i] = s[i]
  <2> DEFINE S == STRING \cup {"*"}
             u == Append(s, "*")
  <2>1. s \in Seq(S) /\ c \in S /\ "*" \in S
    <3>1. s \in [1..Len(s) -> S] /\ Len(s) \in Nat
      OBVIOUS
    <3> HIDE DEF S
    <3>2. s \in Seq(S)
      BY <3>1
    <3> QED
      BY <3>2 DEF S
  <2> HIDE DEF S
  <2>2. /\ u \in Seq(S) /\ Len(u) = n + 1 /\ u[n + 1] = "*" /\ n \in Nat
        /\ \A i \in 1..n : u[i] = s[i]
    BY <2>1
  <2>3. s \o <<"*">> = u
    BY <2>1
  <2> HIDE DEF u, n
  <2>4. /\ Append(u, c) \in Seq(S) /\ Len(Append(u, c)) = n + 2
        /\ Append(u, c)[n + 2] = c
        /\ \A i \in 1..n + 1 : Append(u, c)[i] = u[i]
    BY <2>1, <2>2
  <2>5. t = Append(u, c)
    BY <2>1, <2>2, <2>3
  <2>6. n + 1 \in 1..n + 1 /\ \A i \in 1..n : i \in 1..n + 1
    BY <2>2
  <2> QED
    BY <2>2, <2>4, <2>5, <2>6
<1> HIDE DEF t
<1>4. Covers(st, t)
  <2> SUFFICES ASSUME NEW i \in 1..n + 2, t[i] = "*" PROVE i <= Len(st)
    BY <1>3 DEF Covers
  <2>1. i # n + 2
    BY <1>3
  <2>2. CASE i = n + 1
    BY <2>2
  <2>3. CASE i \in 1..n
    BY <1>3, <2>3 DEF Covers
  <2> QED
    BY <1>2, <2>1, <2>2, <2>3
<1>5. /\ M \in Seq(STRING) /\ Len(M) = n + 2
      /\ \A i \in 1..n + 2 : M[i] = IF t[i] = "*" THEN st[i] ELSE t[i]
  BY <1>3, <1>4, NodeAtFacts
<1> HIDE DEF N, M, v
<1>6. M[n + 1] = v /\ M[n + 2] = c /\ \A i \in 1..n : M[i] = N[i]
  <2>1. M[n + 1] = v
    BY <1>2, <1>3, <1>5 DEF v
  <2>2. M[n + 2] = c
    <3>1. n + 2 \in 1..n + 2
      BY <1>2
    <3>2. M[n + 2] = IF t[n + 2] = "*" THEN st[n + 2] ELSE t[n + 2]
      BY <1>5, <3>1
    <3> HIDE DEF n
    <3> QED
      BY <1>3, <3>2
  <2>3. \A i \in 1..n : M[i] = N[i]
    <3> HIDE DEF n
    <3>1. \A i \in 1..n : i \in 1..n + 2
      BY <1>2
    <3> QED
      BY <1>2, <1>3, <1>5, <3>1
  <2> QED
    BY <2>1, <2>2, <2>3
<1> HIDE DEF n
<1>7. /\ Append(Append(N, v), c) \in Seq(STRING) /\ Len(Append(Append(N, v), c)) = n + 2
      /\ Append(Append(N, v), c)[n + 1] = v /\ Append(Append(N, v), c)[n + 2] = c
      /\ \A i \in 1..n : Append(Append(N, v), c)[i] = N[i]
  BY <1>1, <1>2
<1> DEFINE A == Append(Append(N, v), c)
<1>8. \A i \in 1..n + 2 : M[i] = A[i]
  BY <1>2, <1>6, <1>7
<1> HIDE DEF A
<1>9. M = A
  BY <1>2, <1>5, <1>7, <1>8 DEF A
<1> QED
  BY <1>9 DEF A, M, N, n, t, v

-----------------------------------------------------------------------------
(* The way of a reference in the schema.                                   *)

LEMMA StepsFacts ==
  ASSUME NEW r \in Refs
  PROVE  /\ r \in Seq(STRING) /\ r # <<>> /\ Len(r) \in Nat /\ Len(r) > 0
         /\ Steps(r) \in Seq(STRING) /\ Len(Steps(r)) \in Nat
         /\ Len(Steps(r)) = IF Last(r) \in {"@", "@@"} THEN Len(r) - 1 ELSE Len(r)
         /\ \A i \in 1..Len(Steps(r)) : Steps(r)[i] = r[i]
         /\ \A i \in 2..Len(r) : r[i] # "/"
         /\ Head(r) = r[1]
<1>1. r \in Seq(STRING) /\ r # <<>> /\ \A i \in 2..Len(r) : r[i] # "/"
  BY RefsAssumption
<1>2. Len(r) \in Nat /\ Len(r) > 0 /\ Head(r) = r[1]
  BY <1>1
<1>3. CASE Last(r) \in {"@", "@@"}
  <2> DEFINE f == Front(r)
  <2>1. Steps(r) = f
    BY <1>3 DEF Steps
  <2>2. /\ f \in Seq(STRING) /\ Len(f) = Len(r) - 1 /\ Len(f) \in Nat
        /\ \A i \in 1..Len(r) - 1 : f[i] = r[i]
    BY <1>1, FrontFacts
  <2> HIDE DEF f
  <2> QED
    BY <1>1, <1>2, <1>3, <2>1, <2>2
<1>4. CASE Last(r) \notin {"@", "@@"}
  BY <1>1, <1>2, <1>4 DEF Steps
<1> QED
  BY <1>1, <1>2, <1>3, <1>4

\* The first n steps of a way.
IsWay(w, base, c, n) == w = [i \in 0..n |-> IF i = 0 THEN base ELSE Follow(w[i - 1], c[i])]

LEMMA WayExists ==
  ASSUME NEW base, NEW c
  PROVE  \A n \in Nat : \E w : IsWay(w, base, c, n)
<1> DEFINE T == {n \in Nat : \E w : IsWay(w, base, c, n)}
<1>1. 0 \in T
  <2> DEFINE w == [i \in 0..0 |-> base]
  <2>1. w = [i \in 0..0 |-> IF i = 0 THEN base ELSE Follow(w[i - 1], c[i])]
    OBVIOUS
  <2> HIDE DEF w
  <2>2. IsWay(w, base, c, 0)
    BY <2>1 DEF IsWay
  <2> QED
    BY <2>2
<1>2. ASSUME NEW n \in Nat, n \in T PROVE n + 1 \in T
  <2>1. PICK w : IsWay(w, base, c, n)
    BY <1>2
  <2> DEFINE v == [i \in 0..n + 1 |-> IF i = 0 THEN base ELSE Follow(w[i - 1], c[i])]
  <2>2. ASSUME NEW i \in 0..n + 1, i # 0 PROVE w[i - 1] = v[i - 1]
    <3>1. i - 1 \in 0..n /\ i - 1 \in 0..n + 1
      BY <2>2
    <3>2. w[i - 1] = IF i - 1 = 0 THEN base ELSE Follow(w[i - 1 - 1], c[i - 1])
      BY <2>1, <3>1 DEF IsWay
    <3>3. v[i - 1] = IF i - 1 = 0 THEN base ELSE Follow(w[i - 1 - 1], c[i - 1])
      BY <3>1
    <3> QED
      BY <3>2, <3>3, Zenon
  <2>3. \A i \in 0..n + 1 : (IF i = 0 THEN base ELSE Follow(w[i - 1], c[i])) =
                            (IF i = 0 THEN base ELSE Follow(v[i - 1], c[i]))
    <3> HIDE DEF v
    <3> QED
      BY <2>2
  <2>4. v = [i \in 0..n + 1 |-> IF i = 0 THEN base ELSE Follow(v[i - 1], c[i])]
    BY <2>3
  <2> HIDE DEF v
  <2>5. IsWay(v, base, c, n + 1)
    BY <2>4 DEF IsWay
  <2> QED
    BY <2>5
<1> HIDE DEF T
<1>3. \A n \in Nat : n \in T
  BY <1>1, <1>2, SetInduction
<1> QED
  BY <1>3 DEF T

\* Where a reference starts in the schema.
Base(st, r) == IF Absolute(r) THEN <<>> ELSE SchemaPath(NodeOf(st))

LEMMA WayIs ==
  ASSUME NEW st, NEW r \in Refs
  PROVE  /\ Way(st, r)[0] = Base(st, r)
         /\ \A i \in 1..Len(Steps(r)) : Way(st, r)[i] = Follow(Way(st, r)[i - 1], Steps(r)[i])
<1> DEFINE n == Len(Steps(r))
           c == Steps(r)
           base == IF Absolute(r) THEN <<>> ELSE SchemaPath(NodeOf(st))
           W == CHOOSE w : w = [i \in 0..n |-> IF i = 0 THEN base ELSE Follow(w[i - 1], c[i])]
<1>1. n \in Nat
  BY StepsFacts
<1>2. \E w : w = [i \in 0..n |-> IF i = 0 THEN base ELSE Follow(w[i - 1], c[i])]
  <2> HIDE DEF c, base, n
  <2>1. \E w : IsWay(w, base, c, n)
    BY <1>1, WayExists
  <2> QED
    BY <2>1 DEF IsWay
<1>3. Way(st, r) = W
  BY DEF Way
<1> HIDE DEF n, c, base
<1>4. W = [i \in 0..n |-> IF i = 0 THEN base ELSE Follow(W[i - 1], c[i])]
  BY <1>2
<1> HIDE DEF W
<1>5. W[0] = base
  BY <1>1, <1>4
<1>6. ASSUME NEW i \in 1..n PROVE W[i] = Follow(W[i - 1], c[i])
  BY <1>1, <1>4
<1> QED
  BY <1>3, <1>5, <1>6 DEF base, n, c, Base

\* The node whose action is run.
LEMMA StartFacts ==
  ASSUME NEW st \in Starts
  PROVE  /\ st \in Seq(STRING) /\ st # <<>> /\ Len(st) \in Nat /\ Len(st) > 0
         /\ NodeOf(st) \in Seq(STRING)
         /\ SchemaPath(NodeOf(st)) \in DOMAIN Schema
         /\ Matches(SchemaPath(NodeOf(st)), NodeOf(st))
         /\ NodeAt(st, SchemaPath(NodeOf(st))) = NodeOf(st)
         /\ \/ IsValue(st) /\ NodeOf(st) = Front(st) /\ Len(NodeOf(st)) = Len(st) - 1
            \/ NodeOf(st) = st /\ NodeKinds(st) = {"container"}
         /\ \A i \in 1..Len(NodeOf(st)) : NodeOf(st)[i] = st[i]
         /\ Len(NodeOf(st)) <= Len(st)
<1>1. /\ st \in Seq(STRING) /\ st # <<>> /\ Len(st) \in Nat /\ Len(st) > 0
      /\ IsValue(st) \/ NodeKinds(st) = {"container"}
  BY StartsAssumption
<1> DEFINE p == NodeOf(st)
<1>2. /\ p \in Seq(STRING) /\ Len(p) <= Len(st) /\ \A i \in 1..Len(p) : p[i] = st[i]
      /\ \/ IsValue(st) /\ p = Front(st) /\ Len(p) = Len(st) - 1
         \/ p = st /\ NodeKinds(st) = {"container"}
  <2>1. CASE IsValue(st)
    <3>1. p = Front(st)
      BY <2>1 DEF NodeOf
    <3> HIDE DEF p
    <3>2. p \in Seq(STRING) /\ Len(p) = Len(st) - 1
      BY <1>1, <3>1, FrontFacts
    <3>3. \A i \in 1..Len(st) - 1 : p[i] = st[i]
      BY <1>1, <3>1, FrontFacts
    <3> QED
      BY <1>1, <2>1, <3>1, <3>2, <3>3
  <2>2. CASE ~IsValue(st)
    BY <1>1, <2>2 DEF NodeOf
  <2> QED
    BY <2>1, <2>2
<1>3. NodeKinds(p) # {}
  <2>1. CASE IsValue(st) /\ p = Front(st)
    <3>1. ValueKinds(st) # {}
      BY <2>1 DEF IsValue
    <3> QED
      BY <1>1, <2>1, <3>1 DEF ValueKinds
  <2> QED
    BY <1>2, <2>1
<1> HIDE DEF p
<1>4. \E s \in DOMAIN Schema : Matches(s, p)
  BY <1>3 DEF NodeKinds
<1> DEFINE s == SchemaPath(p)
<1>5. s \in DOMAIN Schema /\ Matches(s, p)
  BY <1>4 DEF SchemaPath
<1> HIDE DEF s
<1>6. s \in Seq(STRING) /\ Len(s) \in Nat /\ DOMAIN s = 1..Len(s) /\ Len(s) = Len(p)
      /\ \A i \in 1..Len(s) : s[i] \in {"*", p[i]}
  BY <1>5, SchemaRules DEF Matches
<1>7. Covers(st, s)
  BY <1>1, <1>2, <1>6 DEF Covers
<1> DEFINE q == NodeAt(st, s)
<1>8. /\ q \in Seq(STRING) /\ Len(q) = Len(s)
      /\ \A i \in 1..Len(s) : q[i] = IF s[i] = "*" THEN st[i] ELSE s[i]
  BY <1>1, <1>6, <1>7, NodeAtFacts
<1> HIDE DEF q
<1>9. \A i \in 1..Len(s) : q[i] = p[i]
  BY <1>2, <1>6, <1>8
<1>10. q = p
  BY <1>2, <1>6, <1>8, <1>9
<1> QED
  BY <1>1, <1>2, <1>5, <1>10 DEF p, q, s

-----------------------------------------------------------------------------
(* Each step of the code goes to the next node on the way.                 *)

\* The nodes on the way of a reference that has a meaning.
LEMMA WayFacts ==
  ASSUME NEW st \in Starts, NEW r \in Refs, Meaningful(st, r), NEW j \in 0..Len(Steps(r))
  PROVE  LET s == Way(st, r)[j]
         IN  /\ s \in DOMAIN Schema \cup {<<>>} /\ s \in Seq(STRING) /\ Covers(st, s)
             /\ NodeAt(st, s) \in Seq(STRING) /\ Len(NodeAt(st, s)) = Len(s)
             /\ Matches(s, NodeAt(st, s))
             /\ s = <<>> => NodeAt(st, s) = <<>>
             /\ \A i \in 1..Len(s) : s[i] = "*" => ~Absolute(r) /\ i <= Len(st)
<1> DEFINE s == Way(st, r)[j]
<1>1. s \in DOMAIN Schema \cup {<<>>}
  BY DEF Meaningful, Regular
<1>2. \A i \in DOMAIN s : s[i] = "*" => OnStartPath(st, r, s, i)
  BY DEF Meaningful, InScope
<1> HIDE DEF s
<1>3. s \in Seq(STRING) /\ DOMAIN s = 1..Len(s)
  <2>1. CASE s \in DOMAIN Schema
    BY <2>1, SchemaRules
  <2>2. CASE s = <<>>
    BY <2>2
  <2> QED
    BY <1>1, <2>1, <2>2
<1>4. \A i \in 1..Len(s) : s[i] = "*" => ~Absolute(r) /\ i <= Len(st)
  BY <1>2, <1>3 DEF OnStartPath
<1>5. Covers(st, s)
  BY <1>4 DEF Covers
<1>6. st \in Seq(STRING)
  BY StartFacts
<1>7. NodeAt(st, s) \in Seq(STRING) /\ Len(NodeAt(st, s)) = Len(s) /\ Matches(s, NodeAt(st, s))
  BY <1>3, <1>5, <1>6, NodeAtFacts
<1>8. s = <<>> => NodeAt(st, s) = <<>>
  BY <1>7
<1> QED
  BY <1>1, <1>3, <1>4, <1>5, <1>7, <1>8 DEF s

LEMMA NamedFacts ==
  ASSUME NEW st \in Starts, NEW r \in Refs, Meaningful(st, r)
  PROVE  LET s == Named(st, r)
             p == NamedNode(st, r)
         IN  /\ s \in DOMAIN Schema /\ s \in Seq(STRING)
             /\ p \in Seq(STRING) /\ Len(p) = Len(s) /\ Matches(s, p) /\ p = NodeAt(st, s)
             /\ Covers(st, s)
             /\ KindOf(s) = Schema[s] /\ Schema[s] \in {"container", "tag", "leaf", "multi"}
<1> DEFINE n == Len(Steps(r))
           s == Way(st, r)[n]
<1>1. n \in 0..n
  BY StepsFacts
<1>2. s \in DOMAIN Schema \cup {<<>>} /\ s \in Seq(STRING) /\ Covers(st, s)
      /\ NodeAt(st, s) \in Seq(STRING) /\ Len(NodeAt(st, s)) = Len(s)
      /\ Matches(s, NodeAt(st, s))
  BY <1>1, WayFacts
<1>3. s # <<>>
  BY DEF Meaningful, Regular, Named
<1>4. Named(st, r) = s /\ NamedNode(st, r) = NodeAt(st, s)
  BY DEF Named, NamedNode
<1> HIDE DEF s
<1>5. KindOf(s) = Schema[s] /\ Schema[s] \in {"container", "tag", "leaf", "multi"}
  BY <1>2, <1>3, SchemaRules DEF KindOf
<1> QED
  BY <1>2, <1>3, <1>4, <1>5

\* The component of the path of the action that stands for a tag value.
LEMMA TagValueIs ==
  ASSUME NEW st \in Starts, NEW n \in Nat, n + 1 <= Len(st)
  PROVE  /\ n <= Len(NodeOf(st))
         /\ st[n + 1] = IF n = Len(NodeOf(st)) THEN Last(st) ELSE NodeOf(st)[n + 1]
<1> DEFINE o == NodeOf(st)
<1>1. /\ Len(st) \in Nat /\ o \in Seq(STRING) /\ Len(o) <= Len(st)
      /\ Len(o) = Len(st) - 1 \/ o = st
      /\ \A i \in 1..Len(o) : o[i] = st[i]
  BY StartFacts
<1> HIDE DEF o
<1>2. Len(o) \in Nat /\ n <= Len(o)
  BY <1>1
<1>3. CASE n = Len(o)
  <2>1. n + 1 = Len(st)
    BY <1>1, <1>2, <1>3
  <2> QED
    BY <1>2, <1>3, <2>1 DEF Last, o
<1>4. CASE n # Len(o)
  <2>1. n + 1 \in 1..Len(o)
    BY <1>2, <1>4
  <2> QED
    BY <1>1, <1>2, <1>4, <2>1 DEF o
<1> QED
  BY <1>3, <1>4

LEMMA TextGoesDown ==
  ASSUME NEW st \in Starts, NEW r \in Refs, Meaningful(st, r), NEW j \in 0..Len(Steps(r)) - 1,
         r[j + 1] \notin {"@", "@@", ".", "..", "/"}
  PROVE  LET p == NodeAt(st, Way(st, r)[j])
             q == NodeAt(st, Way(st, r)[j + 1])
             o == NodeOf(st)
         IN  /\ ~IsTagNode(p) => q = Append(p, r[j + 1])
             /\ IsTagNode(p) =>
                  /\ ~Absolute(r) /\ Len(p) <= Len(o)
                  /\ q = Append(Append(p, IF Len(p) = Len(o) THEN Last(st) ELSE o[Len(p) + 1]),
                                r[j + 1])
<1> DEFINE s == Way(st, r)[j]
           t == Way(st, r)[j + 1]
           c == r[j + 1]
<1>1. Len(Steps(r)) \in Nat /\ j + 1 \in 1..Len(Steps(r)) /\ j + 1 \in 0..Len(Steps(r))
      /\ j \in 0..Len(Steps(r)) /\ (j + 1) - 1 = j
  BY StepsFacts
<1>2. c = Steps(r)[j + 1] /\ c \in STRING
  BY <1>1, StepsFacts
<1>3. t = Follow(s, c)
  BY <1>1, <1>2, WayIs
<1>4. t = s \o (IF KindOf(s) = "tag" THEN <<"*">> ELSE <<>>) \o <<c>>
  BY <1>3 DEF Follow
<1>5. s \in DOMAIN Schema \cup {<<>>} /\ s \in Seq(STRING) /\ Covers(st, s)
      /\ NodeAt(st, s) \in Seq(STRING) /\ Len(NodeAt(st, s)) = Len(s)
      /\ Matches(s, NodeAt(st, s)) /\ (s = <<>> => NodeAt(st, s) = <<>>)
  BY <1>1, WayFacts
<1>6. t \in DOMAIN Schema \cup {<<>>} /\ t \in Seq(STRING)
      /\ \A i \in 1..Len(t) : t[i] = "*" => ~Absolute(r) /\ i <= Len(st)
  BY <1>1, WayFacts
<1>7. st \in Seq(STRING)
  BY StartFacts
<1> DEFINE p == NodeAt(st, s)
<1>8. IsTagNode(p) <=> KindOf(s) = "tag"
  <2>1. CASE s = <<>>
    <3>1. KindOf(s) # "tag"
      <4>1. s \notin DOMAIN Schema
        BY <2>1, SchemaAssumption
      <4> QED
        BY <4>1 DEF KindOf
    <3> QED
      BY <1>5, <2>1, <3>1, RootFacts
  <2>2. CASE s \in DOMAIN Schema
    <3> HIDE DEF s
    <3>1. IsTagNode(p) <=> Schema[s] = "tag"
      BY <1>5, <2>2, NodeFacts
    <3> QED
      BY <2>2, <3>1 DEF KindOf
  <2> QED
    BY <1>5, <2>1, <2>2
<1> HIDE DEF s, t, c
<1>9. CASE KindOf(s) # "tag"
  <2>1. t = s \o <<>> \o <<c>>
    BY <1>4, <1>9
  <2>2. t = Append(s, c)
    BY <1>2, <1>5, <2>1
  <2>3. Len(t) = Len(s) + 1 /\ t[Len(t)] = c /\ t # <<>>
    BY <1>2, <1>5, <2>2
  <2>4. c # "*"
    BY <1>6, <2>3, SchemaRules
  <2>5. NodeAt(st, t) = Append(p, c)
    BY <1>2, <1>5, <1>7, <2>1, <2>4, BelowAt
  <2> QED
    BY <1>8, <1>9, <2>5 DEF s, t, c
<1>10. CASE KindOf(s) = "tag"
  <2>1. t = s \o <<"*">> \o <<c>>
    BY <1>4, <1>10
  <2> DEFINE S == STRING \cup {"*"}
             u == Append(s, "*")
             n == Len(s)
  <2>2. n \in Nat /\ Len(t) = n + 2 /\ t[n + 1] = "*" /\ t[n + 2] = c
    <3>1. s \in Seq(S) /\ c \in S /\ "*" \in S
      <4>1. s \in [1..Len(s) -> S] /\ Len(s) \in Nat
        BY <1>5
      <4> HIDE DEF S
      <4>2. s \in Seq(S)
        BY <4>1
      <4> QED
        BY <1>2, <4>2 DEF S
    <3> HIDE DEF S
    <3>2. u \in Seq(S) /\ Len(u) = n + 1 /\ u[n + 1] = "*" /\ n \in Nat
      BY <3>1
    <3>3. t = u \o <<c>>
      BY <2>1, <3>1
    <3> HIDE DEF u, n
    <3>4. t = Append(u, c)
      BY <3>1, <3>2, <3>3
    <3> QED
      BY <3>1, <3>2, <3>4
  <2> HIDE DEF n, u
  <2>3. n + 1 \in 1..Len(t) /\ t # <<>>
    BY <2>2
  <2>4. ~Absolute(r) /\ n + 1 <= Len(st)
    BY <1>6, <2>2, <2>3
  <2>5. c # "*"
    <3>1. Len(t) \in 1..Len(t) /\ ~(Len(t) < Len(t)) /\ t[Len(t)] = c
      BY <2>2
    <3> QED
      BY <1>6, <2>3, <3>1, SchemaRules
  <2>6. NodeAt(st, t) = Append(Append(p, st[n + 1]), c)
    BY <1>2, <1>5, <1>6, <1>7, <2>1, <2>4, <2>5, BelowTagAt DEF n
  <2>7. n <= Len(NodeOf(st))
        /\ st[n + 1] = IF n = Len(NodeOf(st)) THEN Last(st) ELSE NodeOf(st)[n + 1]
    BY <2>2, <2>4, TagValueIs
  <2> QED
    BY <1>5, <1>8, <1>10, <2>4, <2>6, <2>7 DEF s, t, c, n
<1> QED
  BY <1>9, <1>10

LEMMA DotsGoUp ==
  ASSUME NEW st \in Starts, NEW r \in Refs, Meaningful(st, r), NEW j \in 0..Len(Steps(r)) - 1,
         r[j + 1] = ".."
  PROVE  LET p == NodeAt(st, Way(st, r)[j])
         IN  /\ Got(p) /\ p # <<>> /\ (Len(p) > 1 => Got(Front(p)))
             /\ NodeAt(st, Way(st, r)[j + 1]) = Parent(p)
<1> DEFINE s == Way(st, r)[j]
           t == Way(st, r)[j + 1]
           p == NodeAt(st, s)
<1>1. Len(Steps(r)) \in Nat /\ j + 1 \in 1..Len(Steps(r)) /\ j + 1 \in 0..Len(Steps(r))
      /\ j \in 0..Len(Steps(r)) /\ (j + 1) - 1 = j
  BY StepsFacts
<1>2. ".." = Steps(r)[j + 1]
  BY <1>1, StepsFacts
<1>3. t = Follow(s, "..")
  BY <1>1, <1>2, WayIs
<1>4. t = SchemaParent(s)
  BY <1>3 DEF Follow
<1>5. s \in DOMAIN Schema \cup {<<>>} /\ s \in Seq(STRING) /\ Covers(st, s)
      /\ p \in Seq(STRING) /\ Len(p) = Len(s) /\ Matches(s, p)
  BY <1>1, WayFacts
<1>6. t \in DOMAIN Schema \cup {<<>>}
  BY <1>1, WayFacts
<1>7. st \in Seq(STRING)
  BY StartFacts
<1> HIDE DEF s, t, p
<1>8. s # <<>>
  <2>1. SUFFICES ASSUME s = <<>> PROVE FALSE
    OBVIOUS
  <2>2. t = <<"*">>
    BY <1>4, <2>1 DEF SchemaParent
  <2>3. Len(t) = 1 /\ t[1] = "*" /\ t # <<>>
    BY <2>2
  <2> QED
    BY <1>6, <2>3, SchemaRules
<1>9. s \in DOMAIN Schema
  BY <1>5, <1>8
<1>10. Got(p) /\ p # <<>>
  BY <1>5, <1>9, NodeFacts
<1>11. /\ Len(p) > 1 => Got(Front(p))
       /\ Len(s) > 1 /\ s[Len(s) - 1] = "*" => Parent(p) = Front(Front(p))
       /\ ~(Len(s) > 1 /\ s[Len(s) - 1] = "*") => Parent(p) = Front(p)
  BY <1>5, <1>9, ParentFacts
<1> DEFINE f == Front(s)
<1>12. NodeAt(st, f) = Front(p) /\ Covers(st, f) /\ f \in Seq(STRING) /\ Len(f) = Len(s) - 1
  BY <1>5, <1>7, <1>8, FrontAt DEF p
<1> HIDE DEF f
<1>13. CASE Len(s) > 1 /\ s[Len(s) - 1] = "*"
  <2>1. t = Front(f)
    BY <1>4, <1>8, <1>13 DEF SchemaParent, f
  <2>2. f # <<>>
    BY <1>12, <1>13
  <2>3. NodeAt(st, Front(f)) = Front(NodeAt(st, f))
    BY <1>7, <1>12, <2>2, FrontAt
  <2>4. NodeAt(st, t) = Parent(p)
    BY <1>11, <1>12, <1>13, <2>1, <2>3
  <2> QED
    BY <1>10, <1>11, <2>4 DEF s, t, p
<1>14. CASE ~(Len(s) > 1 /\ s[Len(s) - 1] = "*")
  <2>1. t = f
    BY <1>4, <1>8, <1>14 DEF SchemaParent, f
  <2>2. NodeAt(st, t) = Parent(p)
    BY <1>11, <1>12, <1>14, <2>1
  <2> QED
    BY <1>10, <1>11, <2>2 DEF s, t, p
<1> QED
  BY <1>13, <1>14

LEMMA DotStays ==
  ASSUME NEW st, NEW r \in Refs, NEW j \in 0..Len(Steps(r)) - 1, r[j + 1] \in {".", "/"}
  PROVE  Way(st, r)[j + 1] = Way(st, r)[j]
<1>1. Len(Steps(r)) \in Nat /\ j + 1 \in 1..Len(Steps(r)) /\ (j + 1) - 1 = j
  BY StepsFacts
<1>2. r[j + 1] = Steps(r)[j + 1]
  BY <1>1, StepsFacts
<1>3. Way(st, r)[j + 1] = Follow(Way(st, r)[j], r[j + 1])
  BY <1>1, <1>2, WayIs
<1> QED
  BY <1>3 DEF Follow

-----------------------------------------------------------------------------
(* What @ and @@ at the end of a reference ask for.                        *)

\* The value below its node on the path of the action.
StartValue(st, r) == st[Len(Named(st, r)) + 1]

\* The path with which VarRef was constructed.
OrigOf(st, r) == IF Absolute(r) THEN <<>> ELSE NodeOf(st)

LEMMA AtOfTag ==
  ASSUME NEW st \in Starts, NEW r \in Refs, Meaningful(st, r), Last(r) = "@",
         Schema[Named(st, r)] = "tag", NamedNode(st, r) # OrigOf(st, r)
  PROVE  /\ Len(NamedNode(st, r)) < Len(OrigOf(st, r))
         /\ OrigOf(st, r)[Len(NamedNode(st, r)) + 1] = StartValue(st, r)
<1> DEFINE s == Named(st, r)
           p == NamedNode(st, r)
           o == NodeOf(st)
           n == Len(s)
<1>1. /\ s \in DOMAIN Schema /\ s \in Seq(STRING)
      /\ p \in Seq(STRING) /\ Len(p) = Len(s) /\ p = NodeAt(st, s)
      /\ Covers(st, s) /\ KindOf(s) = Schema[s]
  BY NamedFacts
<1>2. OnStartPath(st, r, Append(s, "*"), Len(s) + 1)
  BY <1>1 DEF Meaningful
<1>3. st \in Seq(STRING) /\ o \in Seq(STRING) /\ \A i \in 1..Len(o) : o[i] = st[i]
  BY StartFacts
<1> HIDE DEF s, p, o
<1>4. ~Absolute(r) /\ n + 1 <= Len(st) /\ n \in Nat
      /\ Matches(SubSeq(Append(s, "*"), 1, n + 1), SubSeq(st, 1, n + 1))
  BY <1>1, <1>2 DEF OnStartPath
<1>5. \A i \in 1..n : s[i] \in {"*", st[i]}
  <2> DEFINE S == STRING \cup {"*"}
             a == Append(s, "*")
             b == SubSeq(st, 1, n + 1)
  <2>1. s \in Seq(S) /\ "*" \in S
    <3>1. s \in [1..Len(s) -> S] /\ Len(s) \in Nat
      BY <1>1
    <3> HIDE DEF S
    <3>2. s \in Seq(S)
      BY <3>1
    <3> QED
      BY <3>2 DEF S
  <2> HIDE DEF S
  <2>2. a \in Seq(S) /\ Len(a) = n + 1 /\ \A i \in 1..n : a[i] = s[i]
    BY <2>1
  <2> HIDE DEF a
  <2>3. SubSeq(a, 1, n + 1) = a
    BY <1>4, <2>2
  <2>4. DOMAIN a = 1..n + 1 /\ \A i \in 1..n + 1 : b[i] = st[i]
    BY <1>3, <1>4, <2>2
  <2> HIDE DEF b, n
  <2>5. Matches(a, b)
    BY <1>4, <2>3 DEF a, b
  <2>6. \A i \in 1..n + 1 : a[i] \in {"*", b[i]}
    BY <2>4, <2>5 DEF Matches
  <2>7. \A i \in 1..n : i \in 1..n + 1
    BY <1>4
  <2> QED
    BY <2>2, <2>4, <2>6, <2>7
<1>6. /\ n <= Len(o)
      /\ st[n + 1] = IF n = Len(o) THEN Last(st) ELSE o[n + 1]
  <2> HIDE DEF n
  <2> QED
    BY <1>4, TagValueIs DEF o
<1>7. n # Len(o)
  <2>1. SUFFICES ASSUME n = Len(o) PROVE FALSE
    OBVIOUS
  <2>2. \A i \in 1..n : p[i] = IF s[i] = "*" THEN st[i] ELSE s[i]
    BY <1>1, <1>3, NodeAtFacts
  <2>3. \A i \in 1..n : p[i] = o[i]
    BY <1>3, <1>5, <2>1, <2>2
  <2>4. p = o
    BY <1>1, <1>3, <2>1, <2>3
  <2> QED
    BY <1>4, <2>4 DEF OrigOf, p, o
<1>8. OrigOf(st, r) = o
  BY <1>4 DEF OrigOf, o
<1>9. n < Len(o) /\ o[n + 1] = st[n + 1]
  BY <1>3, <1>4, <1>6, <1>7
<1> QED
  BY <1>1, <1>8, <1>9 DEF StartValue, p, s

LEMMA AtOfStart ==
  ASSUME NEW st \in Starts, NEW r \in Refs, Meaningful(st, r),
         Schema[Named(st, r)] # "container", NamedNode(st, r) = OrigOf(st, r)
  PROVE  Self(st, r) /\ Last(st) = StartValue(st, r)
<1> DEFINE s == Named(st, r)
           p == NamedNode(st, r)
<1>1. /\ s \in DOMAIN Schema /\ p \in Seq(STRING) /\ Len(p) = Len(s) /\ Matches(s, p)
  BY NamedFacts
<1>2. NodeKinds(p) = {Schema[s]} /\ p # <<>>
  BY <1>1, NodeFacts
<1>3. ~Absolute(r) /\ p = NodeOf(st)
  BY <1>2 DEF OrigOf
<1>4. /\ st \in Seq(STRING) /\ st # <<>>
      /\ \/ NodeOf(st) = Front(st)
         \/ NodeOf(st) = st /\ NodeKinds(st) = {"container"}
  BY StartFacts
<1>5. NodeKinds(p) # {"container"}
  BY <1>2
<1>6. p = Front(st)
  BY <1>3, <1>4, <1>5
<1>7. Append(p, Last(st)) = st /\ Len(p) = Len(st) - 1
  BY <1>4, <1>6, FrontFacts
<1>8. Len(s) + 1 = Len(st)
  BY <1>1, <1>4, <1>7
<1> QED
  BY <1>3, <1>7, <1>8 DEF Self, StartValue, Last

LEMMA AtOfLeaf ==
  ASSUME NEW st \in Starts, NEW r \in Refs, Meaningful(st, r),
         Schema[Named(st, r)] \in {"leaf", "multi"}, NamedNode(st, r) # OrigOf(st, r)
  PROVE  ~Self(st, r)
<1>1. SUFFICES ASSUME Self(st, r) PROVE FALSE
  OBVIOUS
<1> DEFINE s == Named(st, r)
           p == NamedNode(st, r)
<1>2. /\ s \in DOMAIN Schema /\ p \in Seq(STRING) /\ Matches(s, p)
  BY NamedFacts
<1>3. NodeKinds(p) = {Schema[s]}
  BY <1>2, NodeFacts
<1>4. /\ st \in Seq(STRING) /\ st # <<>>
      /\ \/ NodeOf(st) = Front(st)
         \/ NodeOf(st) = st /\ Matches(SchemaPath(NodeOf(st)), st)
      /\ SchemaPath(NodeOf(st)) \in DOMAIN Schema
  BY StartFacts
<1>5. Append(p, Last(st)) = st /\ ~Absolute(r)
  BY <1>1 DEF Self
<1>6. p = Front(st)
  <2>1. Front(st) \in Seq(STRING) /\ Append(Front(st), Last(st)) = st /\ Last(st) \in STRING
    BY <1>4, FrontFacts
  <2> HIDE DEF p
  <2>2. Append(p, Last(st)) = Append(Front(st), Last(st))
    BY <1>5, <2>1
  <2> QED
    BY <1>2, <2>1, <2>2
<1>7. NodeOf(st) # Front(st)
  BY <1>5, <1>6 DEF OrigOf
<1>8. ValueKinds(st) = {}
  BY <1>4, <1>7, NodeIsNoValue
<1>9. ValueKinds(st) = {Schema[s]} \ {"container"}
  BY <1>3, <1>4, <1>6 DEF ValueKinds
<1> QED
  BY <1>8, <1>9

\* What the reference asks for, by the kind of its node.
LEMMA Asked ==
  ASSUME NEW st \in Starts, NEW r \in Refs, Meaningful(st, r)
  PROVE  LET kind == Schema[Named(st, r)]
         IN  /\ Last(r) \notin {"@", "@@"} => AsksNode(st, r)
             /\ Last(r) = "@" /\ kind = "container" => AsksNode(st, r)
             /\ Last(r) = "@" /\ kind # "container" /\ NamedNode(st, r) = OrigOf(st, r) =>
                  AsksStart(st, r)
             /\ Last(r) = "@" /\ kind = "tag" => AsksStart(st, r)
             /\ Last(r) = "@" /\ kind \in {"leaf", "multi"} /\ NamedNode(st, r) # OrigOf(st, r) =>
                  AsksValues(st, r)
             /\ Last(r) = "@@" => AsksValues(st, r) /\ kind # "container"
<1>1. KindOf(Named(st, r)) = Schema[Named(st, r)]
  BY NamedFacts
<1>2. Last(r) = "@@" => Schema[Named(st, r)] # "container"
  BY <1>1 DEF Meaningful
<1>3. Schema[Named(st, r)] # "container" /\ NamedNode(st, r) = OrigOf(st, r) => Self(st, r)
  BY AtOfStart
<1>4. Schema[Named(st, r)] \in {"leaf", "multi"} /\ NamedNode(st, r) # OrigOf(st, r) => ~Self(st, r)
  BY AtOfLeaf
<1> QED
  BY <1>1, <1>2, <1>3, <1>4 DEF AsksNode, AsksStart, AsksValues

-----------------------------------------------------------------------------
(* The values of a node, as a sequence.                                    *)

LEMMA SetToSeqFacts ==
  ASSUME NEW S, IsFiniteSet(S)
  PROVE  LET f == SetToSeq(S)
         IN  /\ f \in Seq(S) /\ Len(f) = Cardinality(S) /\ Cardinality(S) \in Nat
             /\ ToSet(f) = S
<1> DEFINE n == Cardinality(S)
           f == SetToSeq(S)
<1>1. n \in Nat /\ ExistsBijection(1..n, S)
  BY FS_CardinalityType
<1>2. PICK g \in Bijection(1..n, S) : TRUE
  BY <1>1 DEF ExistsBijection
<1>3. g \in [1..n -> S] /\ IsInjective(g)
  BY <1>2 DEF Bijection, Injection
<1>4. f \in [1..n -> S] /\ IsInjective(f)
  BY <1>3 DEF SetToSeq
<1>5. f \in Seq(S) /\ Len(f) = n
  BY <1>1, <1>4
<1>6. f \in Injection(1..n, S)
  BY <1>4 DEF Injection
<1>7. IsFiniteSet(1..n) /\ Cardinality(1..n) = n
  BY <1>1, FS_CountingElements, FS_Interval
<1> HIDE DEF n, f
<1>8. f \in Surjection(1..n, S)
  BY <1>6, <1>7, FS_Injection DEF n
<1>9. \A x \in S : \E i \in 1..n : f[i] = x
  BY <1>8 DEF Surjection
<1>10. ToSet(f) = S
  BY <1>4, <1>9 DEF ToSet
<1> QED
  BY <1>1, <1>5, <1>10 DEF n, f

LEMMA FlattenOne ==
  ASSUME NEW w
  PROVE  FlattenSeq(<<w>>) = w
<1> DEFINE q == <<w>>
           F == CHOOSE f : f = [i \in 1..Len(q) |-> IF i = 1 THEN q[i] ELSE f[i - 1] \o q[i]]
<1>1. Len(q) = 1 /\ q[1] = w
  OBVIOUS
<1>2. FlattenSeq(q) = F[Len(q)]
  BY <1>1 DEF FlattenSeq
<1> HIDE DEF q
<1> DEFINE g == [i \in 1..1 |-> w]
<1>3. \E f : f = [i \in 1..Len(q) |-> IF i = 1 THEN q[i] ELSE f[i - 1] \o q[i]]
  <2>1. g = [i \in 1..Len(q) |-> IF i = 1 THEN q[i] ELSE g[i - 1] \o q[i]]
    BY <1>1
  <2> QED
    BY <2>1
<1>4. F = [i \in 1..Len(q) |-> IF i = 1 THEN q[i] ELSE F[i - 1] \o q[i]]
  BY <1>3
<1> HIDE DEF F
<1>5. F[1] = w
  BY <1>1, <1>4
<1> QED
  BY <1>1, <1>2, <1>5 DEF q

LEMMA FlattenNone == FlattenSeq(<<>>) = <<>>
BY DEF FlattenSeq

LEMMA FlattenSingles ==
  ASSUME NEW S, NEW w \in Seq(S)
  PROVE  FlattenSeq([i \in 1..Len(w) |-> <<w[i]>>]) = w
<1> DEFINE n == Len(w)
           q == [i \in 1..n |-> <<w[i]>>]
           F == CHOOSE f : f = [i \in 1..Len(q) |-> IF i = 1 THEN q[i] ELSE f[i - 1] \o q[i]]
<1>1. n \in Nat /\ Len(q) = n /\ \A i \in 1..n : q[i] = <<w[i]>> /\ w[i] \in S
  <2>1. n \in Nat
    OBVIOUS
  <2> QED
    BY <2>1
<1>2. CASE n = 0
  <2>1. q = <<>> /\ w = <<>>
    BY <1>2
  <2> QED
    BY <2>1, FlattenNone
<1>3. CASE n # 0
  <2>1. FlattenSeq(q) = F[Len(q)]
    BY <1>1, <1>3 DEF FlattenSeq
  <2> HIDE DEF q, n
  <2> DEFINE g == [i \in 1..n |-> SubSeq(w, 1, i)]
  <2>2. ASSUME NEW i \in 1..n, i # 1 PROVE SubSeq(w, 1, i) = SubSeq(w, 1, i - 1) \o q[i]
    <3>1. q[i] = <<w[i]>> /\ w[i] \in S /\ i - 1 \in 1..n /\ i <= Len(w) /\ i \in Nat
      BY <1>1, <2>2 DEF n
    <3> DEFINE u == SubSeq(w, 1, i - 1)
               v == SubSeq(w, 1, i)
    <3>2. u \in Seq(S) /\ Len(u) = i - 1 /\ \A k \in 1..i - 1 : u[k] = w[k]
      BY <3>1
    <3>3. v \in Seq(S) /\ Len(v) = i /\ \A k \in 1..i : v[k] = w[k]
      BY <3>1
    <3> HIDE DEF u, v
    <3>4. u \o q[i] = Append(u, w[i])
      BY <3>1, <3>2
    <3>5. Append(u, w[i]) = v
      <4>1. /\ Append(u, w[i]) \in Seq(S) /\ Len(Append(u, w[i])) = i
            /\ Append(u, w[i])[i] = w[i]
            /\ \A k \in 1..i - 1 : Append(u, w[i])[k] = u[k]
        BY <3>1, <3>2
      <4> DEFINE a == Append(u, w[i])
      <4>2. \A k \in 1..i : a[k] = v[k]
        BY <3>1, <3>2, <3>3, <4>1
      <4> HIDE DEF a
      <4> QED
        BY <3>1, <3>3, <4>1, <4>2 DEF a
    <3> QED
      BY <3>4, <3>5 DEF u, v
  <2>3. SubSeq(w, 1, 1) = q[1]
    BY <1>1, <1>3 DEF n
  <2>4. \E f : f = [i \in 1..Len(q) |-> IF i = 1 THEN q[i] ELSE f[i - 1] \o q[i]]
    <3>1. \A i \in 1..n : i # 1 => i - 1 \in 1..n
      BY <1>1
    <3>2. \A i \in 1..n : g[i] = IF i = 1 THEN q[i] ELSE g[i - 1] \o q[i]
      BY <2>2, <2>3, <3>1
    <3>3. g = [i \in 1..Len(q) |-> IF i = 1 THEN q[i] ELSE g[i - 1] \o q[i]]
      BY <1>1, <3>2
    <3> QED
      BY <3>3
  <2>5. F = [i \in 1..Len(q) |-> IF i = 1 THEN q[i] ELSE F[i - 1] \o q[i]]
    BY <2>4
  <2> HIDE DEF F
  <2> DEFINE T == {k \in Nat : k + 1 \in 1..n => F[k + 1] = SubSeq(w, 1, k + 1)}
  <2>6. 0 \in T
    BY <1>1, <2>3, <2>5
  <2>7. ASSUME NEW k \in Nat, k \in T PROVE k + 1 \in T
    <3>1. SUFFICES ASSUME (k + 1) + 1 \in 1..n
                   PROVE  F[(k + 1) + 1] = SubSeq(w, 1, (k + 1) + 1)
      OBVIOUS
    <3> DEFINE i == (k + 1) + 1
    <3>2. i \in 1..n /\ i # 1 /\ i - 1 = k + 1 /\ k + 1 \in 1..n
      BY <1>1, <3>1
    <3> HIDE DEF i
    <3>3. F[i] = F[i - 1] \o q[i]
      BY <1>1, <2>5, <3>2
    <3>4. F[i - 1] = SubSeq(w, 1, i - 1)
      BY <2>7, <3>2
    <3>5. F[i] = SubSeq(w, 1, i)
      BY <2>2, <3>2, <3>3, <3>4
    <3> QED
      BY <3>5 DEF i
  <2> HIDE DEF T
  <2>8. \A k \in Nat : k \in T
    BY <2>6, <2>7, SetInduction
  <2>9. F[n] = SubSeq(w, 1, n)
    <3>1. n - 1 \in Nat /\ (n - 1) + 1 = n /\ n \in 1..n
      BY <1>1, <1>3
    <3> QED
      BY <2>8, <3>1 DEF T
  <2> QED
    BY <1>1, <2>1, <2>9 DEF q, n
<1> QED
  BY <1>2, <1>3

LEMMA ChildrenFacts ==
  ASSUME NEW tree, IsFiniteSet(tree), tree \subseteq Seq(STRING), NEW path \in Seq(STRING)
  PROVE  IsFiniteSet(Children(tree, path)) /\ Children(tree, path) \subseteq STRING
<1> DEFINE T == {p \in tree : IsStrictPrefix(path, p)}
           n == Len(path) + 1
           C == {p[n] : p \in T}
           f == [p \in T |-> p[n]]
<1>1. IsFiniteSet(T)
  BY FS_Subset
<1>2. f \in Surjection(T, C)
  BY DEF Surjection
<1>3. IsFiniteSet(C)
  <2> HIDE DEF T, C, f
  <2> QED
    BY <1>1, <1>2, FS_Surjection
<1>4. ASSUME NEW p \in T PROVE p[n] \in STRING
  <2>1. p \in Seq(STRING) /\ Len(p) \in Nat /\ Len(path) \in Nat
    OBVIOUS
  <2>2. Len(path) <= Len(p) /\ SubSeq(path, 1, Len(path)) = SubSeq(p, 1, Len(path)) /\ path # p
    BY DEF IsStrictPrefix, IsPrefix
  <2>3. Len(path) # Len(p)
    <3>1. SUFFICES ASSUME Len(path) = Len(p) PROVE FALSE
      OBVIOUS
    <3>2. SubSeq(path, 1, Len(path)) = path /\ SubSeq(p, 1, Len(p)) = p
      BY <2>1
    <3> QED
      BY <2>2, <3>1, <3>2
  <2>4. n \in 1..Len(p)
    BY <2>1, <2>2, <2>3
  <2> QED
    BY <2>1, <2>4
<1>5. Children(tree, path) = C
  BY DEF Children
<1> QED
  BY <1>3, <1>4, <1>5

\* After an assignment the leaf has the value and no other.
SetsOnly(tree, leaf, v) == Children(SetLeaf(tree, leaf, v), leaf) = {v}

LEMMA SetLeafSets ==
  ASSUME NEW tree, tree \subseteq Seq(STRING), NEW leaf \in Seq(STRING), NEW v \in STRING
  PROVE  SetsOnly(tree, leaf, v)
<1> DEFINE a == Append(leaf, v)
           n == Len(leaf)
           U == {p \in tree : ~IsPrefix(leaf, p)}
<1>1. n \in Nat /\ a \in Seq(STRING) /\ Len(a) = n + 1 /\ a[n + 1] = v
      /\ \A i \in 1..n : a[i] = leaf[i]
  <2>1. n \in Nat
    BY LenProperties
  <2>2. a \in Seq(STRING)
    BY AppendProperties
  <2>3. Len(a) = n + 1
    BY AppendProperties
  <2>4. a[n + 1] = v
    BY AppendProperties
  <2>5. \A i \in 1..n : a[i] = leaf[i]
    BY AppendProperties
  <2> QED
    BY <2>1, <2>2, <2>3, <2>4, <2>5
<1>2. SubSeq(leaf, 1, n) = leaf /\ SubSeq(a, 1, n) = leaf
  <2> HIDE DEF a
  <2> QED
    BY <1>1
<1>3. IsStrictPrefix(leaf, a)
  <2> HIDE DEF a
  <2>1. leaf # a /\ n <= Len(a)
    BY <1>1
  <2> QED
    BY <1>2, <2>1 DEF IsStrictPrefix, IsPrefix
<1>4. {p \in U \cup {a} : IsStrictPrefix(leaf, p)} = {a}
  BY <1>3 DEF IsStrictPrefix
<1>5. SetLeaf(tree, leaf, v) = U \cup {a}
  BY DEF SetLeaf
<1>6. Children(U \cup {a}, leaf) = {p[n + 1] : p \in {a}}
  BY <1>4 DEF Children
<1> HIDE DEF a, U, n
<1>7. Children(SetLeaf(tree, leaf, v), leaf) = {v}
  BY <1>1, <1>5, <1>6
<1> QED
  BY <1>7, Zenon DEF SetsOnly

LEMMA RestFacts ==
  ASSUME NEW S, NEW r \in Seq(S), NEW j \in 0..Len(r)
  PROVE  LET q == SubSeq(r, j + 1, Len(r))
         IN  /\ q = <<>> <=> j = Len(r)
             /\ j < Len(r) => Head(q) = r[j + 1] /\ Tail(q) = SubSeq(r, (j + 1) + 1, Len(r))
<1> DEFINE n == Len(r)
           q == SubSeq(r, j + 1, n)
<1>1. n \in Nat /\ j \in Nat /\ j <= n
  OBVIOUS
<1>2. q \in Seq(S) /\ Len(q) = n - j /\ \A i \in 1..n - j : q[i] = r[j + i]
  <2>1. q = [i \in 1..n - j |-> r[j + i]]
    BY <1>1
  <2>2. \A i \in 1..n - j : r[j + i] \in S
    BY <1>1
  <2> HIDE DEF q, n
  <2> QED
    BY <1>1, <2>1, <2>2
<1> HIDE DEF q
<1>3. q = <<>> <=> j = n
  BY <1>1, <1>2
<1>4. ASSUME j < n PROVE Head(q) = r[j + 1] /\ Tail(q) = SubSeq(r, (j + 1) + 1, n)
  <2>1. q # <<>> /\ 1 \in 1..n - j
    BY <1>1, <1>2, <1>4
  <2>2. Head(q) = r[j + 1]
    BY <1>2, <2>1
  <2> DEFINE t == Tail(q)
             u == SubSeq(r, (j + 1) + 1, n)
             m == n - (j + 1)
  <2>3. m \in Nat /\ n - j = m + 1
    BY <1>1, <1>4
  <2>4. t \in Seq(S) /\ Len(t) = m /\ \A i \in 1..m : t[i] = q[i + 1]
    BY <1>2, <2>1, <2>3
  <2>5. \A i \in 1..m : i + 1 \in 1..n - j /\ j + (i + 1) = (j + 1) + i
    BY <1>1, <2>3
  <2>6. \A i \in 1..m : t[i] = r[(j + 1) + i]
    BY <1>2, <2>4, <2>5
  <2>7. u = [i \in 1..m |-> r[(j + 1) + i]]
    BY <1>1, <1>4
  <2> HIDE DEF t, u, m
  <2>8. t = [i \in 1..m |-> t[i]]
    BY <2>3, <2>4
  <2> QED
    BY <2>2, <2>6, <2>7, <2>8 DEF t, u
<1> QED
  BY <1>3, <1>4 DEF q

-----------------------------------------------------------------------------
(* Where the resolution of a reference can be.                             *)

Entry(named, words, typed) == [node |-> named, words |-> words, typed |-> typed]

\* The components up to j are resolved.
PartWay(st, r, td, ps, j) ==
  /\ Absolute(r) => j > 0
  /\ td = <<Frame(SubSeq(r, j + 1, Len(r)), NodeAt(st, Way(st, r)[j]), FALSE)>>
  /\ ps = <<>>

OneNode(td, ps, named) ==
  \/ td = <<Frame(<<>>, named, FALSE)>> /\ ps = <<>>
  \/ td = <<>> /\ ps = <<Entry(Front(named), <<Last(named)>>, FALSE)>>

OneValue(td, ps, named, value) ==
  \/ td = <<Frame(<<>>, Append(named, value), TRUE)>> /\ ps = <<>>
  \/ td = <<>> /\ ps = <<Entry(named, <<value>>, TRUE)>>

LeafNode(td, ps, fl, named, last, names) ==
  \/ td = <<[Frame(<<last>>, named, FALSE) EXCEPT !.leaf = TRUE]>> /\ ps = <<>>
  \/ /\ td = <<>>
     /\ \E words \in {names, <<>>} :
          /\ words = names \/ fl # ""
          /\ \/ ps = <<Entry(named, words, words # <<>>)>>
             \/ words = <<>> /\ ps = <<>>

TagNode(td, ps, named, names, m) ==
  /\ td = [i \in 1..Len(names) - m |-> Frame(<<>>, Append(named, names[m + i]), TRUE)]
  /\ ps = [i \in 1..m |-> Entry(named, <<names[i]>>, TRUE)]

Asking(st, r, names, td, ps, fl) ==
  LET named == NamedNode(st, r)
      kind == Schema[Named(st, r)]
  IN  \/ kind \in {"leaf", "multi"} /\ LeafNode(td, ps, fl, named, Last(r), names)
      \/ kind = "tag" /\ \E m \in 0..Len(names) : TagNode(td, ps, named, names, m)
      \/ kind = "tag" /\ fl # "" /\ td = <<>> /\ ps = <<>>

Resolution(st, r, names, td, ps, fl) ==
  \/ \E j \in 0..Len(Steps(r)) : PartWay(st, r, td, ps, j)
  \/ AsksNode(st, r) /\ OneNode(td, ps, NamedNode(st, r))
  \/ AsksStart(st, r) /\ OneValue(td, ps, NamedNode(st, r), StartValue(st, r))
  \/ AsksValues(st, r) /\ Asking(st, r, names, td, ps, fl)

\* The values of the node of the reference, as configd lists them.
Listed == SetToSeq(Children(Tree, NamedNode(start, ref)))

RefKept ==
  /\ ref_pc \in {"idle", "get", "set"}
  /\ start \in Starts /\ ref \in Refs
  /\ active \in BOOLEAN
  /\ \A t \in Trees : IsFiniteSet(config[t]) /\ config[t] \subseteq Seq(STRING)
  /\ ref_pc # "idle" => orig = OrigOf(start, ref)

\* A reference is on its way to its meaning.
Resolves == ref_pc # "idle" => Resolution(start, ref, Listed, todo, paths, failed)

\* Words that are values, each once, and all of them if no request failed.
Answers(words, values, fl) ==
  /\ words \in Seq(values)
  /\ ToSet(words) \subseteq values
  /\ Len(words) <= Cardinality(values)
  /\ fl = "" => ToSet(words) = values

AnswersMeaning ==
  ref_pc = "idle" /\ answer.kind \in {"value", "nothing"} =>
    Answers(answer.words, StandsFor(start, ref, Tree), failed)

LEMMA OneCall ==
  ASSUME NEW f
  PROVE  <<f>> # <<>> /\ Head(<<f>>) = f /\ Tail(<<f>>) = <<>>
OBVIOUS

\* The calls that are pending for the values of a tag node.
LEMMA TagCalls ==
  ASSUME NEW named, NEW names \in Seq(STRING), NEW m \in 0..Len(names), NEW td, NEW ps,
         TagNode(td, ps, named, names, m), td # <<>>
  PROVE  m < Len(names) /\ Head(td) = Frame(<<>>, Append(named, names[m + 1]), TRUE)
<1> DEFINE k == Len(names) - m
           F(i) == Frame(<<>>, Append(named, names[m + i]), TRUE)
<1>1. Len(names) \in Nat /\ m \in Nat /\ k \in Nat
  OBVIOUS
<1>2. td = [i \in 1..k |-> F(i)]
  BY DEF TagNode
<1> HIDE DEF F
<1>3. k # 0
  <2>1. SUFFICES ASSUME k = 0 PROVE FALSE
    OBVIOUS
  <2>2. td = [i \in 1..0 |-> F(i)]
    BY <1>2, <2>1
  <2>3. td = <<>>
    <3>1. td \in [1..0 -> {0}] /\ DOMAIN td = 1..0
      BY <2>2
    <3> QED
      BY <3>1
  <2> QED
    BY <2>3
<1>4. m < Len(names) /\ k - 1 \in Nat /\ k - 1 = Len(names) - (m + 1)
  BY <1>1, <1>3
<1> HIDE DEF k
<1> DEFINE S == {F(i) : i \in 1..k}
<1>5. td \in Seq(S) /\ Len(td) = k /\ \A i \in 1..k : td[i] = F(i)
  <2>1. td \in [1..k -> S]
    BY <1>2
  <2> HIDE DEF S
  <2> QED
    BY <1>1, <1>2, <2>1
<1> HIDE DEF S
<1>6. Head(td) = F(1)
  BY <1>1, <1>3, <1>5
<1> QED
  BY <1>4, <1>6 DEF F

LEMMA TagCallsNext ==
  ASSUME NEW named, NEW names \in Seq(STRING), NEW m \in 0..Len(names), NEW td, NEW ps,
         TagNode(td, ps, named, names, m), td # <<>>
  PROVE  TagNode(Tail(td), Append(ps, Entry(named, <<names[m + 1]>>, TRUE)), named, names, m + 1)
<1> DEFINE k == Len(names) - m
           F(i) == Frame(<<>>, Append(named, names[m + i]), TRUE)
           E(i) == Entry(named, <<names[i]>>, TRUE)
<1>1. Len(names) \in Nat /\ m \in Nat /\ k \in Nat
  OBVIOUS
<1>2. td = [i \in 1..k |-> F(i)] /\ ps = [i \in 1..m |-> E(i)]
  BY DEF TagNode
<1> HIDE DEF F, E
<1>3. k # 0
  <2>1. m < Len(names)
    BY TagCalls
  <2> QED
    BY <1>1, <2>1
<1>4. m < Len(names) /\ k - 1 \in Nat /\ k - 1 = Len(names) - (m + 1)
  BY <1>1, <1>3
<1> HIDE DEF k
<1> DEFINE S == {F(i) : i \in 1..k}
<1>5. td \in Seq(S) /\ Len(td) = k /\ \A i \in 1..k : td[i] = F(i)
  <2>1. td \in [1..k -> S]
    BY <1>2
  <2> HIDE DEF S
  <2> QED
    BY <1>1, <1>2, <2>1
<1> HIDE DEF S
<1>7. Tail(td) = [i \in 1..k - 1 |-> F(i + 1)]
  <2>1. Tail(td) = [i \in 1..k - 1 |-> td[i + 1]]
    <3> DEFINE t == Tail(td)
    <3>1. t \in Seq(S) /\ Len(t) = k - 1 /\ \A i \in 1..k - 1 : t[i] = td[i + 1]
      BY <1>1, <1>3, <1>5
    <3> HIDE DEF t
    <3>2. t = [i \in 1..k - 1 |-> t[i]]
      BY <1>4, <3>1
    <3> QED
      BY <3>1, <3>2 DEF t
  <2>2. \A i \in 1..k - 1 : td[i + 1] = F(i + 1)
    BY <1>1, <1>3, <1>5
  <2> QED
    BY <2>1, <2>2
<1>8. \A i \in 1..k - 1 : F(i + 1) = Frame(<<>>, Append(named, names[(m + 1) + i]), TRUE)
  <2>1. \A i \in 1..k - 1 : m + (i + 1) = (m + 1) + i
    BY <1>1
  <2> QED
    BY <2>1 DEF F
<1>9. Tail(td) = [i \in 1..Len(names) - (m + 1) |->
                    Frame(<<>>, Append(named, names[(m + 1) + i]), TRUE)]
  BY <1>4, <1>7, <1>8
<1> DEFINE P == {E(i) : i \in 1..m + 1}
<1>10. ps \in Seq(P) /\ Len(ps) = m /\ \A i \in 1..m : ps[i] = E(i)
  <2>1. ps \in [1..m -> P]
    BY <1>1, <1>2
  <2> HIDE DEF P
  <2> QED
    BY <1>1, <1>2, <2>1
<1>11. E(m + 1) \in P
  BY <1>1
<1> HIDE DEF P
<1> DEFINE a == Append(ps, E(m + 1))
<1>12. /\ a \in Seq(P) /\ Len(a) = m + 1 /\ a[m + 1] = E(m + 1) /\ \A i \in 1..m : a[i] = ps[i]
  BY <1>1, <1>10, <1>11
<1> HIDE DEF a
<1>13. \A i \in 1..m + 1 : a[i] = E(i)
  BY <1>1, <1>10, <1>12
<1>14. a = [i \in 1..m + 1 |-> E(i)]
  <2>1. a = [i \in 1..m + 1 |-> a[i]]
    BY <1>1, <1>12
  <2> QED
    BY <1>13, <2>1
<1> QED
  BY <1>9, <1>14 DEF TagNode, a, E

\* The call at the head is on the way, at the component after j.
OnWay(st, r, td, ps, j) ==
  /\ Absolute(r) => j > 0
  /\ j < Len(r) /\ ps = <<>> /\ Tail(td) = <<>>
  /\ Head(td) = Frame(SubSeq(r, j + 1, Len(r)), NodeAt(st, Way(st, r)[j]), FALSE)
  /\ Head(Head(td).rest) = r[j + 1]
  /\ Tail(Head(td).rest) = SubSeq(r, (j + 1) + 1, Len(r))
  /\ Head(td).path = NodeAt(st, Way(st, r)[j])

\* A call with components left is on the way.
LEMMA WalksOn ==
  ASSUME NEW st \in Starts, NEW r \in Refs, NEW names \in Seq(STRING), NEW td, NEW ps, NEW fl,
         Resolution(st, r, names, td, ps, fl), td # <<>>, ~Head(td).leaf, Head(td).rest # <<>>
  PROVE  \E j \in 0..Len(Steps(r)) : OnWay(st, r, td, ps, j)
<1>1. ASSUME NEW j \in 0..Len(Steps(r)), PartWay(st, r, td, ps, j)
      PROVE  OnWay(st, r, td, ps, j)
  <2> DEFINE q == SubSeq(r, j + 1, Len(r))
             p == NodeAt(st, Way(st, r)[j])
  <2>1. td = <<Frame(q, p, FALSE)>> /\ ps = <<>> /\ (Absolute(r) => j > 0)
    BY <1>1 DEF PartWay
  <2> HIDE DEF q, p
  <2>2. Head(td) = Frame(q, p, FALSE) /\ Tail(td) = <<>>
    BY <2>1, OneCall
  <2>3. Head(td).rest = q /\ Head(td).path = p
    BY <2>2 DEF Frame
  <2>4. j \in 0..Len(r) /\ r \in Seq(STRING) /\ Len(r) \in Nat
    BY StepsFacts
  <2>5. (q = <<>> <=> j = Len(r))
        /\ (j < Len(r) => Head(q) = r[j + 1] /\ Tail(q) = SubSeq(r, (j + 1) + 1, Len(r)))
    BY <2>4, RestFacts DEF q
  <2>6. j < Len(r)
    BY <2>3, <2>4, <2>5
  <2> QED
    BY <2>1, <2>2, <2>3, <2>5, <2>6 DEF q, p, OnWay
<1>2. CASE AsksNode(st, r) /\ OneNode(td, ps, NamedNode(st, r))
  <2>1. td = <<Frame(<<>>, NamedNode(st, r), FALSE)>>
    BY <1>2 DEF OneNode
  <2>2. Head(td).rest = <<>>
    BY <2>1 DEF Frame
  <2> QED
    BY <2>2
<1>3. CASE AsksStart(st, r) /\ OneValue(td, ps, NamedNode(st, r), StartValue(st, r))
  <2>1. td = <<Frame(<<>>, Append(NamedNode(st, r), StartValue(st, r)), TRUE)>>
    BY <1>3 DEF OneValue
  <2>2. Head(td).rest = <<>>
    BY <2>1 DEF Frame
  <2> QED
    BY <2>2
<1>4. CASE AsksValues(st, r) /\ Asking(st, r, names, td, ps, fl)
  <2> DEFINE named == NamedNode(st, r)
  <2>1. CASE LeafNode(td, ps, fl, named, Last(r), names)
    <3>1. td = <<[Frame(<<Last(r)>>, named, FALSE) EXCEPT !.leaf = TRUE]>>
      BY <2>1 DEF LeafNode
    <3>2. Head(td).leaf
      BY <3>1 DEF Frame
    <3> QED
      BY <3>2
  <2>2. ASSUME NEW m \in 0..Len(names), TagNode(td, ps, named, names, m) PROVE FALSE
    <3>1. Head(td) = Frame(<<>>, Append(named, names[m + 1]), TRUE)
      <4>1. ASSUME NEW x, TagNode(td, ps, x, names, m)
            PROVE  Head(td) = Frame(<<>>, Append(x, names[m + 1]), TRUE)
        BY <4>1, TagCalls
      <4> QED
        BY <2>2, <4>1
    <3>2. Head(td).rest = <<>>
      BY <3>1 DEF Frame
    <3> QED
      BY <3>2
  <2> QED
    BY <1>4, <2>1, <2>2 DEF Asking
<1> QED
  BY <1>1, <1>2, <1>3, <1>4 DEF Resolution

-----------------------------------------------------------------------------
(* Every step of the resolution of a reference that has a meaning.         *)

Midway ==
  /\ RefKept /\ ref_pc # "idle" /\ Meaningful(start, ref)
  /\ Resolution(start, ref, Listed, todo, paths, failed)

LEMMA ListedFacts ==
  ASSUME RefKept, Meaningful(start, ref)
  PROVE  /\ Listed \in Seq(STRING)
         /\ ToSet(Listed) = Children(Tree, NamedNode(start, ref))
         /\ Len(Listed) = Cardinality(Children(Tree, NamedNode(start, ref)))
         /\ Len(Listed) \in Nat
         /\ Listed \in Seq(Children(Tree, NamedNode(start, ref)))
<1> DEFINE C == Children(Tree, NamedNode(start, ref))
<1>1. start \in Starts /\ ref \in Refs
  BY DEF RefKept
<1>2. IsFiniteSet(Tree) /\ Tree \subseteq Seq(STRING)
  <2>1. Tree = config["RUNNING"] \/ Tree = config["CANDIDATE"]
    BY DEF Tree
  <2> QED
    BY <2>1 DEF RefKept, Trees
<1>3. NamedNode(start, ref) \in Seq(STRING)
  BY <1>1, NamedFacts
<1>4. IsFiniteSet(C) /\ C \subseteq STRING
  BY <1>2, <1>3, ChildrenFacts
<1> HIDE DEF C
<1>5. SetToSeq(C) \in Seq(C) /\ Len(SetToSeq(C)) = Cardinality(C) /\ ToSet(SetToSeq(C)) = C
  BY <1>4, SetToSeqFacts
<1>6. SetToSeq(C) \in Seq(STRING)
  <2> DEFINE f == SetToSeq(C)
  <2>1. f \in [1..Len(f) -> C] /\ Len(f) \in Nat
    BY <1>5
  <2> HIDE DEF f
  <2>2. f \in [1..Len(f) -> STRING]
    BY <1>4, <2>1
  <2>3. f \in Seq(STRING)
    BY <2>1, <2>2
  <2> QED
    BY <2>3 DEF f
<1>7. Listed = SetToSeq(C)
  BY DEF Listed, C
<1> QED
  BY <1>5, <1>6, <1>7 DEF C

LEMMA AtComponent ==
  ASSUME Midway, NEW comps, Component(comps)
  PROVE  \E j \in 0..Len(Steps(ref)) :
            /\ Absolute(ref) => j > 0
            /\ j < Len(ref) /\ paths = <<>> /\ Tail(todo) = <<>>
            /\ Pending = Frame(SubSeq(ref, j + 1, Len(ref)), NodeAt(start, Way(start, ref)[j]), FALSE)
            /\ ref[j + 1] \in comps /\ Head(Pending.rest) = ref[j + 1]
            /\ Rest = SubSeq(ref, (j + 1) + 1, Len(ref))
            /\ Path = NodeAt(start, Way(start, ref)[j])
<1>1. /\ start \in Starts /\ ref \in Refs /\ RefKept /\ Meaningful(start, ref)
      /\ Resolution(start, ref, Listed, todo, paths, failed)
  BY DEF Midway, RefKept
<1>2. Listed \in Seq(STRING)
  BY <1>1, ListedFacts
<1>3. todo # <<>> /\ ~Head(todo).leaf /\ Head(todo).rest # <<>> /\ Head(Head(todo).rest) \in comps
  BY DEF Component, Pending
<1>4. PICK j \in 0..Len(Steps(ref)) : OnWay(start, ref, todo, paths, j)
  BY <1>1, <1>2, <1>3, WalksOn
<1> QED
  BY <1>3, <1>4 DEF OnWay, Pending, Rest, Path

LEMMA OnlyHead ==
  ASSUME NEW S, NEW q \in Seq(S), q # <<>>, Tail(q) = <<>>
  PROVE  q = <<Head(q)>>
<1> DEFINE t == Tail(q)
<1>1. Len(t) = Len(q) - 1 /\ Len(q) \in Nat
  BY HeadTailProperties
<1>2. Len(t) = 0
  BY EmptySeq
<1>3. Len(q) = 1
  BY <1>1, <1>2
<1>4. Head(q) = q[1]
  BY <1>3
<1> QED
  BY <1>3, <1>4

\* @ and @@ are the end of the reference.
LEMMA StepOrEnd ==
  ASSUME NEW st \in Starts, NEW r \in Refs, Meaningful(st, r),
         NEW j \in 0..Len(Steps(r)), j < Len(r)
  PROVE  /\ r[j + 1] \notin {"@", "@@"} => j \in 0..Len(Steps(r)) - 1
         /\ r[j + 1] \in {"@", "@@"} =>
              /\ j = Len(Steps(r)) /\ Last(r) = r[j + 1]
              /\ SubSeq(r, (j + 1) + 1, Len(r)) = <<>>
              /\ SubSeq(r, j + 1, Len(r)) = <<Last(r)>>
<1> DEFINE n == Len(Steps(r))
<1>1. /\ r \in Seq(STRING) /\ Len(r) \in Nat /\ n \in Nat
      /\ n = IF Last(r) \in {"@", "@@"} THEN Len(r) - 1 ELSE Len(r)
      /\ \A i \in 1..n : Steps(r)[i] = r[i]
  BY StepsFacts
<1>2. \A i \in 1..n : r[i] \notin {"@", "@@"}
  <2>1. DOMAIN Steps(r) = 1..n
    BY StepsFacts
  <2>2. \A i \in DOMAIN Steps(r) : Steps(r)[i] \notin {"@", "@@"}
    BY DEF Meaningful, Regular
  <2> QED
    BY <1>1, <2>1, <2>2
<1> HIDE DEF n
<1>3. j \in 0..n /\ j \in Nat
  BY <1>1 DEF n
<1>4. ASSUME r[j + 1] \notin {"@", "@@"} PROVE j \in 0..n - 1
  <2>1. CASE Last(r) \in {"@", "@@"}
    <3>1. j + 1 # Len(r)
      BY <1>4, <2>1 DEF Last
    <3> QED
      BY <1>1, <1>3, <2>1, <3>1
  <2>2. CASE Last(r) \notin {"@", "@@"}
    BY <1>1, <1>3, <2>2
  <2> QED
    BY <2>1, <2>2
<1>5. ASSUME r[j + 1] \in {"@", "@@"}
      PROVE  /\ j = n /\ Last(r) = r[j + 1]
             /\ SubSeq(r, (j + 1) + 1, Len(r)) = <<>> /\ SubSeq(r, j + 1, Len(r)) = <<Last(r)>>
  <2>1. j + 1 \notin 1..n
    BY <1>2, <1>5
  <2>2. j = n /\ Len(r) = j + 1
    BY <1>1, <1>3, <2>1
  <2> DEFINE q == SubSeq(r, j + 1, Len(r))
  <2>3. SubSeq(r, (j + 1) + 1, Len(r)) = <<>>
    <3>1. j + 1 \in 0..Len(r) /\ j + 1 = Len(r)
      BY <1>1, <1>3, <2>2
    <3> QED
      BY <1>1, <3>1, RestFacts
  <2>4. q = <<r[j + 1]>>
    <3>1. q \in Seq(STRING) /\ j \in 0..Len(r) /\ j < Len(r) /\ j # Len(r)
      BY <1>1, <1>3, <2>2
    <3>2. q # <<>> /\ Head(q) = r[j + 1] /\ Tail(q) = <<>>
      BY <1>1, <2>3, <3>1, RestFacts
    <3> HIDE DEF q
    <3> QED
      BY <3>1, <3>2, OnlyHead
  <2> QED
    BY <2>2, <2>3, <2>4 DEF Last
<1> QED
  BY <1>4, <1>5 DEF n

LEMMA OneFrame ==
  ASSUME NEW f
  PROVE  <<f>> \o <<>> = <<f>>
OBVIOUS

\* The next node on the way.
LEMMA WalkGoesOn ==
  ASSUME NEW st, NEW r \in Refs, NEW names, NEW fl, NEW j \in 0..Len(Steps(r)) - 1,
         NEW td, td = <<Frame(SubSeq(r, (j + 1) + 1, Len(r)), NodeAt(st, Way(st, r)[j + 1]), FALSE)>>
  PROVE  Resolution(st, r, names, td, <<>>, fl)
<1>1. j + 1 \in 0..Len(Steps(r)) /\ j + 1 > 0
  BY StepsFacts
<1>2. PartWay(st, r, td, <<>>, j + 1)
  BY <1>1 DEF PartWay
<1> QED
  BY <1>1, <1>2 DEF Resolution

LEMMA RefDotResolves ==
  ASSUME Midway, RefDot
  PROVE  Resolution(start, ref, Listed, todo', paths', failed')
<1>1. Component({"."}) /\ paths' = paths /\ failed' = failed
      /\ todo' = <<Frame(Rest, Path, FALSE)>> \o Tail(todo)
  BY DEF RefDot, Resolving, Becomes
<1>2. start \in Starts /\ ref \in Refs /\ Meaningful(start, ref)
  BY DEF Midway, RefKept
<1>3. PICK j \in 0..Len(Steps(ref)) :
            /\ j < Len(ref) /\ paths = <<>> /\ Tail(todo) = <<>> /\ ref[j + 1] \in {"."}
            /\ Rest = SubSeq(ref, (j + 1) + 1, Len(ref))
            /\ Path = NodeAt(start, Way(start, ref)[j])
  BY <1>1, AtComponent
<1>4. j \in 0..Len(Steps(ref)) - 1
  BY <1>2, <1>3, StepOrEnd
<1>5. Way(start, ref)[j + 1] = Way(start, ref)[j]
  BY <1>2, <1>3, <1>4, DotStays
<1>6. todo' = <<Frame(Rest, Path, FALSE)>>
  BY <1>1, <1>3, OneFrame
<1>7. todo' = <<Frame(SubSeq(ref, (j + 1) + 1, Len(ref)), NodeAt(start, Way(start, ref)[j + 1]), FALSE)>>
  BY <1>3, <1>5, <1>6
<1>8. Resolution(start, ref, Listed, todo', <<>>, failed')
  BY <1>2, <1>4, <1>7, WalkGoesOn
<1> QED
  BY <1>1, <1>3, <1>8

LEMMA RefDotDotResolves ==
  ASSUME Midway, RefDotDot
  PROVE  Resolution(start, ref, Listed, todo', paths', failed')
<1>1. /\ Component({".."}) /\ paths' = paths /\ failed' = failed
      /\ IF ~Got(Path) \/ Path = <<>> \/ (Len(Path) > 1 /\ ~Got(Front(Path)))
           THEN Invalid
           ELSE todo' = <<Frame(Rest, Parent(Path), FALSE)>> \o Tail(todo)
  BY DEF RefDotDot, Resolving, Becomes
<1>2. start \in Starts /\ ref \in Refs /\ Meaningful(start, ref)
  BY DEF Midway, RefKept
<1>3. PICK j \in 0..Len(Steps(ref)) :
            /\ j < Len(ref) /\ paths = <<>> /\ Tail(todo) = <<>> /\ ref[j + 1] \in {".."}
            /\ Rest = SubSeq(ref, (j + 1) + 1, Len(ref))
            /\ Path = NodeAt(start, Way(start, ref)[j])
  BY <1>1, AtComponent
<1>4. j \in 0..Len(Steps(ref)) - 1
  BY <1>2, <1>3, StepOrEnd
<1>5. /\ Got(Path) /\ Path # <<>> /\ (Len(Path) > 1 => Got(Front(Path)))
      /\ NodeAt(start, Way(start, ref)[j + 1]) = Parent(Path)
  <2>1. ref[j + 1] = ".."
    BY <1>3
  <2> DEFINE p == NodeAt(start, Way(start, ref)[j])
  <2>2. /\ Got(p) /\ p # <<>> /\ (Len(p) > 1 => Got(Front(p)))
        /\ NodeAt(start, Way(start, ref)[j + 1]) = Parent(p)
    BY <1>2, <1>4, <2>1, DotsGoUp
  <2> HIDE DEF p
  <2>3. Path = p
    BY <1>3 DEF p
  <2> QED
    BY <2>2, <2>3
<1>6. todo' = <<Frame(Rest, Parent(Path), FALSE)>> \o Tail(todo)
  BY <1>1, <1>5
<1>7. todo' = <<Frame(Rest, Parent(Path), FALSE)>>
  BY <1>3, <1>6, OneFrame
<1>8. todo' = <<Frame(SubSeq(ref, (j + 1) + 1, Len(ref)), NodeAt(start, Way(start, ref)[j + 1]), FALSE)>>
  BY <1>3, <1>5, <1>7
<1>9. Resolution(start, ref, Listed, todo', <<>>, failed')
  BY <1>2, <1>4, <1>8, WalkGoesOn
<1> QED
  BY <1>1, <1>3, <1>9

LEMMA OrigIs ==
  ASSUME Midway
  PROVE  orig = OrigOf(start, ref)
BY DEF Midway, RefKept

LEMMA RefTextResolves ==
  ASSUME Midway, RefText
  PROVE  Resolution(start, ref, Listed, todo', paths', failed')
<1> DEFINE comps == {Head(Pending.rest)} \ {"@", "@@", ".", ".."}
           h == Head(Pending.rest)
<1>1. /\ Component(comps) /\ paths' = paths /\ failed' = failed
      /\ IF ~IsTagNode(Path) THEN todo' = <<Frame(Rest, Append(Path, h), FALSE)>> \o Tail(todo)
         ELSE IF Len(Path) > Len(orig) THEN Invalid
         ELSE todo' = <<Frame(Rest, Append(Append(Path, TagValue(Path)), h), FALSE)>> \o Tail(todo)
  BY DEF RefText, Resolving, Becomes
<1>2. start \in Starts /\ ref \in Refs /\ Meaningful(start, ref)
  BY DEF Midway, RefKept
<1> HIDE DEF comps, h
<1>3. PICK j \in 0..Len(Steps(ref)) :
            /\ Absolute(ref) => j > 0
            /\ j < Len(ref) /\ paths = <<>> /\ Tail(todo) = <<>> /\ ref[j + 1] \in comps
            /\ h = ref[j + 1]
            /\ Rest = SubSeq(ref, (j + 1) + 1, Len(ref))
            /\ Path = NodeAt(start, Way(start, ref)[j])
  BY <1>1, AtComponent DEF h
<1>4. ref[j + 1] \notin {"@", "@@", ".", ".."}
  BY <1>3 DEF comps
<1>5. j \in 0..Len(Steps(ref)) - 1
  BY <1>2, <1>3, <1>4, StepOrEnd
<1>6. ref[j + 1] # "/"
  <2>1. Len(ref) \in Nat /\ \A i \in 2..Len(ref) : ref[i] # "/"
    BY <1>2, StepsFacts
  <2>2. CASE j = 0
    <3>1. Head(ref) # "/"
      BY <1>3, <2>2 DEF Absolute
    <3>2. Head(ref) = ref[1]
      BY <1>2, StepsFacts
    <3> QED
      BY <2>2, <3>1, <3>2
  <2>3. CASE j > 0
    <3>1. j + 1 \in 2..Len(ref)
      BY <1>3, <2>1, <2>3
    <3> QED
      BY <2>1, <3>1
  <2> QED
    BY <2>2, <2>3
<1>7. ref[j + 1] \notin {"@", "@@", ".", "..", "/"}
  BY <1>4, <1>6
<1> DEFINE q == NodeAt(start, Way(start, ref)[j + 1])
<1>8. /\ ~IsTagNode(Path) => q = Append(Path, h)
      /\ IsTagNode(Path) =>
           /\ ~Absolute(ref) /\ Len(Path) <= Len(NodeOf(start))
           /\ q = Append(Append(Path, IF Len(Path) = Len(NodeOf(start))
                                      THEN Last(start) ELSE NodeOf(start)[Len(Path) + 1]), h)
  <2> DEFINE p == NodeAt(start, Way(start, ref)[j])
  <2>1. /\ ~IsTagNode(p) => q = Append(p, ref[j + 1])
        /\ IsTagNode(p) =>
             /\ ~Absolute(ref) /\ Len(p) <= Len(NodeOf(start))
             /\ q = Append(Append(p, IF Len(p) = Len(NodeOf(start))
                                     THEN Last(start) ELSE NodeOf(start)[Len(p) + 1]), ref[j + 1])
    BY <1>2, <1>5, <1>7, TextGoesDown
  <2> HIDE DEF p, q
  <2>2. Path = p /\ h = ref[j + 1]
    BY <1>3 DEF p
  <2> QED
    BY <2>1, <2>2
<1> HIDE DEF q
<1>9. todo' = <<Frame(Rest, q, FALSE)>> \o Tail(todo)
  <2>1. CASE ~IsTagNode(Path)
    BY <1>1, <1>8, <2>1
  <2>2. CASE IsTagNode(Path)
    <3>1. orig = NodeOf(start)
      BY <1>8, <2>2, OrigIs DEF OrigOf
    <3>2. TagValue(Path) = IF Len(Path) = Len(NodeOf(start))
                           THEN Last(start) ELSE NodeOf(start)[Len(Path) + 1]
      BY <3>1 DEF TagValue, at_string
    <3>3. ~(Len(Path) > Len(orig))
      <4>1. NodeOf(start) \in Seq(STRING) /\ Path \in Seq(STRING)
        BY <1>2, <1>3, StartFacts, WayFacts
      <4> QED
        BY <1>8, <2>2, <3>1, <4>1
    <3>4. q = Append(Append(Path, TagValue(Path)), h)
      BY <1>8, <2>2, <3>2
    <3> QED
      BY <1>1, <2>2, <3>3, <3>4
  <2> QED
    BY <2>1, <2>2
<1>10. todo' = <<Frame(Rest, q, FALSE)>>
  BY <1>3, <1>9, OneFrame
<1>11. Resolution(start, ref, Listed, todo', <<>>, failed')
  BY <1>2, <1>3, <1>5, <1>10, WalkGoesOn DEF q
<1> QED
  BY <1>1, <1>3, <1>11

\* The end of the reference is asked at the node that it names.
LEMMA AtEnd ==
  ASSUME Midway, NEW c \in {"@", "@@"}, Component({c})
  PROVE  /\ Last(ref) = c /\ paths = <<>> /\ Tail(todo) = <<>>
         /\ Rest = <<>> /\ Path = NamedNode(start, ref)
         /\ Pending = Frame(<<Last(ref)>>, NamedNode(start, ref), FALSE)
<1>1. start \in Starts /\ ref \in Refs /\ Meaningful(start, ref)
  BY DEF Midway, RefKept
<1>2. PICK j \in 0..Len(Steps(ref)) :
            /\ j < Len(ref) /\ paths = <<>> /\ Tail(todo) = <<>>
            /\ Pending = Frame(SubSeq(ref, j + 1, Len(ref)), NodeAt(start, Way(start, ref)[j]), FALSE)
            /\ ref[j + 1] \in {c}
            /\ Rest = SubSeq(ref, (j + 1) + 1, Len(ref))
            /\ Path = NodeAt(start, Way(start, ref)[j])
  BY AtComponent
<1>3. ref[j + 1] = c
  BY <1>2
<1>4. /\ j = Len(Steps(ref)) /\ Last(ref) = ref[j + 1]
      /\ SubSeq(ref, (j + 1) + 1, Len(ref)) = <<>>
      /\ SubSeq(ref, j + 1, Len(ref)) = <<Last(ref)>>
  BY <1>1, <1>2, <1>3, StepOrEnd
<1>5. NodeAt(start, Way(start, ref)[j]) = NamedNode(start, ref)
  BY <1>4 DEF NamedNode, Named
<1> QED
  BY <1>2, <1>3, <1>4, <1>5

\* What the code learns at the node that the reference names.
LEMMA NamedLearned ==
  ASSUME NEW st \in Starts, NEW r \in Refs, Meaningful(st, r)
  PROVE  LET p == NamedNode(st, r)
             kind == Schema[Named(st, r)]
         IN  /\ Got(p) /\ ~IsValue(p) /\ p # <<>> /\ p \in Seq(STRING)
             /\ IsTypeless(p) <=> kind = "container"
             /\ IsTagNode(p) <=> kind = "tag"
             /\ IsLeafNode(p) <=> kind \in {"leaf", "multi"}
             /\ Is("multi", p) <=> kind = "multi"
             /\ NodeKinds(p) = {kind}
             /\ kind \in {"container", "tag", "leaf", "multi"}
<1> DEFINE s == Named(st, r)
           p == NamedNode(st, r)
<1>1. s \in DOMAIN Schema /\ p \in Seq(STRING) /\ Matches(s, p)
      /\ Schema[s] \in {"container", "tag", "leaf", "multi"}
  BY NamedFacts
<1> HIDE DEF s, p
<1>2. /\ Got(p) /\ ~IsValue(p) /\ p # <<>>
      /\ IsTypeless(p) <=> Schema[s] = "container"
      /\ IsTagNode(p) <=> Schema[s] = "tag"
      /\ IsLeafNode(p) <=> Schema[s] \in {"leaf", "multi"}
      /\ Is("multi", p) <=> Schema[s] = "multi"
      /\ NodeKinds(p) = {Schema[s]}
  BY <1>1, NodeFacts
<1> QED
  BY <1>1, <1>2 DEF s, p

LEMMA RefAtResolves ==
  ASSUME Midway, RefAt
  PROVE  Resolution(start, ref, Listed, todo', paths', failed')
<1> DEFINE named == NamedNode(start, ref)
           kind == Schema[Named(start, ref)]
<1>1. start \in Starts /\ ref \in Refs /\ Meaningful(start, ref)
  BY DEF Midway, RefKept
<1>2. Component({"@"}) /\ paths' = paths /\ failed' = failed
  BY DEF RefAt, Resolving
<1>3. /\ Last(ref) = "@" /\ paths = <<>> /\ Tail(todo) = <<>> /\ Rest = <<>> /\ Path = named
      /\ Pending = Frame(<<Last(ref)>>, named, FALSE)
  BY <1>2, AtEnd
<1>4. /\ Got(named) /\ (IsTypeless(named) <=> kind = "container")
      /\ (IsLeafNode(named) <=> kind \in {"leaf", "multi"})
      /\ kind \in {"container", "tag", "leaf", "multi"} /\ named \in Seq(STRING)
  BY <1>1, NamedLearned
<1>5. orig = OrigOf(start, ref)
  BY OrigIs
<1> HIDE DEF named, kind
<1>6. CASE kind = "container"
  <2>1. AsksNode(start, ref)
    BY <1>1, <1>3, <1>6, Asked DEF kind
  <2>2. Becomes(<<Frame(Rest, Path, FALSE)>>)
    BY <1>3, <1>4, <1>6 DEF RefAt
  <2>3. todo' = <<Frame(<<>>, named, FALSE)>>
    BY <1>3, <2>2, OneFrame DEF Becomes
  <2>4. OneNode(todo', paths', named)
    BY <1>2, <1>3, <2>3 DEF OneNode
  <2> QED
    BY <2>1, <2>4 DEF Resolution, named
<1>7. CASE kind # "container" /\ named = OrigOf(start, ref)
  <2>1. AsksStart(start, ref)
    BY <1>1, <1>3, <1>7, Asked DEF kind, named
  <2>2. Last(start) = StartValue(start, ref)
    BY <1>1, <1>7, AtOfStart DEF kind, named
  <2>3. Becomes(<<Frame(Rest, Append(Path, at_string), TRUE)>>)
    BY <1>3, <1>4, <1>5, <1>7 DEF RefAt
  <2>4. todo' = <<Frame(<<>>, Append(named, StartValue(start, ref)), TRUE)>>
    BY <1>3, <2>2, <2>3, OneFrame DEF Becomes, at_string
  <2>5. OneValue(todo', paths', named, StartValue(start, ref))
    BY <1>2, <1>3, <2>4 DEF OneValue
  <2> QED
    BY <2>1, <2>5 DEF Resolution, named
<1>8. CASE kind = "tag" /\ named # OrigOf(start, ref)
  <2>1. AsksStart(start, ref)
    BY <1>1, <1>3, <1>8, Asked DEF kind
  <2>2. Len(named) < Len(OrigOf(start, ref))
        /\ OrigOf(start, ref)[Len(named) + 1] = StartValue(start, ref)
    BY <1>1, <1>3, <1>8, AtOfTag DEF kind, named
  <2>3. IF Len(Path) < Len(orig)
              THEN Becomes(<<Frame(Rest, Append(Path, orig[Len(Path) + 1]), TRUE)>>)
              ELSE Invalid
    BY <1>3, <1>4, <1>5, <1>8 DEF RefAt
  <2>4. Becomes(<<Frame(<<>>, Append(named, StartValue(start, ref)), TRUE)>>)
    BY <1>3, <1>5, <2>2, <2>3
  <2>5. todo' = <<Frame(<<>>, Append(named, StartValue(start, ref)), TRUE)>>
    BY <1>3, <2>4, OneFrame DEF Becomes
  <2>6. OneValue(todo', paths', named, StartValue(start, ref))
    BY <1>2, <1>3, <2>5 DEF OneValue
  <2> QED
    BY <2>1, <2>6 DEF Resolution, named
<1>9. CASE kind \in {"leaf", "multi"} /\ named # OrigOf(start, ref)
  <2>1. AsksValues(start, ref)
    BY <1>1, <1>3, <1>9, Asked DEF kind, named
  <2>2. Becomes(<<HandleLeaf>>)
    BY <1>3, <1>4, <1>5, <1>9 DEF RefAt
  <2>3. todo' = <<[Frame(<<Last(ref)>>, named, FALSE) EXCEPT !.leaf = TRUE]>>
    BY <1>3, <2>2, OneFrame DEF Becomes, HandleLeaf
  <2>4. LeafNode(todo', paths', failed', named, Last(ref), Listed)
    BY <1>2, <1>3, <2>3 DEF LeafNode
  <2>5. Asking(start, ref, Listed, todo', paths', failed')
    BY <1>9, <2>4 DEF Asking, named, kind
  <2> QED
    BY <2>1, <2>5 DEF Resolution
<1> QED
  BY <1>4, <1>6, <1>7, <1>8, <1>9

LEMMA RefAtAtResolves ==
  ASSUME Midway, RefAtAt
  PROVE  Resolution(start, ref, Listed, todo', paths', failed')
<1> DEFINE named == NamedNode(start, ref)
           kind == Schema[Named(start, ref)]
<1>1. start \in Starts /\ ref \in Refs /\ Meaningful(start, ref) /\ RefKept
  BY DEF Midway, RefKept
<1>2. Component({"@@"}) /\ paths' = paths /\ failed' = failed
  BY DEF RefAtAt, Resolving
<1>3. /\ Last(ref) = "@@" /\ paths = <<>> /\ Tail(todo) = <<>> /\ Rest = <<>> /\ Path = named
      /\ Pending = Frame(<<Last(ref)>>, named, FALSE)
  BY <1>2, AtEnd
<1>4. /\ Got(named) /\ ~IsValue(named) /\ (IsTypeless(named) <=> kind = "container")
      /\ (IsTagNode(named) <=> kind = "tag")
      /\ kind \in {"container", "tag", "leaf", "multi"} /\ named \in Seq(STRING)
  BY <1>1, NamedLearned
<1>5. AsksValues(start, ref) /\ kind # "container"
  BY <1>1, <1>3, Asked
<1>6. Listed \in Seq(STRING) /\ Len(Listed) \in Nat
  BY <1>1, ListedFacts
<1> HIDE DEF named, kind
<1>7. CASE kind = "tag"
  <2>1. Becomes(Each(Path))
    BY <1>3, <1>4, <1>7 DEF RefAtAt
  <2> DEFINE E == [i \in 1..Len(Listed) |-> Frame(<<>>, Append(named, Listed[i]), TRUE)]
  <2>2. Each(Path) = E
    <3>1. SetToSeq(Children(Tree, Path)) = Listed /\ DOMAIN Listed = 1..Len(Listed)
      BY <1>3, <1>6 DEF Listed, named
    <3>2. Each(Path) = [i \in DOMAIN Listed |-> Frame(Rest, Append(Path, Listed[i]), ~IsTypeless(Path))]
      BY <3>1 DEF Each
    <3>3. (~IsTypeless(Path)) = TRUE
      BY <1>3, <1>4, <1>7
    <3> QED
      BY <1>3, <3>1, <3>2, <3>3
  <2>3. todo' = E \o <<>>
    BY <1>3, <2>1, <2>2 DEF Becomes
  <2>4. E \o <<>> = E
    <3> DEFINE S == {E[i] : i \in 1..Len(Listed)}
    <3>1. E \in [1..Len(Listed) -> S]
      OBVIOUS
    <3> HIDE DEF S, E
    <3>2. E \in Seq(S)
      BY <1>6, <3>1
    <3> QED
      BY <3>2
  <2>5. E = [i \in 1..Len(Listed) - 0 |-> Frame(<<>>, Append(named, Listed[0 + i]), TRUE)]
    <3>1. Len(Listed) - 0 = Len(Listed) /\ \A i \in 1..Len(Listed) : 0 + i = i
      BY <1>6
    <3> QED
      BY <3>1
  <2>6. <<>> = [i \in 1..0 |-> Entry(named, <<Listed[i]>>, TRUE)]
    OBVIOUS
  <2> HIDE DEF E
  <2>7. TagNode(todo', paths', named, Listed, 0)
    BY <1>2, <1>3, <2>3, <2>4, <2>5, <2>6 DEF TagNode
  <2>8. 0 \in 0..Len(Listed)
    BY <1>6
  <2>9. Asking(start, ref, Listed, todo', paths', failed')
    BY <1>7, <2>7, <2>8 DEF Asking, named, kind
  <2> QED
    BY <1>5, <2>9 DEF Resolution
<1>8. CASE kind \in {"leaf", "multi"}
  <2>1. Becomes(<<HandleLeaf>>)
    BY <1>3, <1>4, <1>8 DEF RefAtAt
  <2>2. todo' = <<[Frame(<<Last(ref)>>, named, FALSE) EXCEPT !.leaf = TRUE]>>
    BY <1>3, <2>1, OneFrame DEF Becomes, HandleLeaf
  <2>3. LeafNode(todo', paths', failed', named, Last(ref), Listed)
    BY <1>2, <1>3, <2>2 DEF LeafNode
  <2>4. Asking(start, ref, Listed, todo', paths', failed')
    BY <1>8, <2>3 DEF Asking, named, kind
  <2> QED
    BY <1>5, <2>4 DEF Resolution
<1> QED
  BY <1>4, <1>5, <1>7, <1>8

LEMMA ChildrenFailResolves ==
  ASSUME Midway, ChildrenFail
  PROVE  Resolution(start, ref, Listed, todo', paths', failed')
<1> DEFINE named == NamedNode(start, ref)
           kind == Schema[Named(start, ref)]
<1>1. start \in Starts /\ ref \in Refs /\ Meaningful(start, ref)
  BY DEF Midway, RefKept
<1>2. Component({"@@"}) /\ paths' = paths /\ failed' = "values" /\ todo' = <<>> \o Tail(todo)
      /\ (IsTypeless(Path) \/ IsTagNode(Path))
  BY DEF ChildrenFail, Fails, Invalid, Becomes
<1>3. /\ Last(ref) = "@@" /\ paths = <<>> /\ Tail(todo) = <<>> /\ Path = named
  BY <1>2, AtEnd
<1>4. (IsTypeless(named) <=> kind = "container") /\ (IsTagNode(named) <=> kind = "tag")
  BY <1>1, NamedLearned
<1>5. AsksValues(start, ref) /\ kind # "container"
  BY <1>1, <1>3, Asked
<1>6. todo' = <<>>
  BY <1>2, <1>3
<1> HIDE DEF named, kind
<1>7. kind = "tag"
  BY <1>2, <1>3, <1>4, <1>5
<1>8. Asking(start, ref, Listed, todo', paths', failed')
  BY <1>2, <1>3, <1>6, <1>7 DEF Asking, named, kind
<1> QED
  BY <1>5, <1>8 DEF Resolution

LEMMA FrontOfAppend ==
  ASSUME NEW S, NEW s \in Seq(S), NEW v
  PROVE  Append(s, v) # <<>> /\ Front(Append(s, v)) = s /\ Last(Append(s, v)) = v
<1> DEFINE T == S \cup {v}
           n == Len(s)
           a == Append(s, v)
<1>1. s \in Seq(T) /\ n \in Nat /\ v \in T
  <2>1. s \in [1..n -> T] /\ n \in Nat
    OBVIOUS
  <2> HIDE DEF T
  <2>2. s \in Seq(T)
    BY <2>1
  <2> QED
    BY <2>1, <2>2 DEF T
<1> HIDE DEF T
<1>2. a \in Seq(T) /\ Len(a) = n + 1 /\ a[n + 1] = v /\ \A i \in 1..n : a[i] = s[i]
  BY <1>1, AppendProperties
<1>3. a # <<>>
  BY <1>1, AppendProperties
<1> HIDE DEF a
<1> DEFINE f == Front(a)
<1>4. f \in Seq(T) /\ Len(f) = Len(a) - 1 /\ \A i \in 1..Len(a) - 1 : f[i] = a[i]
  BY <1>2, <1>3, FrontFacts
<1> HIDE DEF f
<1>5. Len(a) - 1 = n
  BY <1>1, <1>2
<1>6. f \in Seq(T) /\ Len(f) = n /\ \A i \in 1..n : f[i] = s[i]
  BY <1>2, <1>4, <1>5
<1>7. f = s
  BY <1>1, <1>6
<1>8. Last(a) = v
  BY <1>2 DEF Last
<1> QED
  BY <1>3, <1>7, <1>8 DEF f, a

LEMMA FirstEntry ==
  ASSUME NEW e
  PROVE  Append(<<>>, e) = <<e>>
OBVIOUS

LEMMA PathDoneResolves ==
  ASSUME Midway, PathDone
  PROVE  Resolution(start, ref, Listed, todo', paths', failed')
<1> DEFINE named == NamedNode(start, ref)
<1>1. start \in Starts /\ ref \in Refs /\ Meaningful(start, ref) /\ RefKept
      /\ Resolution(start, ref, Listed, todo, paths, failed)
  BY DEF Midway, RefKept
<1>2. /\ todo # <<>> /\ ~Head(todo).leaf /\ Head(todo).rest = <<>>
      /\ todo' = <<>> \o Tail(todo)
      /\ IF Head(todo).path = <<>> THEN paths' = paths
         ELSE paths' = Append(paths, Entry(Front(Head(todo).path), <<Last(Head(todo).path)>>,
                                           Head(todo).typed))
      /\ failed' = failed
  BY DEF PathDone, Pending, Path, Invalid, Becomes, Found, Entry
<1>3. named # <<>> /\ named \in Seq(STRING)
  BY <1>1, NamedLearned
<1>4. Listed \in Seq(STRING) /\ Len(Listed) \in Nat
  BY <1>1, ListedFacts
<1> HIDE DEF named
<1>5. ASSUME AsksNode(start, ref), todo = <<Frame(<<>>, named, FALSE)>>, paths = <<>>
      PROVE  Resolution(start, ref, Listed, todo', paths', failed')
  <2>1. Head(todo).path = named /\ Head(todo).typed = FALSE /\ Tail(todo) = <<>>
    BY <1>5 DEF Frame
  <2>2. todo' = <<>> /\ paths' = <<Entry(Front(named), <<Last(named)>>, FALSE)>>
    <3>1. todo' = <<>>
      BY <1>2, <2>1
    <3>2. paths' = Append(paths, Entry(Front(named), <<Last(named)>>, FALSE))
      BY <1>2, <1>3, <2>1, Zenon
    <3> QED
      BY <1>5, <3>1, <3>2, FirstEntry
  <2>3. OneNode(todo', paths', named)
    BY <2>2 DEF OneNode
  <2> QED
    BY <1>5, <2>3 DEF Resolution, named
<1>6. ASSUME NEW j \in 0..Len(Steps(ref)), PartWay(start, ref, todo, paths, j)
      PROVE  Resolution(start, ref, Listed, todo', paths', failed')
  <2> DEFINE q == SubSeq(ref, j + 1, Len(ref))
             p == NodeAt(start, Way(start, ref)[j])
  <2>1. todo = <<Frame(q, p, FALSE)>> /\ paths = <<>>
    BY <1>6 DEF PartWay
  <2> HIDE DEF q, p
  <2>2. Head(todo).rest = q
    BY <2>1 DEF Frame
  <2>3. /\ ref \in Seq(STRING) /\ Len(ref) \in Nat /\ Len(Steps(ref)) \in Nat
        /\ Len(Steps(ref)) = IF Last(ref) \in {"@", "@@"} THEN Len(ref) - 1 ELSE Len(ref)
    BY <1>1, StepsFacts
  <2>4. j \in 0..Len(ref)
    BY <2>3
  <2>5. j = Len(ref)
    BY <1>2, <2>2, <2>3, <2>4, RestFacts DEF q
  <2>6. Last(ref) \notin {"@", "@@"} /\ j = Len(Steps(ref))
    BY <2>3, <2>5
  <2>7. p = named /\ q = <<>>
    BY <1>2, <2>2, <2>6 DEF p, named, NamedNode, Named
  <2>8. AsksNode(start, ref)
    BY <1>1, <2>6, Asked
  <2> QED
    BY <1>5, <2>1, <2>7, <2>8
<1>7. CASE AsksNode(start, ref) /\ OneNode(todo, paths, named)
  BY <1>2, <1>5, <1>7 DEF OneNode
<1>8. CASE AsksStart(start, ref) /\ OneValue(todo, paths, named, StartValue(start, ref))
  <2> DEFINE v == StartValue(start, ref)
  <2>1. todo = <<Frame(<<>>, Append(named, v), TRUE)>> /\ paths = <<>>
    BY <1>2, <1>8 DEF OneValue
  <2> HIDE DEF v
  <2>2. Head(todo).path = Append(named, v) /\ Head(todo).typed = TRUE /\ Tail(todo) = <<>>
    BY <2>1 DEF Frame
  <2>3. Append(named, v) # <<>> /\ Front(Append(named, v)) = named /\ Last(Append(named, v)) = v
    BY <1>3, FrontOfAppend
  <2>4. todo' = <<>> /\ paths' = Append(<<>>, Entry(named, <<v>>, TRUE))
    <3>1. todo' = <<>>
      BY <1>2, <2>2
    <3>2. paths' = Append(paths, Entry(named, <<v>>, TRUE))
      BY <1>2, <2>2, <2>3, Zenon
    <3> QED
      BY <2>1, <3>1, <3>2
  <2>5. OneValue(todo', paths', named, v)
    BY <2>4, FirstEntry DEF OneValue
  <2> QED
    BY <1>8, <2>5 DEF Resolution, named, v
<1>9. CASE AsksValues(start, ref) /\ Asking(start, ref, Listed, todo, paths, failed)
  <2>1. CASE LeafNode(todo, paths, failed, named, Last(ref), Listed)
    <3>1. todo = <<[Frame(<<Last(ref)>>, named, FALSE) EXCEPT !.leaf = TRUE]>>
      BY <1>2, <2>1 DEF LeafNode
    <3>2. Head(todo).leaf
      BY <3>1 DEF Frame
    <3> QED
      BY <1>2, <3>2
  <2>2. ASSUME NEW m \in 0..Len(Listed), TagNode(todo, paths, named, Listed, m),
               Schema[Named(start, ref)] = "tag"
        PROVE  Resolution(start, ref, Listed, todo', paths', failed')
    <3> DEFINE v == Listed[m + 1]
    <3>1. m < Len(Listed) /\ Head(todo) = Frame(<<>>, Append(named, v), TRUE)
      BY <1>2, <1>4, <2>2, TagCalls
    <3>2. TagNode(Tail(todo), Append(paths, Entry(named, <<v>>, TRUE)), named, Listed, m + 1)
      BY <1>2, <1>4, <2>2, TagCallsNext
    <3> HIDE DEF v
    <3>3. Head(todo).path = Append(named, v) /\ Head(todo).typed = TRUE
      BY <3>1 DEF Frame
    <3>4. Append(named, v) # <<>> /\ Front(Append(named, v)) = named /\ Last(Append(named, v)) = v
      BY <1>3, FrontOfAppend
    <3>5. paths' = Append(paths, Entry(named, <<v>>, TRUE))
      BY <1>2, <3>3, <3>4
    <3>6. <<>> \o Tail(todo) = Tail(todo)
      <4> DEFINE k == Len(Listed) - (m + 1)
                 t == Tail(todo)
                 S == {t[i] : i \in 1..k}
      <4>1. t = [i \in 1..k |-> Frame(<<>>, Append(named, Listed[(m + 1) + i]), TRUE)]
        BY <3>2 DEF TagNode
      <4>2. k \in Nat
        BY <1>4, <3>1
      <4> HIDE DEF k, t
      <4>3. t \in [1..k -> S]
        BY <4>1
      <4> HIDE DEF S
      <4>4. t \in Seq(S)
        BY <4>2, <4>3
      <4>5. <<>> \o t = t
        BY <4>4
      <4> QED
        BY <4>5 DEF t
    <3>7. TagNode(todo', paths', named, Listed, m + 1)
      BY <1>2, <3>2, <3>5, <3>6
    <3>8. m + 1 \in 0..Len(Listed)
      BY <1>4, <3>1
    <3>9. Asking(start, ref, Listed, todo', paths', failed')
      BY <2>2, <3>7, <3>8 DEF Asking, named
    <3> QED
      BY <1>9, <3>9 DEF Resolution
  <2> QED
    BY <1>2, <1>9, <2>1, <2>2 DEF Asking, named
<1> QED
  BY <1>1, <1>6, <1>7, <1>8, <1>9 DEF Resolution, named

LEMMA LeafValuesResolves ==
  ASSUME Midway, LeafValues
  PROVE  Resolution(start, ref, Listed, todo', paths', failed')
<1> DEFINE named == NamedNode(start, ref)
           kind == Schema[Named(start, ref)]
<1>1. start \in Starts /\ ref \in Refs /\ Meaningful(start, ref) /\ RefKept
      /\ Resolution(start, ref, Listed, todo, paths, failed)
  BY DEF Midway, RefKept
<1>2. todo # <<>> /\ Head(todo).leaf /\ todo' = <<>> \o Tail(todo)
  BY DEF LeafValues, Pending, Invalid, Becomes
<1>3. /\ (IsTypeless(named) <=> kind = "container") /\ (Is("multi", named) <=> kind = "multi")
      /\ named \in Seq(STRING)
  BY <1>1, NamedLearned
<1>4. Listed \in Seq(STRING) /\ Len(Listed) \in Nat
  BY <1>1, ListedFacts
<1> HIDE DEF named, kind
<1>5. AsksValues(start, ref) /\ kind \in {"leaf", "multi"} /\ paths = <<>>
      /\ todo = <<[Frame(<<Last(ref)>>, named, FALSE) EXCEPT !.leaf = TRUE]>>
  <2>1. ASSUME NEW f, NEW rest, NEW path, NEW typed, f = Frame(rest, path, typed), Head(todo) = f
        PROVE  FALSE
    <3>1. Head(todo).leaf = FALSE
      BY <2>1 DEF Frame
    <3> QED
      BY <1>2, <3>1
  <2>2. ~(\E j \in 0..Len(Steps(ref)) : PartWay(start, ref, todo, paths, j))
    <3>1. SUFFICES ASSUME NEW j \in 0..Len(Steps(ref)), PartWay(start, ref, todo, paths, j)
                   PROVE  FALSE
      OBVIOUS
    <3>2. Head(todo) = Frame(SubSeq(ref, j + 1, Len(ref)), NodeAt(start, Way(start, ref)[j]), FALSE)
      BY <3>1, OneCall DEF PartWay
    <3> QED
      BY <2>1, <3>2
  <2>3. ~OneNode(todo, paths, named)
    <3>1. SUFFICES ASSUME OneNode(todo, paths, named) PROVE FALSE
      OBVIOUS
    <3>2. Head(todo) = Frame(<<>>, named, FALSE)
      BY <1>2, <3>1, OneCall DEF OneNode
    <3> QED
      BY <2>1, <3>2
  <2>4. ~OneValue(todo, paths, named, StartValue(start, ref))
    <3>1. SUFFICES ASSUME OneValue(todo, paths, named, StartValue(start, ref)) PROVE FALSE
      OBVIOUS
    <3>2. Head(todo) = Frame(<<>>, Append(named, StartValue(start, ref)), TRUE)
      BY <1>2, <3>1, OneCall DEF OneValue
    <3> QED
      BY <2>1, <3>2
  <2>5. AsksValues(start, ref) /\ Asking(start, ref, Listed, todo, paths, failed)
    BY <1>1, <2>2, <2>3, <2>4 DEF Resolution, named
  <2>6. ASSUME NEW m \in 0..Len(Listed), TagNode(todo, paths, named, Listed, m) PROVE FALSE
    <3>1. Head(todo) = Frame(<<>>, Append(named, Listed[m + 1]), TRUE)
      BY <1>2, <1>4, <2>6, TagCalls
    <3> QED
      BY <2>1, <3>1
  <2>7. kind \in {"leaf", "multi"} /\ LeafNode(todo, paths, failed, named, Last(ref), Listed)
    BY <1>2, <2>5, <2>6 DEF Asking, named, kind
  <2> QED
    BY <1>2, <2>5, <2>7 DEF LeafNode
<1>6. Head(todo).path = named /\ Tail(todo) = <<>>
  BY <1>5 DEF Frame
<1>7. todo' = <<>>
  BY <1>2, <1>6
<1>8. SetToSeq(ValuesOf(Path)) = Listed /\ Path = named
  BY <1>6 DEF Path, Pending, ValuesOf, Listed, named
<1>9. PICK words \in {Listed, <<>>} :
         /\ IF words = Listed THEN failed' = failed ELSE Fails("values")
         /\ IF Is("multi", named)
            THEN IF words = <<>> THEN paths' = paths ELSE Found(named, words, TRUE)
            ELSE Found(named, words, words # <<>> /\ ~IsTypeless(named))
  BY <1>8 DEF LeafValues
<1>10. words = Listed \/ failed' # ""
  BY <1>9 DEF Fails
<1>11. paths' = <<Entry(named, words, words # <<>>)>> \/ (words = <<>> /\ paths' = <<>>)
  <2>1. CASE kind = "multi" /\ words = <<>>
    BY <1>3, <1>5, <1>9, <2>1
  <2>2. CASE kind = "multi" /\ words # <<>>
    <3>1. paths' = Append(<<>>, Entry(named, words, TRUE))
      BY <1>3, <1>5, <1>9, <2>2 DEF Found, Entry
    <3>2. (words # <<>>) = TRUE
      BY <2>2
    <3> QED
      BY <3>1, <3>2, FirstEntry
  <2>3. CASE kind = "leaf"
    <3>1. Found(named, words, words # <<>> /\ ~IsTypeless(named))
      BY <1>3, <1>9, <2>3
    <3>2. (words # <<>> /\ ~IsTypeless(named)) = (words # <<>>)
      BY <1>3, <2>3
    <3>3. paths' = Append(<<>>, Entry(named, words, words # <<>>))
      BY <1>5, <3>1, <3>2 DEF Found, Entry
    <3> QED
      BY <3>3, FirstEntry
  <2> QED
    BY <1>5, <2>1, <2>2, <2>3
<1>12. LeafNode(todo', paths', failed', named, Last(ref), Listed)
  BY <1>7, <1>9, <1>10, <1>11 DEF LeafNode
<1>13. Asking(start, ref, Listed, todo', paths', failed')
  BY <1>5, <1>12 DEF Asking, named, kind
<1> QED
  BY <1>5, <1>13 DEF Resolution

-----------------------------------------------------------------------------
(* The end of the resolution.                                              *)

\* What the resolution has found.
FoundAll(st, r, names, ps, fl) ==
  LET named == NamedNode(st, r)
      kind == Schema[Named(st, r)]
  IN  \/ AsksNode(st, r) /\ ps = <<Entry(Front(named), <<Last(named)>>, FALSE)>>
      \/ AsksStart(st, r) /\ ps = <<Entry(named, <<StartValue(st, r)>>, TRUE)>>
      \/ /\ AsksValues(st, r) /\ kind \in {"leaf", "multi"}
         /\ \E words \in {names, <<>>} :
              /\ words = names \/ fl # ""
              /\ \/ ps = <<Entry(named, words, words # <<>>)>>
                 \/ words = <<>> /\ ps = <<>>
      \/ /\ AsksValues(st, r) /\ kind = "tag"
         /\ ps = [i \in 1..Len(names) |-> Entry(named, <<names[i]>>, TRUE)]
      \/ AsksValues(st, r) /\ kind = "tag" /\ fl # "" /\ ps = <<>>

LEMMA Ended ==
  ASSUME NEW st \in Starts, NEW r \in Refs, NEW names \in Seq(STRING), NEW ps, NEW fl,
         Resolution(st, r, names, <<>>, ps, fl)
  PROVE  FoundAll(st, r, names, ps, fl)
<1> DEFINE named == NamedNode(st, r)
<1>1. ~(\E j \in 0..Len(Steps(r)) : PartWay(st, r, <<>>, ps, j))
  BY OneCall DEF PartWay
<1>2. CASE AsksNode(st, r) /\ OneNode(<<>>, ps, named)
  BY <1>2, OneCall DEF OneNode, FoundAll
<1>3. CASE AsksStart(st, r) /\ OneValue(<<>>, ps, named, StartValue(st, r))
  BY <1>3, OneCall DEF OneValue, FoundAll
<1>4. CASE AsksValues(st, r) /\ Asking(st, r, names, <<>>, ps, fl)
  <2>1. CASE Schema[Named(st, r)] \in {"leaf", "multi"} /\ LeafNode(<<>>, ps, fl, named, Last(r), names)
    <3>1. \E words \in {names, <<>>} :
            /\ words = names \/ fl # ""
            /\ \/ ps = <<Entry(named, words, words # <<>>)>>
               \/ words = <<>> /\ ps = <<>>
      BY <2>1, OneCall DEF LeafNode
    <3> QED
      BY <1>4, <2>1, <3>1 DEF FoundAll
  <2>2. ASSUME NEW m \in 0..Len(names), TagNode(<<>>, ps, named, names, m),
               Schema[Named(st, r)] = "tag"
        PROVE  FoundAll(st, r, names, ps, fl)
    <3>1. Len(names) \in Nat /\ m \in Nat /\ m <= Len(names)
      OBVIOUS
    <3>2. m = Len(names)
      <4> DEFINE k == Len(names) - m
                 f == [i \in 1..k |-> Frame(<<>>, Append(named, names[m + i]), TRUE)]
      <4>1. f = <<>>
        BY <2>2 DEF TagNode
      <4>2. DOMAIN f = 1..k
        OBVIOUS
      <4> HIDE DEF f
      <4>3. 1..k = {}
        BY <4>1, <4>2
      <4> HIDE DEF k
      <4>4. k \in Int /\ ~(k >= 1)
        <5>1. k \in Int
          BY <3>1 DEF k
        <5>2. k >= 1 => 1 \in 1..k
          BY <5>1
        <5> QED
          BY <5>1, <5>2, <4>3
      <4> QED
        BY <3>1, <4>4 DEF k
    <3>3. ps = [i \in 1..Len(names) |-> Entry(named, <<names[i]>>, TRUE)]
      BY <2>2, <3>2 DEF TagNode
    <3> QED
      BY <1>4, <2>2, <3>3 DEF FoundAll
  <2>3. CASE Schema[Named(st, r)] = "tag" /\ fl # "" /\ ps = <<>>
    BY <1>4, <2>3 DEF FoundAll
  <2> QED
    BY <1>4, <2>1, <2>2, <2>3 DEF Asking
<1> QED
  BY <1>1, <1>2, <1>3, <1>4 DEF Resolution

LEMMA NoMore ==
  ASSUME NEW m \in Nat, NEW n \in Nat, m = n \/ m = 0
  PROVE  m <= n
OBVIOUS

LEMMA OneMore ==
  ASSUME NEW S, NEW q \in Seq(S), NEW x \in S
  PROVE  q \o <<x>> = Append(q, x)
OBVIOUS

LEMMA AnswersOne ==
  ASSUME NEW v, NEW fl
  PROVE  Answers(<<v>>, {v}, fl)
<1> DEFINE w == <<v>>
<1>1. w \in Seq({v}) /\ ToSet(w) = {v} /\ Len(w) = 1
  BY DEF ToSet
<1>2. Cardinality({v}) = 1
  BY FS_Singleton
<1> HIDE DEF w
<1>3. Answers(w, {v}, fl)
  BY <1>1, <1>2 DEF Answers
<1> QED
  BY <1>3 DEF w

LEMMA NoWords == ToSet(<<>>) = {} /\ Len(<<>>) = 0
<1> DEFINE w == <<>>
<1>1. w \in Seq(STRING) /\ Len(w) = 0
  OBVIOUS
<1>2. DOMAIN w = 1..0
  BY <1>1, LenProperties
<1>3. \A i \in 1..0 : FALSE
  OBVIOUS
<1> HIDE DEF w
<1>4. ToSet(w) = {}
  BY <1>2, <1>3 DEF ToSet
<1> QED
  BY <1>1, <1>4 DEF w

LEMMA AnswersNone ==
  ASSUME NEW values, IsFiniteSet(values), NEW fl, values = {} \/ fl # ""
  PROVE  Answers(<<>>, values, fl)
<1>1. ToSet(<<>>) = {}
  BY NoWords
<1>2. Cardinality(values) \in Nat
  BY FS_CardinalityType
<1>3. Len(<<>>) = 0
  BY NoWords
<1>4. Len(<<>>) <= Cardinality(values)
  BY <1>2, <1>3, NoMore
<1>5. ToSet(<<>>) \subseteq values /\ (fl = "" => ToSet(<<>>) = values)
  BY <1>1
<1>6. <<>> \in Seq(values)
  BY EmptySeq
<1> QED
  BY <1>4, <1>5, <1>6, Zenon DEF Answers

\* The words of the entries found, joined.
Joined(ps, down) == FlattenSeq([i \in DOMAIN ps |-> Words(ps[i], i \notin down)])

LEMMA JoinedOne ==
  ASSUME NEW e, NEW down
  PROVE  Joined(<<e>>, down) = Words(e, 1 \notin down)
<1> DEFINE f == [i \in DOMAIN <<e>> |-> Words(<<e>>[i], i \notin down)]
<1>1. DOMAIN <<e>> = 1..1 /\ <<e>>[1] = e
  OBVIOUS
<1>2. f = [i \in 1..1 |-> Words(e, 1 \notin down)]
  <2>1. \A i \in 1..1 : i = 1
    OBVIOUS
  <2> QED
    BY <1>1, <2>1
<1> DEFINE w == Words(e, 1 \notin down)
<1>3. f = <<w>>
  <2> HIDE DEF f, w
  <2>1. f = [i \in 1..1 |-> w]
    BY <1>2 DEF w
  <2> QED
    BY <2>1
<1> HIDE DEF f, w
<1>4. FlattenSeq(f) = w
  BY <1>3, FlattenOne
<1> QED
  BY <1>4 DEF Joined, f, w

LEMMA JoinedNone ==
  ASSUME NEW down
  PROVE  Joined(<<>>, down) = <<>>
<1> DEFINE f == [i \in DOMAIN <<>> |-> Words(<<>>[i], i \notin down)]
<1>1. f = <<>>
  OBVIOUS
<1> HIDE DEF f
<1>2. FlattenSeq(f) = <<>>
  BY <1>1, FlattenNone
<1> QED
  BY <1>2 DEF Joined, f

LEMMA JoinedAll ==
  ASSUME NEW named, NEW names \in Seq(STRING), NEW down
  PROVE  Joined([i \in 1..Len(names) |-> Entry(named, <<names[i]>>, TRUE)], down) = names
<1> DEFINE ps == [i \in 1..Len(names) |-> Entry(named, <<names[i]>>, TRUE)]
           f == [i \in DOMAIN ps |-> Words(ps[i], i \notin down)]
<1>1. DOMAIN ps = 1..Len(names) /\ \A i \in 1..Len(names) : ps[i] = Entry(named, <<names[i]>>, TRUE)
  OBVIOUS
<1>2. ASSUME NEW i \in 1..Len(names) PROVE Words(ps[i], i \notin down) = <<names[i]>>
  <2>1. ps[i] = Entry(named, <<names[i]>>, TRUE)
    BY <1>1
  <2> HIDE DEF ps
  <2>2. ps[i].typed = TRUE /\ ps[i].words = <<names[i]>>
    BY <2>1 DEF Entry
  <2> QED
    BY <2>2 DEF Words
<1>3. f = [i \in 1..Len(names) |-> <<names[i]>>]
  <2> HIDE DEF ps
  <2> QED
    BY <1>1, <1>2
<1> HIDE DEF f, ps
<1>4. FlattenSeq(f) = names
  BY <1>3, FlattenSingles
<1> QED
  BY <1>4 DEF Joined, f, ps

LEMMA WordsOf ==
  ASSUME NEW e, NEW answered
  PROVE  /\ e.typed => Words(e, answered) = e.words
         /\ ~e.typed => Words(e, answered) =
              IF answered /\ Len(e.words) = 1 /\ Exists(Tree, e.node \o e.words)
              THEN e.words ELSE <<>>
BY DEF Words

\* The words of everything found are the values the reference stands for.
LEMMA FoundMeans ==
  ASSUME RefKept, Meaningful(start, ref), NEW down, NEW fl,
         FoundAll(start, ref, Listed, paths, failed),
         failed # "" => fl # "", down # {} => fl # ""
  PROVE  Answers(Joined(paths, down), StandsFor(start, ref, Tree), fl)
<1> DEFINE named == NamedNode(start, ref)
           values == StandsFor(start, ref, Tree)
           W == Joined(paths, down)
<1>1. start \in Starts /\ ref \in Refs
  BY DEF RefKept
<1>2. /\ Listed \in Seq(Children(Tree, named))
      /\ Listed \in Seq(STRING) /\ ToSet(Listed) = Children(Tree, named)
      /\ Len(Listed) = Cardinality(Children(Tree, named)) /\ Len(Listed) \in Nat
  BY ListedFacts
<1>3. named \in Seq(STRING) /\ named # <<>>
  BY <1>1, NamedLearned
<1>4. IsFiniteSet(Children(Tree, named))
  <2>1. Tree = config["RUNNING"] \/ Tree = config["CANDIDATE"]
    BY DEF Tree
  <2>2. IsFiniteSet(Tree) /\ Tree \subseteq Seq(STRING)
    BY <2>1 DEF RefKept, Trees
  <2> QED
    BY <1>3, <2>2, ChildrenFacts
<1>5. /\ AsksNode(start, ref) => values = IF Exists(Tree, named) THEN {Last(named)} ELSE {}
      /\ AsksStart(start, ref) => values = {StartValue(start, ref)}
      /\ AsksValues(start, ref) => values = Children(Tree, named)
  <2>1. ~(AsksNode(start, ref) /\ AsksStart(start, ref))
    BY DEF AsksStart
  <2>2. AsksNode(start, ref) => values = IF Exists(Tree, named) THEN {Last(named)} ELSE {}
    BY <2>1 DEF StandsFor
  <2>3. AsksStart(start, ref) => values = {StartValue(start, ref)}
    BY <2>1 DEF StandsFor, StartValue
  <2>4. AsksValues(start, ref) => values = Children(Tree, named)
    BY DEF StandsFor, AsksValues
  <2> QED
    BY <2>2, <2>3, <2>4
<1> HIDE DEF values, named
<1>6. CASE AsksNode(start, ref) /\ paths = <<Entry(Front(named), <<Last(named)>>, FALSE)>>
  <2> DEFINE e == Entry(Front(named), <<Last(named)>>, FALSE)
  <2>1. W = Words(e, 1 \notin down)
    BY <1>6, JoinedOne
  <2>2. ~e.typed /\ e.words = <<Last(named)>> /\ e.node = Front(named) /\ Len(e.words) = 1
    BY DEF Entry
  <2>3. Front(named) \o <<Last(named)>> = named
    <3>1. Front(named) \in Seq(STRING) /\ Last(named) \in STRING
          /\ named = Append(Front(named), Last(named))
      BY <1>3, FrontFacts
    <3>2. Front(named) \o <<Last(named)>> = Append(Front(named), Last(named))
      BY <3>1, OneMore
    <3> QED
      BY <3>1, <3>2
  <2> HIDE DEF e, W
  <2>4. W = IF 1 \notin down /\ Exists(Tree, named) THEN <<Last(named)>> ELSE <<>>
    BY <2>1, <2>2, <2>3, WordsOf
  <2>5. CASE 1 \notin down /\ Exists(Tree, named)
    <3>1. W = <<Last(named)>> /\ values = {Last(named)}
      BY <1>5, <1>6, <2>4, <2>5
    <3> QED
      BY <3>1, AnswersOne DEF values, W
  <2>6. CASE ~(1 \notin down /\ Exists(Tree, named))
    <3>1. W = <<>>
      BY <2>4, <2>6
    <3>2. values = {} \/ fl # ""
      BY <1>5, <1>6, <2>6
    <3>3. IsFiniteSet(values)
      <4>1. values = {} \/ values = {Last(named)}
        BY <1>5, <1>6
      <4> QED
        BY <4>1, FS_Singleton, FS_EmptySet
    <3> QED
      BY <3>1, <3>2, <3>3, AnswersNone DEF values, W
  <2> QED
    BY <2>5, <2>6
<1>7. CASE AsksStart(start, ref) /\ paths = <<Entry(named, <<StartValue(start, ref)>>, TRUE)>>
  <2> DEFINE v == StartValue(start, ref)
             e == Entry(named, <<v>>, TRUE)
  <2>1. W = Words(e, 1 \notin down)
    BY <1>7, JoinedOne
  <2>2. e.typed /\ e.words = <<v>>
    BY DEF Entry
  <2> HIDE DEF e, W
  <2>3. W = <<v>>
    BY <2>1, <2>2, WordsOf
  <2> QED
    BY <1>5, <1>7, <2>3, AnswersOne DEF values, W
<1>8. ASSUME AsksValues(start, ref), NEW words \in {Listed, <<>>}, words = Listed \/ failed # "",
             W = words
      PROVE  Answers(W, values, fl)
  <2>1. CASE words = Listed
    <3>1. /\ ToSet(Listed) = values /\ Len(Listed) = Cardinality(values) /\ Len(Listed) \in Nat
          /\ Listed \in Seq(values)
      BY <1>2, <1>5, <1>8
    <3>2. Len(Listed) <= Cardinality(values)
      BY <3>1, NoMore
    <3>3. W = Listed
      BY <1>8, <2>1
    <3> QED
      BY <3>1, <3>2, <3>3, Zenon DEF Answers
  <2>2. CASE words # Listed
    <3>1. words = <<>> /\ fl # ""
      BY <1>8, <2>2
    <3> HIDE DEF W
    <3> QED
      BY <1>4, <1>5, <1>8, <3>1, AnswersNone
  <2> QED
    BY <2>1, <2>2
<1>9. ASSUME AsksValues(start, ref), NEW words \in {Listed, <<>>}, words = Listed \/ failed # "",
             paths = <<Entry(named, words, words # <<>>)>> \/ (words = <<>> /\ paths = <<>>)
      PROVE  Answers(W, values, fl)
  <2>1. CASE paths = <<Entry(named, words, words # <<>>)>>
    <3> DEFINE e == Entry(named, words, words # <<>>)
    <3>1. W = Words(e, 1 \notin down)
      BY <2>1, JoinedOne
    <3>2. (e.typed <=> words # <<>>) /\ e.words = words
      BY DEF Entry
    <3> HIDE DEF e, W
    <3>3. W = words
      <4>1. CASE words # <<>>
        BY <3>1, <3>2, <4>1, WordsOf
      <4>2. CASE words = <<>>
        BY <3>1, <3>2, <4>2, WordsOf
      <4> QED
        BY <4>1, <4>2
    <3> QED
      BY <1>8, <1>9, <3>3 DEF W
  <2>2. CASE words = <<>> /\ paths = <<>>
    <3>1. W = words
      BY <2>2, JoinedNone
    <3> QED
      BY <1>8, <1>9, <3>1
  <2> QED
    BY <1>9, <2>1, <2>2
<1>10. CASE AsksValues(start, ref)
            /\ paths = [i \in 1..Len(Listed) |-> Entry(named, <<Listed[i]>>, TRUE)]
  <2>1. W = Listed
    BY <1>2, <1>10, JoinedAll
  <2> QED
    BY <1>8, <1>10, <2>1 DEF values
<1>11. CASE AsksValues(start, ref) /\ failed # "" /\ paths = <<>>
  <2>1. W = <<>>
    BY <1>11, JoinedNone
  <2> QED
    BY <1>8, <1>11, <2>1 DEF values
<1> QED
  BY <1>6, <1>7, <1>9, <1>10, <1>11 DEF FoundAll, named, values

-----------------------------------------------------------------------------
(* A reference is started.                                                 *)

LEMMA WholeRef ==
  ASSUME NEW r \in Seq(STRING), r # <<>>
  PROVE  SubSeq(r, 1, Len(r)) = r /\ SubSeq(r, 2, Len(r)) = Tail(r)
OBVIOUS

\* The first component after the slash of an absolute reference, or the whole
\* of a relative one.
LEMMA Begins ==
  ASSUME NEW st \in Starts, NEW r \in Refs, Meaningful(st, r), NEW td,
         td = <<IF Head(r) = "/" THEN Frame(Tail(r), <<>>, FALSE) ELSE Frame(r, NodeOf(st), FALSE)>>
  PROVE  \E j \in 0..Len(Steps(r)) : PartWay(st, r, td, <<>>, j)
<1>1. /\ r \in Seq(STRING) /\ r # <<>> /\ Len(r) \in Nat /\ Len(r) > 0
      /\ Len(Steps(r)) \in Nat
      /\ Len(Steps(r)) = IF Last(r) \in {"@", "@@"} THEN Len(r) - 1 ELSE Len(r)
      /\ Head(r) = r[1]
  BY StepsFacts
<1>2. SubSeq(r, 1, Len(r)) = r /\ SubSeq(r, 2, Len(r)) = Tail(r)
  BY <1>1, WholeRef
<1>3. Way(st, r)[0] = Base(st, r)
  BY WayIs
<1>4. CASE Absolute(r)
  <2>1. r[1] = "/" /\ Head(r) = "/"
    BY <1>1, <1>4 DEF Absolute
  <2>2. 1 <= Len(Steps(r))
    <3>1. CASE Last(r) \in {"@", "@@"}
      <4>1. Len(r) # 1
        <5>1. Last(r) = r[Len(r)]
          BY DEF Last
        <5> QED
          BY <2>1, <3>1, <5>1
      <4> QED
        BY <1>1, <3>1, <4>1
    <3> QED
      BY <1>1, <3>1
  <2>3. Way(st, r)[1] = <<>>
    <3>1. 0 \in 0..Len(Steps(r)) - 1 /\ r[0 + 1] \in {".", "/"}
      BY <1>1, <2>1, <2>2
    <3>2. Way(st, r)[0 + 1] = Way(st, r)[0]
      BY <3>1, DotStays
    <3> QED
      BY <1>3, <1>4, <3>2 DEF Base
  <2>4. NodeAt(st, Way(st, r)[1]) = <<>>
    <3>1. 1 \in 0..Len(Steps(r))
      BY <1>1, <2>2
    <3> QED
      BY <2>3, <3>1, WayFacts
  <2>5. td = <<Frame(Tail(r), <<>>, FALSE)>>
    BY <2>1
  <2>6. 1 \in 0..Len(Steps(r)) /\ 1 + 1 = 2 /\ 1 > 0
    BY <1>1, <2>2
  <2>7. td = <<Frame(SubSeq(r, 1 + 1, Len(r)), NodeAt(st, Way(st, r)[1]), FALSE)>>
    BY <1>2, <2>4, <2>5, <2>6
  <2>8. PartWay(st, r, td, <<>>, 1)
    BY <2>6, <2>7 DEF PartWay
  <2> QED
    BY <2>6, <2>8
<1>5. CASE ~Absolute(r)
  <2>1. Head(r) # "/"
    BY <1>5 DEF Absolute
  <2>2. NodeAt(st, Way(st, r)[0]) = NodeOf(st)
    BY <1>3, <1>5, StartFacts DEF Base
  <2>3. td = <<Frame(r, NodeOf(st), FALSE)>>
    BY <2>1
  <2>4. 0 \in 0..Len(Steps(r)) /\ 0 + 1 = 1
    BY <1>1
  <2>5. td = <<Frame(SubSeq(r, 0 + 1, Len(r)), NodeAt(st, Way(st, r)[0]), FALSE)>>
    BY <1>2, <2>2, <2>3, <2>4
  <2>6. PartWay(st, r, td, <<>>, 0)
    BY <1>5, <2>5 DEF PartWay
  <2> QED
    BY <2>4, <2>6
<1> QED
  BY <1>4, <1>5

-----------------------------------------------------------------------------
(* An assignment to the reference.                                         *)

LEMMA OneEntry ==
  ASSUME NEW e
  PROVE  Len(<<e>>) = 1 /\ <<e>>[1] = e
OBVIOUS

\* What configd is asked to set is the leaf that the reference names.
LEMMA SetsLeaf ==
  ASSUME start \in Starts, ref \in Refs, Meaningful(start, ref), Settable,
         NEW names \in Seq(STRING), NEW fl, FoundAll(start, ref, names, paths, fl)
  PROVE  paths[1].node = NamedNode(start, ref)
<1> DEFINE named == NamedNode(start, ref)
           kind == Schema[Named(start, ref)]
<1>1. /\ Named(start, ref) \in DOMAIN Schema /\ named \in Seq(STRING)
      /\ Matches(Named(start, ref), named)
      /\ KindOf(Named(start, ref)) = kind
  BY NamedFacts
<1>2. NodeKinds(named) = {kind} /\ ValueKinds(named) = {} /\ named # <<>>
  BY <1>1, NodeFacts, NodeIsNoValue
<1>3. Len(paths) = 1 /\ "leaf" \in NodeKinds(paths[1].node)
  BY DEF Settable
<1>4. Len(<<>>) # 1
  BY NoWords
<1> HIDE DEF named, kind
<1>5. ASSUME AsksNode(start, ref), paths = <<Entry(Front(named), <<Last(named)>>, FALSE)>>
      PROVE  FALSE
  <2>1. paths[1].node = Front(named)
    BY <1>5, OneEntry DEF Entry
  <2>2. "leaf" \in ValueKinds(named)
    BY <1>2, <1>3, <2>1 DEF ValueKinds
  <2> QED
    BY <1>2, <2>2
<1>6. ASSUME AsksStart(start, ref), paths = <<Entry(named, <<StartValue(start, ref)>>, TRUE)>>
      PROVE  paths[1].node = named
  BY <1>6, OneEntry DEF Entry
<1>7. ASSUME AsksValues(start, ref), NEW words,
             paths = <<Entry(named, words, words # <<>>)>> \/ (words = <<>> /\ paths = <<>>)
      PROVE  paths[1].node = named
  <2>1. paths = <<Entry(named, words, words # <<>>)>>
    BY <1>3, <1>4, <1>7
  <2> QED
    BY <2>1, OneEntry DEF Entry
<1>8. ASSUME kind = "tag", paths = [i \in 1..Len(names) |-> Entry(named, <<names[i]>>, TRUE)]
      PROVE  FALSE
  <2>1. Len(names) \in Nat
    OBVIOUS
  <2>2. CASE Len(names) = 0
    <3> DEFINE f == [i \in 1..0 |-> Entry(named, <<names[i]>>, TRUE)]
    <3>1. f = <<>>
      OBVIOUS
    <3>2. paths = f
      BY <1>8, <2>2
    <3> QED
      BY <1>3, <1>4, <3>1, <3>2
  <2>3. CASE Len(names) # 0
    <3>1. 1 \in 1..Len(names)
      BY <2>1, <2>3
    <3>2. paths[1] = Entry(named, <<names[1]>>, TRUE)
      BY <1>8, <3>1
    <3>3. paths[1].node = named
      BY <3>2 DEF Entry
    <3>4. "leaf" = "tag"
      BY <1>2, <1>3, <1>8, <3>3
    <3> QED
      BY <3>4
  <2> QED
    BY <2>2, <2>3
<1>9. paths # <<>>
  BY <1>3, <1>4
<1>10. \/ AsksNode(start, ref) /\ paths = <<Entry(Front(named), <<Last(named)>>, FALSE)>>
       \/ AsksStart(start, ref) /\ paths = <<Entry(named, <<StartValue(start, ref)>>, TRUE)>>
       \/ AsksValues(start, ref) /\ \E words \in {names, <<>>} :
            paths = <<Entry(named, words, words # <<>>)>> \/ (words = <<>> /\ paths = <<>>)
       \/ kind = "tag" /\ paths = [i \in 1..Len(names) |-> Entry(named, <<names[i]>>, TRUE)]
       \/ paths = <<>>
  BY Zenon DEF FoundAll, named, kind
<1>11. paths[1].node = named
  <2>1. CASE AsksStart(start, ref) /\ paths = <<Entry(named, <<StartValue(start, ref)>>, TRUE)>>
    BY <1>6, <2>1
  <2>2. ASSUME AsksValues(start, ref), NEW words,
               paths = <<Entry(named, words, words # <<>>)>> \/ (words = <<>> /\ paths = <<>>)
        PROVE  paths[1].node = named
    BY <1>7, <2>2
  <2> QED
    BY <1>5, <1>8, <1>9, <1>10, <2>1, <2>2
<1> QED
  BY <1>11, Zenon DEF named

\* Of two leaf nodes, neither is above the other.
LEMMA LeavesApart ==
  ASSUME NEW n \in Seq(STRING), NEW m \in Seq(STRING), IsPrefix(n, m),
         "leaf" \in NodeKinds(n), "leaf" \in NodeKinds(m)
  PROVE  n = m
<1>1. PICK s \in DOMAIN Schema : Matches(s, m) /\ Schema[s] = "leaf"
  BY DEF NodeKinds
<1>2. PICK t \in DOMAIN Schema : Matches(t, n) /\ Schema[t] = "leaf"
  BY DEF NodeKinds
<1> DEFINE k == Len(n)
<1>3. k \in Nat /\ k <= Len(m) /\ n = SubSeq(m, 1, k) /\ m = SubSeq(m, 1, Len(m))
  <2>1. SubSeq(n, 1, k) = n /\ SubSeq(m, 1, Len(m)) = m
    OBVIOUS
  <2> QED
    BY <2>1 DEF IsPrefix
<1>4. Len(s) = Len(m) /\ k \in 0..Len(s)
  BY <1>1, <1>3 DEF Matches
<1> HIDE DEF k
<1>5. t = SubSeq(s, 1, k) /\ k > 0 /\ s[k] # "*"
  BY <1>1, <1>2, <1>3, <1>4, TemplateOfPrefix
<1>6. CASE k < Len(s)
  <2>1. k \in 1..Len(s)
    BY <1>3, <1>4, <1>5
  <2>2. Schema[SubSeq(s, 1, k)] = IF s[k + 1] = "*" THEN "tag" ELSE "container"
    BY <1>5, <1>6, <2>1, SchemaRules
  <2> QED
    BY <1>2, <1>5, <2>2
<1>7. CASE k = Len(s)
  BY <1>3, <1>4, <1>7
<1> QED
  BY <1>4, <1>6, <1>7

LEMMA PrefixIs ==
  ASSUME NEW S, NEW a \in Seq(S), NEW p \in Seq(S)
  PROVE  IsPrefix(a, p) <=> Len(a) <= Len(p) /\ \A i \in 1..Len(a) : a[i] = p[i]
<1>1. Len(a) \in Nat /\ Len(p) \in Nat /\ SubSeq(a, 1, Len(a)) = a
  OBVIOUS
<1>2. ASSUME Len(a) <= Len(p)
      PROVE  /\ SubSeq(p, 1, Len(a)) \in Seq(S) /\ Len(SubSeq(p, 1, Len(a))) = Len(a)
             /\ \A i \in 1..Len(a) : SubSeq(p, 1, Len(a))[i] = p[i]
  BY <1>1, <1>2
<1>3. ASSUME Len(a) <= Len(p), SubSeq(p, 1, Len(a)) = a
      PROVE  \A i \in 1..Len(a) : a[i] = p[i]
  BY <1>2, <1>3
<1>4. ASSUME Len(a) <= Len(p), \A i \in 1..Len(a) : a[i] = p[i]
      PROVE  SubSeq(p, 1, Len(a)) = a
  BY <1>2, <1>4
<1> QED
  BY <1>1, <1>3, <1>4 DEF IsPrefix

\* Two beginnings of a path are comparable.
LEMMA PrefixesCompare ==
  ASSUME NEW S, NEW a \in Seq(S), NEW b \in Seq(S), NEW p \in Seq(S),
         IsPrefix(a, p), IsPrefix(b, p)
  PROVE  IsPrefix(a, b) \/ IsPrefix(b, a)
<1>1. Len(a) \in Nat /\ Len(b) \in Nat
  OBVIOUS
<1>2. /\ \A i \in 1..Len(a) : a[i] = p[i]
      /\ \A i \in 1..Len(b) : b[i] = p[i]
  BY PrefixIs
<1>3. CASE Len(a) <= Len(b)
  BY <1>1, <1>2, <1>3, PrefixIs
<1>4. CASE Len(b) <= Len(a)
  BY <1>1, <1>2, <1>4, PrefixIs
<1> QED
  BY <1>1, <1>3, <1>4

\* An assignment to one leaf leaves the values of another alone.
KeepsOthers(tree, leaf, v, n) == Children(SetLeaf(tree, leaf, v), n) = Children(tree, n)

LEMMA SetLeafKeeps ==
  ASSUME NEW tree, tree \subseteq Seq(STRING), NEW leaf \in Seq(STRING), NEW v \in STRING,
         NEW n \in Seq(STRING), ~IsPrefix(n, leaf), ~IsPrefix(leaf, n)
  PROVE  KeepsOthers(tree, leaf, v, n)
<1> DEFINE a == Append(leaf, v)
           U == {p \in tree : ~IsPrefix(leaf, p)}
<1>1. /\ a \in Seq(STRING) /\ Len(a) = Len(leaf) + 1 /\ Len(leaf) \in Nat /\ Len(n) \in Nat
      /\ \A i \in 1..Len(leaf) : a[i] = leaf[i]
  <2>1. Len(leaf) \in Nat /\ Len(n) \in Nat
    BY LenProperties
  <2>2. a \in Seq(STRING)
    BY AppendProperties
  <2>3. Len(a) = Len(leaf) + 1
    BY AppendProperties
  <2>4. \A i \in 1..Len(leaf) : a[i] = leaf[i]
    BY AppendProperties
  <2> QED
    BY <2>1, <2>2, <2>3, <2>4
<1> HIDE DEF a
<1>2. ~IsStrictPrefix(n, a)
  <2> SUFFICES ASSUME IsPrefix(n, a), n # a PROVE FALSE
    BY DEF IsStrictPrefix
  <2>1. Len(n) <= Len(a) /\ \A i \in 1..Len(n) : n[i] = a[i]
    BY <1>1, PrefixIs
  <2>2. CASE Len(n) = Len(a)
    <3>1. n = a
      BY <1>1, <2>1, <2>2
    <3> QED
      BY <3>1
  <2>3. CASE Len(n) # Len(a)
    <3>1. Len(n) <= Len(leaf) /\ \A i \in 1..Len(n) : n[i] = leaf[i]
      BY <1>1, <2>1, <2>3
    <3> QED
      BY <3>1, PrefixIs
  <2> QED
    BY <2>2, <2>3
<1>3. ASSUME NEW p \in tree, IsStrictPrefix(n, p)
      PROVE  ~IsPrefix(leaf, p)
  BY <1>3, PrefixesCompare DEF IsStrictPrefix
<1>4. {p \in U \cup {a} : IsStrictPrefix(n, p)} = {p \in tree : IsStrictPrefix(n, p)}
  BY <1>2, <1>3
<1>5. SetLeaf(tree, leaf, v) = U \cup {a}
  BY DEF SetLeaf, a
<1> HIDE DEF U
<1>6. Children(U \cup {a}, n) = Children(tree, n)
  BY <1>4, Zenon DEF Children
<1> QED
  BY <1>5, <1>6, Zenon DEF KeepsOthers

-----------------------------------------------------------------------------
(* Types, whatever a reference means and whichever request failed.         *)

Pendings == [rest : Seq(STRING), path : Seq(STRING), typed : BOOLEAN, leaf : BOOLEAN]
Entries == [node : Seq(STRING), words : Seq(STRING), typed : BOOLEAN]

RefTyped ==
  /\ ref_pc \in {"idle", "get", "set"}
  /\ start \in Starts /\ uses \in Uses /\ ref \in uses
  /\ active \in BOOLEAN
  /\ config = [t \in Trees |-> config[t]]
  /\ \A t \in Trees : IsFiniteSet(config[t]) /\ config[t] \subseteq Seq(STRING)
  /\ ref_pc = "idle" => cfg_path = start
  /\ ref_pc = "get" => cfg_path = NodeOf(start)
  /\ ref_pc = "set" => cfg_path = Front(start) /\ ~active
  /\ ref_pc # "idle" => answer = NoAnswer
  /\ todo \in Seq(Pendings) /\ paths \in Seq(Entries)

LEMMA StartTyped ==
  ASSUME NEW st \in Starts
  PROVE  /\ st \in Seq(STRING) /\ st # <<>> /\ Last(st) \in STRING
         /\ Front(st) \in Seq(STRING) /\ NodeOf(st) \in Seq(STRING)
<1>1. st \in Seq(STRING) /\ st # <<>>
  BY StartsAssumption
<1>2. Front(st) \in Seq(STRING) /\ Last(st) \in STRING
  BY <1>1, FrontFacts
<1> QED
  BY <1>1, <1>2 DEF NodeOf

LEMMA OrigTyped ==
  ASSUME RefTyped
  PROVE  /\ orig \in Seq(STRING) /\ cfg_path \in Seq(STRING) /\ at_string \in STRING
         /\ ref \in Refs /\ IsFiniteSet(Tree) /\ Tree \subseteq Seq(STRING)
<1>1. cfg_path \in {start, NodeOf(start), Front(start)} /\ start \in Starts
  BY DEF RefTyped
<1>2. cfg_path \in Seq(STRING) /\ at_string \in STRING
  BY <1>1, StartTyped DEF at_string
<1>3. orig \in Seq(STRING)
  BY <1>2, EmptySeq DEF orig
<1>4. Tree = config["RUNNING"] \/ Tree = config["CANDIDATE"]
  BY DEF Tree
<1>5. ref \in Refs
  BY DEF RefTyped, Refs
<1> QED
  BY <1>2, <1>3, <1>4, <1>5 DEF RefTyped, Trees

LEMMA PendingTyped ==
  ASSUME RefTyped, todo # <<>>
  PROVE  /\ Pending \in Pendings /\ Tail(todo) \in Seq(Pendings)
         /\ Path \in Seq(STRING) /\ Pending.typed \in BOOLEAN
         /\ Pending.rest # <<>> => Rest \in Seq(STRING) /\ Head(Pending.rest) \in STRING
<1>1. todo \in Seq(Pendings)
  BY DEF RefTyped
<1>2. Head(todo) \in Pendings /\ Tail(todo) \in Seq(Pendings)
  BY <1>1, HeadTailProperties
<1>3. /\ Pending.rest \in Seq(STRING) /\ Pending.path \in Seq(STRING)
      /\ Pending.typed \in BOOLEAN
  BY <1>2 DEF Pending, Pendings
<1>4. Pending.rest # <<>> => Rest \in Seq(STRING) /\ Head(Pending.rest) \in STRING
  BY <1>3, HeadTailProperties DEF Rest
<1> QED
  BY <1>2, <1>3, <1>4 DEF Pending, Path

LEMMA Becoming ==
  ASSUME RefTyped, todo # <<>>, NEW frames \in Seq(Pendings), Becomes(frames)
  PROVE  todo' \in Seq(Pendings)
<1>1. Tail(todo) \in Seq(Pendings)
  BY PendingTyped
<1>2. frames \o Tail(todo) \in Seq(Pendings)
  BY <1>1, ConcatProperties
<1> QED
  BY <1>2 DEF Becomes

LEMMA FrameTyped ==
  ASSUME NEW r \in Seq(STRING), NEW p \in Seq(STRING), NEW b \in BOOLEAN
  PROVE  Frame(r, p, b) \in Pendings /\ <<Frame(r, p, b)>> \in Seq(Pendings)
<1>1. Frame(r, p, b) \in Pendings
  BY DEF Frame, Pendings
<1> QED
  BY <1>1

LEMMA LeafTyped ==
  ASSUME RefTyped, todo # <<>>
  PROVE  HandleLeaf \in Pendings /\ <<HandleLeaf>> \in Seq(Pendings)
<1>1. Pending \in Pendings
  BY PendingTyped
<1>2. HandleLeaf \in Pendings
  BY <1>1 DEF HandleLeaf, Pendings
<1> QED
  BY <1>2

LEMMA NothingTyped == <<>> \in Seq(Pendings) /\ <<>> \in Seq(Entries)
BY EmptySeq

\* The names below a path, as configd lists them.
LEMMA NamesTyped ==
  ASSUME NEW tree, IsFiniteSet(tree), tree \subseteq Seq(STRING), NEW path \in Seq(STRING)
  PROVE  SetToSeq(Children(tree, path)) \in Seq(STRING)
<1> DEFINE C == Children(tree, path)
           f == SetToSeq(C)
<1>1. IsFiniteSet(C) /\ C \subseteq STRING
  BY ChildrenFacts
<1> HIDE DEF C
<1>2. f \in Seq(C)
  BY <1>1, SetToSeqFacts
<1> HIDE DEF f
<1>3. f \in [1..Len(f) -> C] /\ Len(f) \in Nat
  BY <1>2
<1>4. f \in [1..Len(f) -> STRING]
  BY <1>1, <1>3
<1>5. f \in Seq(STRING)
  BY <1>3, <1>4
<1> QED
  BY <1>5 DEF f, C

LEMMA EachTyped ==
  ASSUME RefTyped, todo # <<>>, Pending.rest # <<>>
  PROVE  Each(Path) \in Seq(Pendings)
<1> DEFINE names == SetToSeq(Children(Tree, Path))
           t == ~IsTypeless(Path)
<1>1. Path \in Seq(STRING) /\ Rest \in Seq(STRING)
  BY PendingTyped
<1>2. names \in Seq(STRING)
  BY <1>1, OrigTyped, NamesTyped
<1> HIDE DEF names
<1>3. t \in BOOLEAN
  OBVIOUS
<1> HIDE DEF t
<1>4. ASSUME NEW i \in 1..Len(names)
      PROVE  Frame(Rest, Append(Path, names[i]), t) \in Pendings
  <2>1. names[i] \in STRING
    BY <1>2
  <2>2. Append(Path, names[i]) \in Seq(STRING)
    BY <1>1, <2>1, AppendProperties
  <2> QED
    BY <1>1, <1>3, <2>2, FrameTyped
<1>5. Each(Path) = [i \in DOMAIN names |-> Frame(Rest, Append(Path, names[i]), t)]
  BY Zenon DEF Each, names, t
<1>6. DOMAIN names = 1..Len(names) /\ Len(names) \in Nat
  BY <1>2
<1> DEFINE e == Each(Path)
<1>7. e \in [1..Len(names) -> Pendings]
  BY <1>4, <1>5, <1>6
<1> HIDE DEF e
<1>8. e \in Seq(Pendings)
  BY <1>6, <1>7
<1> QED
  BY <1>8 DEF e

\* A step of process_ref changes its calls and its paths only.
LEMMA ResolutionTyped ==
  ASSUME RefTyped, UNCHANGED <<ref_pc, args, config, cfg_path, active, answer>>,
         todo' \in Seq(Pendings), paths' \in Seq(Entries)
  PROVE  RefTyped'
<1>1. /\ ref_pc' = ref_pc /\ start' = start /\ uses' = uses /\ ref' = ref /\ config' = config
      /\ cfg_path' = cfg_path /\ active' = active /\ answer' = answer
  BY DEF args
<1> QED
  BY <1>1 DEF RefTyped

LEMMA ComponentTyped ==
  ASSUME RefTyped, NEW comps, Component(comps), todo' \in Seq(Pendings), UNCHANGED paths
  PROVE  RefTyped'
<1>1. UNCHANGED <<ref_pc, args, config, cfg_path, active, answer>>
  BY DEF Component
<1>2. paths' \in Seq(Entries)
  BY DEF RefTyped
<1> QED
  BY <1>1, <1>2, ResolutionTyped

LEMMA AtHead ==
  ASSUME RefTyped, NEW comps, Component(comps)
  PROVE  /\ todo # <<>> /\ Pending.rest # <<>> /\ Path \in Seq(STRING) /\ Rest \in Seq(STRING)
         /\ Head(Pending.rest) \in STRING
BY PendingTyped DEF Component

LEMMA InvalidTyped ==
  ASSUME RefTyped, todo # <<>>, Invalid
  PROVE  todo' \in Seq(Pendings)
<1>1. Becomes(<<>>)
  BY DEF Invalid
<1> QED
  BY <1>1, NothingTyped, Becoming

LEMMA FrameGoesOn ==
  ASSUME RefTyped, todo # <<>>, NEW r \in Seq(STRING), NEW p \in Seq(STRING), NEW b \in BOOLEAN,
         Becomes(<<Frame(r, p, b)>>)
  PROVE  todo' \in Seq(Pendings)
<1>1. <<Frame(r, p, b)>> \in Seq(Pendings)
  BY FrameTyped
<1> QED
  BY <1>1, Becoming

LEMMA RefDotTyped == RefTyped /\ RefDot => RefTyped'
<1> SUFFICES ASSUME RefTyped, RefDot PROVE RefTyped'
  OBVIOUS
<1>1. Component({"."}) /\ UNCHANGED paths /\ Becomes(<<Frame(Rest, Path, FALSE)>>)
  BY DEF RefDot, Resolving
<1>2. todo # <<>> /\ Path \in Seq(STRING) /\ Rest \in Seq(STRING)
  BY <1>1, AtHead
<1>3. todo' \in Seq(Pendings)
  BY <1>1, <1>2, FrameGoesOn
<1> QED
  BY <1>1, <1>3, ComponentTyped

\* A tag value is below something.
LEMMA ParentTyped ==
  ASSUME NEW p \in Seq(STRING), p # <<>>
  PROVE  Parent(p) \in Seq(STRING)
<1>1. Front(p) \in Seq(STRING)
  BY FrontFacts
<1>2. IsTagValue(Front(p)) => Front(p) # <<>>
  BY RootFacts
<1>3. IsTagValue(Front(p)) => Front(Front(p)) \in Seq(STRING)
  BY <1>1, <1>2, FrontFacts
<1> QED
  BY <1>1, <1>3 DEF Parent

LEMMA RefDotDotTyped == RefTyped /\ RefDotDot => RefTyped'
<1> SUFFICES ASSUME RefTyped, RefDotDot PROVE RefTyped'
  OBVIOUS
<1>1. /\ Component({".."}) /\ UNCHANGED paths
      /\ Invalid \/ (Path # <<>> /\ Becomes(<<Frame(Rest, Parent(Path), FALSE)>>))
  BY DEF RefDotDot, Resolving
<1>2. todo # <<>> /\ Path \in Seq(STRING) /\ Rest \in Seq(STRING)
  BY <1>1, AtHead
<1>3. CASE Invalid
  BY <1>1, <1>2, <1>3, InvalidTyped, ComponentTyped
<1>4. CASE Path # <<>> /\ Becomes(<<Frame(Rest, Parent(Path), FALSE)>>)
  <2>1. Parent(Path) \in Seq(STRING)
    BY <1>2, <1>4, ParentTyped
  <2>2. todo' \in Seq(Pendings)
    BY <1>2, <1>4, <2>1, FrameGoesOn
  <2> QED
    BY <1>1, <2>2, ComponentTyped
<1> QED
  BY <1>1, <1>3, <1>4

LEMMA RefTextTyped == RefTyped /\ RefText => RefTyped'
<1> SUFFICES ASSUME RefTyped, RefText PROVE RefTyped'
  OBVIOUS
<1> DEFINE comps == {Head(Pending.rest)} \ {"@", "@@", ".", ".."}
           h == Head(Pending.rest)
<1>1. /\ Component(comps) /\ UNCHANGED paths
      /\ \/ Invalid
         \/ Becomes(<<Frame(Rest, Append(Path, h), FALSE)>>)
         \/ /\ ~(Len(Path) > Len(orig))
            /\ Becomes(<<Frame(Rest, Append(Append(Path, TagValue(Path)), h), FALSE)>>)
  BY DEF RefText, Resolving
<1> HIDE DEF comps
<1>2. todo # <<>> /\ Path \in Seq(STRING) /\ Rest \in Seq(STRING) /\ h \in STRING
  BY <1>1, AtHead
<1> HIDE DEF h
<1>3. CASE Invalid
  BY <1>1, <1>2, <1>3, InvalidTyped, ComponentTyped
<1>4. CASE Becomes(<<Frame(Rest, Append(Path, h), FALSE)>>)
  <2>1. Append(Path, h) \in Seq(STRING)
    BY <1>2, AppendProperties
  <2>2. todo' \in Seq(Pendings)
    BY <1>2, <1>4, <2>1, FrameGoesOn
  <2> QED
    BY <1>1, <2>2, ComponentTyped
<1>5. CASE /\ ~(Len(Path) > Len(orig))
           /\ Becomes(<<Frame(Rest, Append(Append(Path, TagValue(Path)), h), FALSE)>>)
  <2>1. TagValue(Path) \in STRING
    <3>1. orig \in Seq(STRING) /\ at_string \in STRING
      BY OrigTyped
    <3>2. CASE Len(Path) = Len(orig)
      BY <3>1, <3>2 DEF TagValue
    <3>3. CASE Len(Path) # Len(orig)
      <4>1. Len(Path) + 1 \in 1..Len(orig)
        BY <1>2, <1>5, <3>1, <3>3
      <4>2. orig[Len(Path) + 1] \in STRING
        BY <3>1, <4>1
      <4> QED
        BY <3>3, <4>2 DEF TagValue
    <3> QED
      BY <3>2, <3>3
  <2>2. Append(Append(Path, TagValue(Path)), h) \in Seq(STRING)
    BY <1>2, <2>1, AppendProperties
  <2>3. todo' \in Seq(Pendings)
    BY <1>2, <1>5, <2>2, FrameGoesOn
  <2> QED
    BY <1>1, <2>3, ComponentTyped
<1> QED
  BY <1>1, <1>3, <1>4, <1>5

LEMMA RefAtTyped == RefTyped /\ RefAt => RefTyped'
<1> SUFFICES ASSUME RefTyped, RefAt PROVE RefTyped'
  OBVIOUS
<1>1. /\ Component({"@"}) /\ UNCHANGED paths
      /\ \/ Invalid \/ Becomes(<<HandleLeaf>>)
         \/ Becomes(<<Frame(Rest, Path, FALSE)>>)
         \/ Becomes(<<Frame(Rest, Append(Path, at_string), TRUE)>>)
         \/ /\ Len(Path) < Len(orig)
            /\ Becomes(<<Frame(Rest, Append(Path, orig[Len(Path) + 1]), TRUE)>>)
  BY DEF RefAt, Resolving
<1>2. todo # <<>> /\ Path \in Seq(STRING) /\ Rest \in Seq(STRING)
  BY <1>1, AtHead
<1>3. orig \in Seq(STRING) /\ at_string \in STRING
  BY OrigTyped
<1>4. CASE Invalid
  BY <1>1, <1>2, <1>4, InvalidTyped, ComponentTyped
<1>5. CASE Becomes(<<HandleLeaf>>)
  <2>1. todo' \in Seq(Pendings)
    BY <1>2, <1>5, LeafTyped, Becoming
  <2> QED
    BY <1>1, <2>1, ComponentTyped
<1>6. CASE Becomes(<<Frame(Rest, Path, FALSE)>>)
  <2>1. todo' \in Seq(Pendings)
    BY <1>2, <1>6, FrameGoesOn
  <2> QED
    BY <1>1, <2>1, ComponentTyped
<1>7. ASSUME NEW v \in STRING, Becomes(<<Frame(Rest, Append(Path, v), TRUE)>>)
      PROVE  RefTyped'
  <2>1. Append(Path, v) \in Seq(STRING)
    BY <1>2, AppendProperties
  <2>2. todo' \in Seq(Pendings)
    BY <1>2, <1>7, <2>1, FrameGoesOn
  <2> QED
    BY <1>1, <2>2, ComponentTyped
<1>8. Len(Path) < Len(orig) => orig[Len(Path) + 1] \in STRING
  <2>1. SUFFICES ASSUME Len(Path) < Len(orig) PROVE orig[Len(Path) + 1] \in STRING
    OBVIOUS
  <2>2. Len(Path) + 1 \in 1..Len(orig)
    BY <1>2, <1>3, <2>1
  <2> QED
    BY <1>3, <2>2
<1> QED
  BY <1>1, <1>3, <1>4, <1>5, <1>6, <1>7, <1>8

LEMMA RefAtAtTyped == RefTyped /\ RefAtAt => RefTyped'
<1> SUFFICES ASSUME RefTyped, RefAtAt PROVE RefTyped'
  OBVIOUS
<1>1. /\ Component({"@@"}) /\ UNCHANGED paths
      /\ \/ Invalid \/ Becomes(<<HandleLeaf>>)
         \/ Becomes(Each(Path)) \/ Becomes(<<>>)
         \/ Becomes(Append(Each(Path), HandleLeaf))
  BY DEF RefAtAt, Resolving
<1>2. todo # <<>> /\ Pending.rest # <<>>
  BY <1>1, AtHead
<1>3. Each(Path) \in Seq(Pendings) /\ HandleLeaf \in Pendings /\ <<HandleLeaf>> \in Seq(Pendings)
  BY <1>2, EachTyped, LeafTyped
<1>4. ASSUME NEW frames \in Seq(Pendings), Becomes(frames) PROVE RefTyped'
  <2>1. todo' \in Seq(Pendings)
    BY <1>2, <1>4, Becoming
  <2> QED
    BY <1>1, <2>1, ComponentTyped
<1>5. Append(Each(Path), HandleLeaf) \in Seq(Pendings)
  BY <1>3, AppendProperties
<1>6. CASE Invalid
  BY <1>1, <1>2, <1>6, InvalidTyped, ComponentTyped
<1> QED
  BY <1>1, <1>3, <1>4, <1>5, <1>6, NothingTyped

LEMMA ChildrenFailTyped == RefTyped /\ ChildrenFail => RefTyped'
<1> SUFFICES ASSUME RefTyped, ChildrenFail PROVE RefTyped'
  OBVIOUS
<1>1. Component({"@@"}) /\ UNCHANGED paths /\ Invalid
  BY DEF ChildrenFail
<1>2. todo # <<>>
  BY <1>1, AtHead
<1> QED
  BY <1>1, <1>2, InvalidTyped, ComponentTyped

LEMMA TemplateFailsTyped == RefTyped /\ TemplateFails => RefTyped'
<1> SUFFICES ASSUME RefTyped, TemplateFails PROVE RefTyped'
  OBVIOUS
<1> DEFINE comps == {Head(Pending.rest)} \ {"."}
           h == Head(Pending.rest)
<1>1. /\ Component(comps) /\ UNCHANGED paths
      /\ Invalid \/ Becomes(<<Frame(Rest, Append(Path, h), FALSE)>>)
  BY DEF TemplateFails
<1> HIDE DEF comps
<1>2. todo # <<>> /\ Path \in Seq(STRING) /\ Rest \in Seq(STRING) /\ h \in STRING
  BY <1>1, AtHead
<1> HIDE DEF h
<1>3. CASE Invalid
  BY <1>1, <1>2, <1>3, InvalidTyped, ComponentTyped
<1>4. CASE Becomes(<<Frame(Rest, Append(Path, h), FALSE)>>)
  <2>1. Append(Path, h) \in Seq(STRING)
    BY <1>2, AppendProperties
  <2>2. todo' \in Seq(Pendings)
    BY <1>2, <1>4, <2>1, FrameGoesOn
  <2> QED
    BY <1>1, <2>2, ComponentTyped
<1> QED
  BY <1>1, <1>3, <1>4

\* An entry that is found.
LEMMA FoundTyped ==
  ASSUME RefTyped, NEW named \in Seq(STRING), NEW words \in Seq(STRING), NEW typed \in BOOLEAN,
         Found(named, words, typed)
  PROVE  paths' \in Seq(Entries)
<1>1. paths \in Seq(Entries)
  BY DEF RefTyped
<1> DEFINE e == [node |-> named, words |-> words, typed |-> typed]
<1>2. e \in Entries
  BY DEF Entries
<1> HIDE DEF e
<1>3. Append(paths, e) \in Seq(Entries)
  BY <1>1, <1>2, AppendProperties
<1> QED
  BY <1>3 DEF Found, e

LEMMA PathDoneTyped == RefTyped /\ PathDone => RefTyped'
<1> SUFFICES ASSUME RefTyped, PathDone PROVE RefTyped'
  OBVIOUS
<1>1. /\ todo # <<>> /\ Invalid
      /\ UNCHANGED <<ref_pc, args, config, cfg_path, active, answer>>
      /\ IF Path = <<>> THEN UNCHANGED paths ELSE Found(Front(Path), <<Last(Path)>>, Pending.typed)
  BY DEF PathDone
<1>2. Path \in Seq(STRING) /\ Pending.typed \in BOOLEAN
  BY <1>1, PendingTyped
<1>3. todo' \in Seq(Pendings)
  BY <1>1, InvalidTyped
<1>4. paths' \in Seq(Entries)
  <2>1. CASE Path = <<>>
    BY <1>1, <2>1 DEF RefTyped
  <2>2. CASE Path # <<>>
    <3>1. Front(Path) \in Seq(STRING) /\ Last(Path) \in STRING
      BY <1>2, <2>2, FrontFacts
    <3>2. <<Last(Path)>> \in Seq(STRING)
      BY <3>1
    <3> QED
      BY <1>1, <1>2, <2>2, <3>1, <3>2, FoundTyped
  <2> QED
    BY <2>1, <2>2
<1> QED
  BY <1>1, <1>3, <1>4, ResolutionTyped

LEMMA LeafValuesTyped == RefTyped /\ LeafValues => RefTyped'
<1> SUFFICES ASSUME RefTyped, LeafValues PROVE RefTyped'
  OBVIOUS
<1>1. /\ todo # <<>> /\ Invalid
      /\ UNCHANGED <<ref_pc, args, config, cfg_path, active, answer>>
  BY DEF LeafValues
<1>2. PICK words \in {SetToSeq(ValuesOf(Path)), <<>>} :
        \/ UNCHANGED paths \/ Found(Path, words, TRUE)
        \/ Found(Path, words, words # <<>> /\ ~IsTypeless(Path))
  BY DEF LeafValues
<1>3. Path \in Seq(STRING)
  BY <1>1, PendingTyped
<1>4. words \in Seq(STRING)
  <2>1. SetToSeq(Children(Tree, Path)) \in Seq(STRING)
    BY <1>3, OrigTyped, NamesTyped
  <2>2. <<>> \in Seq(STRING)
    BY EmptySeq
  <2> QED
    BY <1>2, <2>1, <2>2 DEF ValuesOf
<1>5. todo' \in Seq(Pendings)
  BY <1>1, InvalidTyped
<1>6. paths' \in Seq(Entries)
  <2>1. CASE UNCHANGED paths
    BY <2>1 DEF RefTyped
  <2>2. ASSUME NEW typed \in BOOLEAN, Found(Path, words, typed) PROVE paths' \in Seq(Entries)
    BY <1>3, <1>4, <2>2, FoundTyped
  <2>3. (words # <<>> /\ ~IsTypeless(Path)) \in BOOLEAN
    OBVIOUS
  <2> QED
    BY <1>2, <2>1, <2>2, <2>3
<1> QED
  BY <1>1, <1>5, <1>6, ResolutionTyped

LEMMA WalkTyped ==
  ASSUME RefTyped,
         \/ RefDot \/ RefDotDot \/ RefText \/ RefAt \/ RefAtAt
         \/ ChildrenFail \/ TemplateFails \/ PathDone \/ LeafValues
  PROVE  RefTyped'
BY RefDotTyped, RefDotDotTyped, RefTextTyped, RefAtTyped, RefAtAtTyped, ChildrenFailTyped,
   TemplateFailsTyped, PathDoneTyped, LeafValuesTyped

-----------------------------------------------------------------------------
(* The ends of a call, and what assignments have left in the candidate.    *)

LEMMA LeafIsSet ==
  ASSUME NEW tree, IsFiniteSet(tree), tree \subseteq Seq(STRING),
         NEW leaf \in Seq(STRING), NEW v \in STRING
  PROVE  IsFiniteSet(SetLeaf(tree, leaf, v)) /\ SetLeaf(tree, leaf, v) \subseteq Seq(STRING)
<1> DEFINE U == {p \in tree : ~IsPrefix(leaf, p)}
           a == Append(leaf, v)
<1>1. a \in Seq(STRING)
  BY AppendProperties
<1>2. IsFiniteSet(U) /\ U \subseteq Seq(STRING)
  <2>1. U \subseteq tree
    OBVIOUS
  <2> QED
    BY <2>1, FS_Subset
<1>3. SetLeaf(tree, leaf, v) = U \cup {a}
  BY DEF SetLeaf
<1> HIDE DEF U, a
<1>4. IsFiniteSet(U \cup {a})
  BY <1>2, FS_AddElement
<1> QED
  BY <1>1, <1>2, <1>3, <1>4

\* No request of the last call has failed.
Unfailing == failed = ""

LEMMA InitFacts ==
  ASSUME RefInit
  PROVE  /\ ref_pc = "idle" /\ config \in [Trees -> Configs] /\ Unfailing
         /\ start \in Starts /\ uses \in Uses /\ ref \in uses
         /\ cfg_path = start /\ active = FALSE /\ todo = <<>> /\ paths = <<>>
         /\ answer = NoAnswer /\ wrote = NothingWritten
BY Zenon DEF RefInit, Unfailing

LEMMA InitTyped == RefInit => RefTyped
<1> SUFFICES ASSUME RefInit PROVE RefTyped
  OBVIOUS
<1>1. config \in [Trees -> Configs]
  BY InitFacts
<1>2. config = [t \in Trees |-> config[t]]
  BY <1>1
<1>3. \A t \in Trees : IsFiniteSet(config[t]) /\ config[t] \subseteq Seq(STRING)
  BY <1>1, ConfigsAssumption
<1>4. todo \in Seq(Pendings) /\ paths \in Seq(Entries)
  BY NothingTyped, InitFacts
<1> QED
  BY <1>2, <1>3, <1>4, InitFacts DEF RefTyped

\* The references that an action uses.
LEMMA UsedRef ==
  ASSUME RefTyped, NEW r \in uses
  PROVE  r \in Refs /\ r \in Seq(STRING) /\ r # <<>> /\ Tail(r) \in Seq(STRING)
<1>1. r \in Refs
  BY DEF RefTyped, Refs
<1>2. r \in Seq(STRING) /\ r # <<>>
  BY <1>1, RefsAssumption
<1> QED
  BY <1>1, <1>2, HeadTailProperties

Starting(r) == cstore_set_var_ref(r) \/ \E from_active \in BOOLEAN : cstore_get_var_ref(r, from_active)

LEMMA CallFacts ==
  ASSUME NEW r, Call(r)
  PROVE  /\ ref_pc = "idle" /\ r \in uses /\ Unfailing'
         /\ start' = start /\ uses' = uses /\ config' = config /\ wrote' = wrote
<1>1. ref_pc = "idle" /\ r \in uses /\ Unfailing' /\ UNCHANGED <<start, uses, config, wrote>>
  BY Zenon DEF Call, Unfailing
<1> QED
  BY <1>1

LEMMA BeginFacts ==
  ASSUME RefTyped, NEW r, Starting(r)
  PROVE  /\ r \in uses /\ ref' = r /\ start' = start /\ uses' = uses
         /\ config' = config /\ wrote' = wrote /\ Unfailing'
         /\ ref_pc = "idle" /\ ref_pc' \in {"get", "set"} /\ answer' = NoAnswer
         /\ active' \in BOOLEAN /\ (ref_pc' = "set" => ~active')
         /\ ref_pc' = "get" => cfg_path' = NodeOf(start)
         /\ ref_pc' = "set" => cfg_path' = Front(start)
         /\ Construct(r, cfg_path')
<1>1. CASE cstore_set_var_ref(r)
  <2>1. Call(r) /\ Construct(r, cfg_path') /\ ref_pc' = "set" /\ cfg_path' = Front(cfg_path)
        /\ active' = FALSE /\ answer' = NoAnswer
    BY <1>1, Zenon DEF cstore_set_var_ref
  <2>2. cfg_path = start /\ ref' = r
    BY <2>1, CallFacts DEF RefTyped, Construct
  <2> QED
    BY <2>1, <2>2, CallFacts
<1>2. ASSUME NEW from_active \in BOOLEAN, cstore_get_var_ref(r, from_active)
      PROVE  /\ Call(r) /\ ref_pc' = "get" /\ active' \in BOOLEAN /\ answer' = NoAnswer
             /\ cfg_path' = NodeOf(start) /\ Construct(r, cfg_path')
  <2>1. /\ Call(r) /\ ref_pc' = "get" /\ active' = from_active /\ answer' = NoAnswer
        /\ cfg_path' = NodeOf(cfg_path) /\ Construct(r, cfg_path')
    BY <1>2, Zenon DEF cstore_get_var_ref, NodeOf
  <2>2. cfg_path = start
    BY <2>1, CallFacts DEF RefTyped
  <2> QED
    BY <2>1, <2>2
<1>3. CASE \E from_active \in BOOLEAN : cstore_get_var_ref(r, from_active)
  <2>1. /\ Call(r) /\ ref_pc' = "get" /\ active' \in BOOLEAN /\ answer' = NoAnswer
        /\ cfg_path' = NodeOf(start) /\ Construct(r, cfg_path')
    BY <1>2, <1>3, Zenon
  <2>2. ref' = r
    BY <2>1 DEF Construct
  <2> QED
    BY <2>1, <2>2, CallFacts
<1> QED
  BY <1>1, <1>3, Zenon DEF Starting

LEMMA BeginTyped ==
  ASSUME RefTyped, NEW r, Starting(r)
  PROVE  RefTyped'
<1>1. r \in uses /\ ref_pc' \in {"get", "set"} /\ Construct(r, cfg_path')
  BY BeginFacts
<1>2. r \in Seq(STRING) /\ Tail(r) \in Seq(STRING)
  BY <1>1, UsedRef
<1>3. cfg_path' \in Seq(STRING)
  <2>1. cfg_path' \in {NodeOf(start), Front(start)} /\ start \in Starts
    BY <1>1, BeginFacts DEF RefTyped
  <2> QED
    BY <2>1, StartTyped
<1>4. todo' \in Seq(Pendings)
  <2>1. <<>> \in Seq(STRING)
    BY EmptySeq
  <2>2. <<Frame(Tail(r), <<>>, FALSE)>> \in Seq(Pendings)
    BY <1>2, <2>1, FrameTyped
  <2>3. <<Frame(r, cfg_path', FALSE)>> \in Seq(Pendings)
    BY <1>2, <1>3, FrameTyped
  <2>4. todo' = <<Frame(Tail(r), <<>>, FALSE)>> \/ todo' = <<Frame(r, cfg_path', FALSE)>>
    BY <1>1 DEF Construct
  <2> QED
    BY <2>2, <2>3, <2>4
<1>5. paths' \in Seq(Entries)
  BY <1>1, NothingTyped DEF Construct
<1> QED
  BY <1>4, <1>5, BeginFacts DEF RefTyped

LEMMA RefusedTyped ==
  ASSUME RefTyped, NEW r, GetRefused(r)
  PROVE  RefTyped'
<1>1. Call(r) /\ UNCHANGED <<ref_pc, ref, cfg_path, active, todo, paths, ismulti>>
  BY Zenon DEF GetRefused
<1> QED
  BY <1>1, CallFacts DEF RefTyped

LEMMA EditTyped ==
  ASSUME RefTyped, Edit
  PROVE  RefTyped'
<1>1. PICK c \in Configs : config' = [config EXCEPT !["CANDIDATE"] = c]
  BY DEF Edit
<1>2. config = [t \in Trees |-> config[t]]
  BY DEF RefTyped
<1>3. config' = [t \in Trees |-> config'[t]]
      /\ \A t \in Trees : config'[t] = IF t = "CANDIDATE" THEN c ELSE config[t]
  BY <1>1, <1>2
<1>4. \A t \in Trees : IsFiniteSet(config'[t]) /\ config'[t] \subseteq Seq(STRING)
  BY <1>3, ConfigsAssumption DEF RefTyped
<1> QED
  BY <1>3, <1>4 DEF Edit, args, RefTyped

LEMMA EndTyped ==
  ASSUME RefTyped, GetReturns \/ SetFails
  PROVE  RefTyped'
<1>1. /\ start' = start /\ uses' = uses /\ ref' = ref /\ config' = config /\ active' = active
      /\ ref_pc' = "idle" /\ cfg_path' = start /\ todo' = todo /\ paths' = <<>>
  BY DEF GetReturns, SetFails, Resolved, Destroyed, args
<1>2. paths' \in Seq(Entries)
  BY <1>1, NothingTyped
<1> QED
  BY <1>1, <1>2 DEF RefTyped

\* What was assigned is there until a command edits the candidate.
WroteMeaning ==
  \A n \in DOMAIN wrote : /\ n \in Seq(STRING) /\ "leaf" \in NodeKinds(n)
                          /\ Children(config["CANDIDATE"], n) = {wrote[n]}

\* An assignment, as far as the trees are concerned.
LEMMA SetFacts ==
  ASSUME RefTyped, SetReturns
  PROVE  /\ paths[1].node \in Seq(STRING) /\ "leaf" \in NodeKinds(paths[1].node)
         /\ \E v \in STRING :
              /\ config' = [config EXCEPT !["CANDIDATE"] = SetLeaf(@, paths[1].node, v)]
              /\ wrote' \in {Wrote(paths[1].node, v),
                             Restrict(wrote, DOMAIN wrote \ {paths[1].node})}
<1>1. Settable /\ paths \in Seq(Entries)
  BY DEF SetReturns, RefTyped
<1>2. paths[1] \in Entries
  <2>1. 1 \in DOMAIN paths
    BY <1>1 DEF Settable
  <2> QED
    BY <1>1, <2>1, ElementOfSeq
<1>3. paths[1].node \in Seq(STRING) /\ "leaf" \in NodeKinds(paths[1].node)
  BY <1>1, <1>2 DEF Settable, Entries
<1> QED
  BY <1>3, ValuesAssumption DEF SetReturns

LEMMA SetReturnsTyped ==
  ASSUME RefTyped, WroteMeaning, SetReturns
  PROVE  RefTyped' /\ WroteMeaning'
<1> DEFINE leaf == paths[1].node
           before == config["CANDIDATE"]
<1>1. leaf \in Seq(STRING) /\ "leaf" \in NodeKinds(leaf)
  BY SetFacts
<1>2. PICK v \in STRING :
        /\ config' = [config EXCEPT !["CANDIDATE"] = SetLeaf(before, leaf, v)]
        /\ wrote' \in {Wrote(leaf, v), Restrict(wrote, DOMAIN wrote \ {leaf})}
  BY SetFacts
<1> HIDE DEF leaf
<1> DEFINE after == SetLeaf(before, leaf, v)
<1>3. IsFiniteSet(before) /\ before \subseteq Seq(STRING)
  BY DEF RefTyped, Trees
<1>4. IsFiniteSet(after) /\ after \subseteq Seq(STRING)
  <2> HIDE DEF before
  <2> QED
    BY <1>1, <1>3, LeafIsSet
<1>5. config' = [t \in Trees |-> config'[t]]
      /\ \A t \in Trees : config'[t] = IF t = "CANDIDATE" THEN after ELSE config[t]
  <2>1. config = [t \in Trees |-> config[t]]
    BY DEF RefTyped
  <2>2. config' = [config EXCEPT !["CANDIDATE"] = after]
    BY <1>2
  <2> HIDE DEF after
  <2> QED
    BY <2>1, <2>2
<1>6. SetsOnly(before, leaf, v)
  <2> HIDE DEF before
  <2> QED
    BY <1>1, <1>3, SetLeafSets
<1>7. ASSUME NEW n \in Seq(STRING), n # leaf, "leaf" \in NodeKinds(n)
      PROVE  KeepsOthers(before, leaf, v, n)
  <2>1. ~IsPrefix(n, leaf) /\ ~IsPrefix(leaf, n)
    BY <1>1, <1>7, LeavesApart
  <2> HIDE DEF before
  <2> QED
    BY <1>1, <1>3, <1>7, <2>1, SetLeafKeeps
<1> HIDE DEF after
<1>8. config'["CANDIDATE"] = after
  BY <1>5 DEF Trees
<1>9. RefTyped'
  <2>1. \A t \in Trees : IsFiniteSet(config'[t]) /\ config'[t] \subseteq Seq(STRING)
    BY <1>4, <1>5 DEF RefTyped
  <2>2. /\ start' = start /\ uses' = uses /\ ref' = ref /\ active' = active
        /\ ref_pc' = "idle" /\ cfg_path' = start /\ todo' = todo /\ paths' = <<>>
    BY DEF SetReturns, Resolved, Destroyed, args
  <2>3. paths' \in Seq(Entries)
    BY <2>2, NothingTyped
  <2> QED
    BY <1>5, <2>1, <2>2, <2>3 DEF RefTyped
<1>10. ASSUME NEW n \in DOMAIN wrote'
       PROVE  \/ n = leaf /\ wrote'[n] = v
              \/ n # leaf /\ n \in DOMAIN wrote /\ wrote'[n] = wrote[n]
  <2>1. CASE wrote' = Wrote(leaf, v)
    BY <1>10, <2>1 DEF Wrote
  <2>2. CASE wrote' = Restrict(wrote, DOMAIN wrote \ {leaf})
    BY <1>10, <2>2 DEF Restrict
  <2> QED
    BY <1>2, <2>1, <2>2
<1>11. ASSUME NEW n \in DOMAIN wrote'
       PROVE  /\ n \in Seq(STRING) /\ "leaf" \in NodeKinds(n)
              /\ Children(config'["CANDIDATE"], n) = {wrote'[n]}
  <2>1. CASE n = leaf /\ wrote'[n] = v
    <3>1. Children(after, leaf) = {v}
      BY <1>6 DEF SetsOnly, after
    <3> QED
      BY <1>1, <1>8, <2>1, <3>1
  <2>2. CASE n # leaf /\ n \in DOMAIN wrote /\ wrote'[n] = wrote[n]
    <3>1. n \in Seq(STRING) /\ "leaf" \in NodeKinds(n) /\ Children(before, n) = {wrote[n]}
      BY <2>2 DEF WroteMeaning
    <3>2. KeepsOthers(before, leaf, v, n)
      BY <1>7, <2>2, <3>1
    <3>3. Children(after, n) = Children(before, n)
      BY <3>2 DEF KeepsOthers, after
    <3> QED
      BY <1>8, <2>2, <3>1, <3>3
  <2> QED
    BY <1>10, <1>11, <2>1, <2>2
<1>12. WroteMeaning'
  BY <1>11 DEF WroteMeaning
<1> QED
  BY <1>9, <1>12

LEMMA NothingIsWritten == NothingWritten = <<>> /\ DOMAIN NothingWritten = {}
<1>1. NothingWritten \in Seq(STRING) /\ Len(NothingWritten) = 0
  BY DEF NothingWritten
<1>2. DOMAIN NothingWritten = 1..0
  BY <1>1, LenProperties
<1>3. \A i \in 1..0 : FALSE
  OBVIOUS
<1> QED
  BY <1>2, <1>3 DEF NothingWritten

\* Only an assignment and an edit change what the nodes it is about hold.
LEMMA WroteStays ==
  ASSUME RefTyped, WroteMeaning, RefNext \/ UNCHANGED ref_vars
  PROVE  WroteMeaning'
<1>1. config' = config /\ wrote' = wrote => WroteMeaning'
  BY DEF WroteMeaning
<1>2. ASSUME NEW r \in uses, Starting(r) PROVE WroteMeaning'
  BY <1>1, <1>2, BeginFacts
<1>3. ASSUME NEW r \in uses, GetRefused(r) PROVE WroteMeaning'
  <2>1. Call(r)
    BY <1>3, Zenon DEF GetRefused
  <2> QED
    BY <1>1, <2>1, CallFacts
<1>4. CASE Edit
  <2>1. wrote' = NothingWritten
    BY <1>4 DEF Edit
  <2> QED
    BY <2>1, NothingIsWritten DEF WroteMeaning
<1>5. CASE RefDot \/ RefDotDot \/ RefText \/ RefAt \/ RefAtAt \/ ChildrenFail \/ TemplateFails
  <2>1. \E comps : Component(comps)
    BY <1>5 DEF RefDot, RefDotDot, RefText, RefAt, RefAtAt, ChildrenFail, TemplateFails, Resolving
  <2>2. config' = config /\ wrote' = wrote
    BY <2>1 DEF Component
  <2> QED
    BY <1>1, <2>2
<1>6. CASE PathDone \/ LeafValues
  BY <1>1, <1>6 DEF PathDone, LeafValues
<1>7. CASE GetReturns \/ SetFails
  BY <1>1, <1>7 DEF GetReturns, SetFails
<1>8. CASE SetReturns
  BY <1>8, SetReturnsTyped
<1>9. CASE RefDone \/ UNCHANGED ref_vars
  BY <1>1, <1>9 DEF RefDone, ref_vars, state
<1> QED
  BY <1>2, <1>3, <1>4, <1>5, <1>6, <1>7, <1>8, <1>9 DEF RefNext, Starting

LEMMA TypesStay ==
  ASSUME RefTyped, WroteMeaning, RefNext \/ UNCHANGED ref_vars
  PROVE  RefTyped'
<1>1. ASSUME NEW r \in uses, Starting(r) PROVE RefTyped'
  BY <1>1, BeginTyped
<1>2. ASSUME NEW r \in uses, GetRefused(r) PROVE RefTyped'
  BY <1>2, RefusedTyped
<1>3. CASE Edit
  BY <1>3, EditTyped
<1>4. CASE \/ RefDot \/ RefDotDot \/ RefText \/ RefAt \/ RefAtAt
           \/ ChildrenFail \/ TemplateFails \/ PathDone \/ LeafValues
  BY <1>4, WalkTyped
<1>5. CASE GetReturns \/ SetFails
  BY <1>5, EndTyped
<1>6. CASE SetReturns
  BY <1>6, SetReturnsTyped
<1>7. CASE RefDone \/ UNCHANGED ref_vars
  BY <1>7 DEF RefDone, ref_vars, args, state, RefTyped
<1> QED
  BY <1>1, <1>2, <1>3, <1>4, <1>5, <1>6, <1>7 DEF RefNext, Starting

-----------------------------------------------------------------------------
(* References that mean something, action by action.                       *)

\* Where an assignment starts at the same node as a reading.
FromValue == IsValue(start) \/ Absolute(ref)

OnCourse == (ref_pc = "set" => FromValue) => Resolves

SetMeaning ==
  ref_pc = "idle" /\ answer.kind = "set" /\ FromValue => answer.node = NamedNode(start, ref)

RefMeans == OnCourse /\ AnswersMeaning /\ SetMeaning

RefInv ==
  /\ RefTyped /\ WroteMeaning
  /\ Meaningful(start, ref) /\ failed # "template" => RefMeans

LEMMA KeptFromValue ==
  ASSUME RefTyped, ref_pc = "set" => FromValue
  PROVE  RefKept
<1>1. ref_pc # "idle" => orig = OrigOf(start, ref)
  <2>1. CASE Absolute(ref)
    BY <2>1 DEF orig, OrigOf, Absolute
  <2>2. CASE ~Absolute(ref) /\ ref_pc # "idle"
    <3>1. cfg_path = NodeOf(start)
      BY <2>2 DEF RefTyped, FromValue, NodeOf
    <3> QED
      BY <2>2, <3>1 DEF orig, OrigOf, Absolute
  <2> QED
    BY <2>1, <2>2
<1>2. ref \in Refs
  BY OrigTyped
<1> QED
  BY <1>1, <1>2 DEF RefTyped, RefKept

LEMMA SameListed ==
  ASSUME start' = start, ref' = ref, config' = config, active' = active
  PROVE  Tree' = Tree /\ Listed' = Listed
<1>1. Tree' = Tree
  BY DEF Tree
<1> QED
  BY <1>1 DEF Listed

\* The references of the resolution that is under way.
LEMMA ComponentMeans ==
  ASSUME RefTyped, Meaningful(start, ref), RefMeans,
         RefDot \/ RefDotDot \/ RefText \/ RefAt \/ RefAtAt \/ ChildrenFail \/ PathDone \/ LeafValues
  PROVE  RefMeans'
<1>1. ref_pc # "idle" /\ UNCHANGED <<ref_pc, args, config, active>>
  <2>1. ASSUME NEW comps, Component(comps)
        PROVE  ref_pc # "idle" /\ UNCHANGED <<ref_pc, args, config, active>>
    BY <2>1 DEF Component
  <2>2. CASE RefDot \/ RefDotDot \/ RefText \/ RefAt \/ RefAtAt \/ ChildrenFail
    <3>1. \E comps : Component(comps)
      BY <2>2 DEF RefDot, RefDotDot, RefText, RefAt, RefAtAt, ChildrenFail, Resolving
    <3> QED
      BY <2>1, <3>1
  <2>3. CASE PathDone
    BY <2>3 DEF PathDone
  <2>4. CASE LeafValues
    BY <2>4 DEF LeafValues
  <2> QED
    BY <2>2, <2>3, <2>4
<1>2. ref_pc' = ref_pc /\ start' = start /\ ref' = ref /\ config' = config /\ active' = active
  BY <1>1 DEF args
<1>3. Listed' = Listed
  BY <1>2, SameListed
<1>4. ASSUME ref_pc' = "set" => FromValue'
      PROVE  Resolves'
  <2>1. ref_pc = "set" => FromValue
    BY <1>2, <1>4 DEF FromValue
  <2>2. RefKept /\ Resolves
    BY <2>1, KeptFromValue DEF RefMeans, OnCourse
  <2>3. Midway
    BY <1>1, <2>2 DEF Resolves, Midway
  <2>4. Resolution(start, ref, Listed, todo', paths', failed')
    BY <2>3, RefDotResolves, RefDotDotResolves, RefTextResolves, RefAtResolves, RefAtAtResolves,
       ChildrenFailResolves, PathDoneResolves, LeafValuesResolves
  <2> QED
    BY <1>2, <1>3, <2>4 DEF Resolves
<1>5. OnCourse'
  BY <1>4 DEF OnCourse
<1>6. AnswersMeaning' /\ SetMeaning'
  BY <1>1, <1>2 DEF AnswersMeaning, SetMeaning
<1> QED
  BY <1>5, <1>6 DEF RefMeans

\* Whatever reference was resolved before, the next one starts at the node of
\* the action, and an assignment does so where its path is that of a value.
LEMMA BeginMeans ==
  ASSUME RefTyped, NEW r, Starting(r), Meaningful(start, ref)'
  PROVE  RefMeans'
<1>1. /\ r \in uses /\ ref' = r /\ start' = start
      /\ ref_pc' \in {"get", "set"}
      /\ ref_pc' = "get" => cfg_path' = NodeOf(start)
      /\ ref_pc' = "set" => cfg_path' = Front(start)
      /\ Construct(r, cfg_path')
  BY BeginFacts
<1>2. r \in Refs /\ start \in Starts /\ Meaningful(start, r)
  BY <1>1, UsedRef DEF RefTyped
<1>3. ASSUME ref_pc' = "set" => FromValue'
      PROVE  Resolves'
  <2>1. Absolute(r) \/ cfg_path' = NodeOf(start)
    BY <1>1, <1>3 DEF FromValue, NodeOf
  <2>2. /\ todo' = <<IF Head(r) = "/" THEN Frame(Tail(r), <<>>, FALSE)
                     ELSE Frame(r, NodeOf(start), FALSE)>>
        /\ paths' = <<>>
    <3>1. /\ todo' = <<IF Head(r) = "/" THEN Frame(Tail(r), <<>>, FALSE)
                       ELSE Frame(r, cfg_path', FALSE)>>
          /\ paths' = <<>>
      BY <1>1 DEF Construct
    <3> QED
      BY <2>1, <3>1 DEF Absolute
  <2>3. \E j \in 0..Len(Steps(r)) : PartWay(start, r, todo', <<>>, j)
    BY <1>2, <2>2, Begins
  <2>4. Resolution(start, r, Listed', todo', paths', failed')
    BY <2>2, <2>3 DEF Resolution
  <2> QED
    BY <1>1, <2>4 DEF Resolves
<1>4. OnCourse'
  BY <1>3 DEF OnCourse
<1>5. AnswersMeaning' /\ SetMeaning'
  BY <1>1 DEF AnswersMeaning, SetMeaning
<1> QED
  BY <1>4, <1>5 DEF RefMeans

\* A call that gives nothing.
LEMMA NothingMeans ==
  ASSUME ref_pc' = "idle", answer'.kind \notin {"value", "nothing", "set"}
  PROVE  RefMeans'
BY DEF RefMeans, OnCourse, Resolves, AnswersMeaning, SetMeaning

LEMMA NoAnswerKind == NoAnswer.kind = "none"
BY DEF NoAnswer

\* The reference is resolved when no call is pending.
LEMMA AllFound ==
  ASSUME RefTyped, Meaningful(start, ref), OnCourse, ref_pc # "idle", todo = <<>>,
         ref_pc = "set" => FromValue
  PROVE  RefKept /\ Listed \in Seq(STRING) /\ FoundAll(start, ref, Listed, paths, failed)
<1>1. RefKept /\ start \in Starts /\ ref \in Refs
  BY KeptFromValue DEF RefKept
<1>2. Listed \in Seq(STRING)
  BY <1>1, ListedFacts
<1>3. Resolution(start, ref, Listed, <<>>, paths, failed)
  BY DEF OnCourse, Resolves
<1> QED
  BY <1>1, <1>2, <1>3, Ended

LEMMA GetReturnsMeans ==
  ASSUME RefTyped, Meaningful(start, ref), RefMeans, GetReturns
  PROVE  RefMeans'
<1>1. /\ start' = start /\ ref' = ref /\ config' = config /\ active' = active
      /\ ref_pc = "get" /\ ref_pc' = "idle" /\ todo = <<>>
  BY DEF GetReturns, Resolved, args
<1>2. PICK down :
        /\ IF down = {} THEN failed' = failed ELSE Fails("values")
        /\ answer' = [kind |-> IF paths = <<>> THEN "nothing" ELSE "value", multi |-> ismulti,
                      words |-> Joined(paths, down)]
  BY DEF GetReturns, Joined
<1>3. answer'.words = Joined(paths, down) /\ answer'.kind # "set"
  BY <1>2
<1>4. (failed # "" => failed' # "") /\ (down # {} => failed' # "")
  BY <1>2 DEF Fails
<1>5. RefKept /\ FoundAll(start, ref, Listed, paths, failed)
  BY <1>1, AllFound DEF RefMeans
<1>6. Answers(answer'.words, StandsFor(start, ref, Tree), failed')
  BY <1>3, <1>4, <1>5, FoundMeans
<1>7. AnswersMeaning'
  <2>1. Tree' = Tree
    BY <1>1, SameListed
  <2> QED
    BY <1>1, <1>6, <2>1 DEF AnswersMeaning
<1>8. OnCourse' /\ SetMeaning'
  BY <1>1, <1>3 DEF OnCourse, Resolves, SetMeaning
<1> QED
  BY <1>7, <1>8 DEF RefMeans

LEMMA SetReturnsMeans ==
  ASSUME RefTyped, Meaningful(start, ref), RefMeans, SetReturns
  PROVE  RefMeans'
<1>1. /\ start' = start /\ ref' = ref /\ ref_pc = "set" /\ ref_pc' = "idle" /\ todo = <<>>
      /\ Settable /\ answer' = [kind |-> "set", node |-> paths[1].node]
  BY DEF SetReturns, Resolved, args
<1>2. answer'.kind = "set" /\ answer'.node = paths[1].node
  BY <1>1
<1>3. ASSUME FromValue
      PROVE  paths[1].node = NamedNode(start, ref)
  <2>1. Listed \in Seq(STRING) /\ FoundAll(start, ref, Listed, paths, failed)
    BY <1>1, <1>3, AllFound DEF RefMeans
  <2>2. start \in Starts /\ ref \in Refs
    BY OrigTyped DEF RefTyped
  <2> QED
    BY <1>1, <2>1, <2>2, SetsLeaf
<1>4. SetMeaning'
  BY <1>1, <1>2, <1>3 DEF SetMeaning, FromValue
<1>5. OnCourse' /\ AnswersMeaning'
  BY <1>1, <1>2 DEF OnCourse, Resolves, AnswersMeaning
<1> QED
  BY <1>4, <1>5 DEF RefMeans

LEMMA RefInvInit == RefInit => RefInv
<1> SUFFICES ASSUME RefInit PROVE RefInv
  OBVIOUS
<1>1. RefTyped
  BY InitTyped
<1>2. ref_pc = "idle" /\ answer = NoAnswer /\ wrote = NothingWritten
  BY InitFacts
<1>3. WroteMeaning
  BY <1>2, NothingIsWritten DEF WroteMeaning
<1>4. RefMeans
  BY <1>2, NoAnswerKind DEF RefMeans, OnCourse, Resolves, AnswersMeaning, SetMeaning
<1> QED
  BY <1>1, <1>3, <1>4 DEF RefInv

\* But for the beginning of a call the reference stays, and so does a request
\* for a template that failed.
LEMMA SameReference ==
  ASSUME \/ RefDot \/ RefDotDot \/ RefText \/ RefAt \/ RefAtAt \/ ChildrenFail
         \/ PathDone \/ LeafValues \/ GetReturns \/ SetFails \/ SetReturns
         \/ RefDone \/ UNCHANGED ref_vars
  PROVE  start' = start /\ ref' = ref /\ (failed' # "template" => failed # "template")
<1>5. ASSUME NEW comps, Component(comps)
      PROVE  start' = start /\ ref' = ref
  BY <1>5 DEF Component, args
<1>6. ASSUME NEW comps, Resolving(comps)
      PROVE  start' = start /\ ref' = ref /\ failed' = failed
  BY <1>5, <1>6 DEF Resolving
<1>7. CASE RefDot
  BY <1>6, <1>7 DEF RefDot
<1>8. CASE RefDotDot
  BY <1>6, <1>8 DEF RefDotDot
<1>9. CASE RefText
  BY <1>6, <1>9 DEF RefText
<1>10. CASE RefAt
  BY <1>6, <1>10 DEF RefAt
<1>11. CASE RefAtAt
  BY <1>6, <1>11 DEF RefAtAt
<1>12. CASE ChildrenFail
  BY <1>5, <1>12 DEF ChildrenFail, Fails
<1>14. CASE PathDone
  BY <1>14 DEF PathDone, args
<1>15. CASE LeafValues
  BY <1>15 DEF LeafValues, Fails, args
<1>16. CASE GetReturns
  BY <1>16 DEF GetReturns, Fails, args
<1>17. CASE SetFails
  BY <1>17 DEF SetFails, args
<1>18. CASE SetReturns
  BY <1>18 DEF SetReturns, args
<1>19. CASE RefDone \/ UNCHANGED ref_vars
  BY <1>19 DEF RefDone, ref_vars, args, state
<1> QED
  BY <1>7, <1>8, <1>9, <1>10, <1>11, <1>12, <1>14, <1>15, <1>16, <1>17, <1>18, <1>19

LEMMA RefInvNext == RefInv /\ (RefNext \/ UNCHANGED ref_vars) => RefInv'
<1> SUFFICES ASSUME RefInv, RefNext \/ UNCHANGED ref_vars PROVE RefInv'
  OBVIOUS
<1>1. RefTyped /\ WroteMeaning
  BY DEF RefInv
<1>2. RefTyped' /\ WroteMeaning'
  BY <1>1, TypesStay, WroteStays
<1>3. ASSUME Meaningful(start, ref)', (failed # "template")'
      PROVE  RefMeans'
  <2>1. start' = start /\ ref' = ref /\ (failed' # "template" => failed # "template")
        => Meaningful(start, ref) /\ RefMeans
    BY <1>3 DEF RefInv
  <2>2. ASSUME NEW r \in uses, Starting(r) PROVE RefMeans'
    BY <1>1, <1>3, <2>2, BeginMeans
  <2>3. ASSUME NEW r \in uses, GetRefused(r) PROVE RefMeans'
    <3>1. Call(r) /\ ref_pc' = ref_pc /\ answer' = [kind |-> "refused"]
      BY <2>3, Zenon DEF GetRefused
    <3>2. ref_pc' = "idle" /\ answer'.kind = "refused"
      BY <3>1, CallFacts
    <3> QED
      BY <3>2, NothingMeans
  <2>4. CASE Edit
    <3>1. ref_pc' = "idle" /\ answer' = NoAnswer
      BY <2>4 DEF Edit
    <3> QED
      BY <3>1, NoAnswerKind, NothingMeans
  <2>5. CASE RefDot \/ RefDotDot \/ RefText \/ RefAt \/ RefAtAt \/ ChildrenFail \/ PathDone \/ LeafValues
    BY <1>1, <2>1, <2>5, SameReference, ComponentMeans
  <2>6. CASE TemplateFails
    <3>1. failed' = "template"
      BY <2>6 DEF TemplateFails, Fails
    <3> QED
      BY <1>3, <3>1
  <2>7. CASE GetReturns
    BY <1>1, <2>1, <2>7, SameReference, GetReturnsMeans
  <2>8. CASE SetFails
    <3>1. ref_pc = "set" /\ ref_pc' = "idle" /\ answer' = answer
      BY <2>8 DEF SetFails, Resolved
    <3>2. answer' = NoAnswer
      BY <1>1, <3>1 DEF RefTyped
    <3> QED
      BY <3>1, <3>2, NoAnswerKind, NothingMeans
  <2>9. CASE SetReturns
    BY <1>1, <2>1, <2>9, SameReference, SetReturnsMeans
  <2>10. CASE RefDone \/ UNCHANGED ref_vars
    <3>1. /\ ref_pc' = ref_pc /\ start' = start /\ ref' = ref /\ config' = config
          /\ active' = active /\ todo' = todo /\ paths' = paths
          /\ answer' = answer /\ failed' = failed
      BY <2>10 DEF RefDone, ref_vars, args, state
    <3>2. Tree' = Tree /\ Listed' = Listed
      BY <3>1, SameListed
    <3>3. RefMeans
      BY <2>1, <3>1
    <3>4. OnCourse'
      BY <3>1, <3>2, <3>3 DEF RefMeans, OnCourse, Resolves, FromValue
    <3>5. AnswersMeaning'
      BY <3>1, <3>2, <3>3 DEF RefMeans, AnswersMeaning
    <3>6. SetMeaning'
      BY <3>1, <3>3 DEF RefMeans, SetMeaning, FromValue
    <3> QED
      BY <3>4, <3>5, <3>6 DEF RefMeans
  <2> QED
    BY <2>2, <2>3, <2>4, <2>5, <2>6, <2>7, <2>8, <2>9, <2>10 DEF RefNext, Starting
<1> QED
  BY <1>2, <1>3 DEF RefInv

-----------------------------------------------------------------------------
(* What a reference gives.                                                 *)

LEMMA GivesWhatItMeans == RefInv => GivesMeaning
BY DEF RefInv, RefMeans, AnswersMeaning, Answers, GivesMeaning

\* The words that answer with one value.
LEMMA OneAnswer ==
  ASSUME NEW words, NEW v, NEW fl, Answers(words, {v}, fl)
  PROVE  words = <<v>> \/ (fl # "" /\ words = <<>>)
<1>1. words \in Seq({v}) /\ Len(words) \in Nat /\ Len(words) <= 1
  BY FS_Singleton, LenProperties DEF Answers
<1>2. CASE Len(words) = 0
  <2>1. words = <<>>
    BY <1>1, <1>2
  <2>2. v \notin ToSet(words)
    BY <2>1, NoWords
  <2>3. fl # ""
    BY <2>2 DEF Answers
  <2> QED
    BY <2>1, <2>3
<1>3. CASE Len(words) = 1
  <2>1. words[1] = v
    BY <1>1, <1>3
  <2>2. words = <<v>>
    BY <1>1, <1>3, <2>1
  <2> QED
    BY <2>2
<1>4. Len(words) = 0 \/ Len(words) = 1
  <2> DEFINE n == Len(words)
  <2>1. n \in Nat /\ n <= 1
    BY <1>1
  <2> HIDE DEF n
  <2>2. n = 0 \/ n = 1
    BY <2>1
  <2> QED
    BY <2>2 DEF n
<1> QED
  BY <1>2, <1>3, <1>4

LEMMA ReadsWhatWasWritten == RefInv => WriteThenRead
<1> SUFFICES ASSUME RefInv, ref_pc = "idle", Meaningful(start, ref), failed # "template"
             PROVE  /\ answer.kind = "set" /\ FromValue => answer.node = NamedNode(start, ref)
                    /\ /\ answer.kind \in {"value", "nothing"} /\ ~active
                       /\ AsksValues(start, ref) /\ NamedNode(start, ref) \in DOMAIN wrote
                       => \/ answer.words = <<wrote[NamedNode(start, ref)]>>
                          \/ failed # "" /\ answer.words = <<>>
  BY Zenon DEF WriteThenRead, FromValue
<1>1. AnswersMeaning /\ SetMeaning /\ WroteMeaning
  BY DEF RefInv, RefMeans
<1>2. answer.kind = "set" /\ FromValue => answer.node = NamedNode(start, ref)
  BY <1>1 DEF SetMeaning
<1>3. ASSUME answer.kind \in {"value", "nothing"}, ~active,
             AsksValues(start, ref), NamedNode(start, ref) \in DOMAIN wrote
      PROVE  \/ answer.words = <<wrote[NamedNode(start, ref)]>>
             \/ failed # "" /\ answer.words = <<>>
  <2> DEFINE named == NamedNode(start, ref)
  <2>1. Children(config["CANDIDATE"], named) = {wrote[named]}
    BY <1>1, <1>3 DEF WroteMeaning
  <2>2. Tree = config["CANDIDATE"]
    BY <1>3 DEF Tree
  <2>3. StandsFor(start, ref, Tree) = Children(Tree, named)
    BY <1>3 DEF StandsFor, AsksValues
  <2>4. Answers(answer.words, StandsFor(start, ref, Tree), failed)
    BY <1>1, <1>3 DEF AnswersMeaning
  <2> HIDE DEF named
  <2>5. Answers(answer.words, {wrote[named]}, failed)
    BY <2>1, <2>2, <2>3, <2>4
  <2>6. \/ answer.words = <<wrote[named]>>
        \/ failed # "" /\ answer.words = <<>>
    BY <2>5, OneAnswer, Zenon
  <2> QED
    BY <2>6, Zenon DEF named
<1> QED
  BY <1>2, <1>3, Zenon

\* Whatever node an action is run for and whatever way its references take, the
\* values that cstore_get_var_ref gives are those of the node that the reference
\* names, for every tree of templates, every configuration and every history of
\* references, assignments and edits (process_ref, getValue).
THEOREM ReferencesGiveMeaning == RefSpec => []GivesMeaning
<1>1. RefInv /\ [RefNext]_ref_vars => RefInv'
  BY RefInvNext
<1> QED
  BY RefInvInit, <1>1, GivesWhatItMeans, PTL DEF RefSpec

\* The node that cstore_set_var_ref sets is the one its reference names, and the
\* value is what cstore_get_var_ref gives of any reference to the values of that
\* node, after whatever other references and assignments to other nodes, until
\* the candidate is edited.
THEOREM AssignmentsAreRead == RefSpec => []WriteThenRead
<1>1. RefInv /\ [RefNext]_ref_vars => RefInv'
  BY RefInvNext
<1> QED
  BY RefInvInit, <1>1, ReadsWhatWasWritten, PTL DEF RefSpec
===============================================================================
