----------------------- MODULE TemplateCompareProofs -----------------------
(***************************************************************************)
(* Theorems about TemplateCompare, for every set of strings and every      *)
(* length of the two lists.                                                *)
(***************************************************************************)
EXTENDS CompareAddresses, SequenceTheorems, WellFoundedInduction, TLAPS

\* The shape of the values eval_va makes: what the proofs need of them.
Shape(v) ==
  /\ v.val_type \in Types
  /\ v.vals \in Seq(Strings) /\ Len(v.vals) \in Nat \ {0}
  /\ v.ismulti \in BOOLEAN
  /\ v.types = <<>> => Len(v.vals) = 1 /\ Typed(v.val_type, v.vals[1])
  /\ v.types # <<>> /\ v.val_type # "TEXT" =>
       /\ ~v.ismulti
       /\ \A i \in 1..Len(v.vals) : v.types[i] \in Types /\ Typed(v.types[i], v.vals[i])

LEMMA FunctionIsSeq ==
  ASSUME NEW S, NEW n \in Nat, NEW f \in [1..n -> S]
  PROVE  f \in Seq(S) /\ Len(f) = n
<1>1. f \in Seq(S)
  BY SeqDef
<1>2. DOMAIN f = 1..n /\ DOMAIN f = 1..Len(f) /\ Len(f) \in Nat
  BY <1>1, LenProperties
<1> QED
  BY <1>1, <1>2

LEMMA NonEmptyTypes ==
  ASSUME NEW S, NEW n \in Nat, n >= 2, NEW f \in [1..n -> S]
  PROVE  f # <<>>
<1>1. Len(f) = n
  BY FunctionIsSeq
<1> QED
  BY <1>1, EmptySeq

LEMMA EvalShape ==
  ASSUME NEW v \in eval_va
  PROVE  Shape(v)
<1>1. CASE v \in Singles
  <2>1. v.vals \in Seq(Strings) /\ Len(v.vals) = 1
    BY <1>1, FunctionIsSeq DEF Singles
  <2> QED
    BY <1>1, <2>1 DEF Singles, Shape
<1>2. CASE \E n \in 2..MaxList : v \in LiteralLists(n) \cup TextLists(n)
  <2>1. PICK n \in 2..MaxList : v \in LiteralLists(n) \cup TextLists(n)
    BY <1>2
  <2>2. n \in Nat /\ n >= 2
    BY StringsAssumption
  <2>3. v.vals \in [1..n -> Strings]
    BY <2>1 DEF LiteralLists, TextLists
  <2>4. v.vals \in Seq(Strings) /\ Len(v.vals) = n
    BY <2>2, <2>3, FunctionIsSeq
  <2>5. CASE v \in LiteralLists(n)
    <3>1. v.types \in [1..n -> Types]
      BY <2>5 DEF LiteralLists
    <3>2. v.types # <<>>
      BY <2>2, <3>1, NonEmptyTypes
    <3>3. /\ v.val_type \in Types /\ v.ismulti = FALSE
          /\ \A i \in 1..n : v.types[i] \in Types /\ Typed(v.types[i], v.vals[i])
      BY <2>5, <3>1, Zenon DEF LiteralLists
    <3>4. Len(v.vals) \in Nat \ {0}
      BY <2>2, <2>4
    <3> QED
      BY <2>4, <3>2, <3>3, <3>4, Zenon DEF Shape
  <2>6. CASE v \in TextLists(n)
    <3>1. v.types \in [1..n -> {"TEXT", "ERROR"}]
      BY <2>6 DEF TextLists
    <3>2. v.types # <<>>
      BY <2>2, <3>1, NonEmptyTypes
    <3>3. v.val_type = "TEXT" /\ v.ismulti \in BOOLEAN
      BY <2>6 DEF TextLists
    <3>4. Len(v.vals) \in Nat \ {0}
      BY <2>2, <2>4
    <3> QED
      BY <2>4, <3>2, <3>3, <3>4 DEF Shape, Types
  <2> QED
    BY <2>1, <2>5, <2>6
<1> QED
  BY <1>1, <1>2 DEF eval_va

-----------------------------------------------------------------------------
LEMMA SignRange == \A n : Sign(n) \in {-1, 0, 1}
BY DEF Sign

LEMMA OrderRange == \A t, l, r : Order(t, l, r) \in {-1, 0, 1}
<1> SUFFICES ASSUME NEW t, NEW l, NEW r PROVE Order(t, l, r) \in {-1, 0, 1}
  OBVIOUS
<1>1. \A p, q : FirstDifference(p, q) \in {-1, 0, 1}
  BY SignRange DEF FirstDifference
<1> QED
  BY <1>1, SignRange DEF Order

\* The two tables say what the names of the conditions say.
LEMMA TablesAreRight ==
  ASSUME NEW c \in Conds, NEW o \in {-1, 0, 1}
  PROVE  Satisfies(o, c) <=> Holds(c, o)
<1>1. CASE c = "EQ_COND"
  BY <1>1 DEF Satisfies, Holds, cond1, cond2
<1>2. CASE c = "NE_COND"
  BY <1>2 DEF Satisfies, Holds, cond1, cond2
<1>3. CASE c = "LT_COND"
  BY <1>3 DEF Satisfies, Holds, cond1, cond2
<1>4. CASE c = "LE_COND"
  BY <1>4 DEF Satisfies, Holds, cond1, cond2
<1>5. CASE c = "GT_COND"
  BY <1>5 DEF Satisfies, Holds, cond1, cond2
<1>6. CASE c = "GE_COND"
  BY <1>6 DEF Satisfies, Holds, cond1, cond2
<1>7. CASE c = "IN_COND"
  BY <1>7 DEF Satisfies, Holds, cond1, cond2
<1> QED
  BY <1>1, <1>2, <1>3, <1>4, <1>5, <1>6, <1>7 DEF Conds

\* No string with a numeric type is without a number.
LEMMA TypedHasNumber ==
  ASSUME NEW t \in Types, t # "TEXT", NEW s \in Strings, Typed(t, s)
  PROVE  ~Empty(t, s)
BY StringsAssumption DEF Typed, Types, Empty

\* The types agree, or the left side is a multi node.
Agree == left.val_type = right.val_type \/ left.ismulti

\* Two values that are compared as numbers are never both without one.
LEMMA NotBothEmpty ==
  ASSUME Shape(left), Shape(right), Agree, left.val_type # "TEXT",
         NEW i \in 1..Len(left.vals), NEW j \in 1..Len(right.vals),
         Comparable(left.val_type, right, j)
  PROVE  ~(Empty(left.val_type, left.vals[i]) /\ Empty(left.val_type, right.vals[j]))
<1> SUFFICES ASSUME Empty(left.val_type, left.vals[i]), Empty(left.val_type, right.vals[j]) PROVE FALSE
  OBVIOUS
<1>1. left.vals[i] \in Strings /\ right.vals[j] \in Strings
  BY ElementOfSeq DEF Shape
<1>2. left.types # <<>>
  <2> SUFFICES ASSUME left.types = <<>> PROVE FALSE
    OBVIOUS
  <2>1. i = 1 /\ Typed(left.val_type, left.vals[i])
    BY DEF Shape
  <2> QED
    BY <1>1, <2>1, TypedHasNumber DEF Shape
<1>3. ~left.ismulti /\ right.val_type = left.val_type
  BY <1>2 DEF Shape, Agree
<1>4. CASE right.types = <<>>
  <2>1. j = 1 /\ Typed(right.val_type, right.vals[j])
    BY <1>4 DEF Shape
  <2> QED
    BY <1>1, <1>3, <2>1, TypedHasNumber DEF Shape
<1>5. CASE right.types # <<>>
  <2>1. right.types[j] \in Types /\ Typed(right.types[j], right.vals[j])
    BY <1>3, <1>5 DEF Shape
  <2>2. right.types[j] = left.val_type
    BY <1>5, <2>1 DEF Comparable, Types, NumTypes, ScannedTypes
  <2> QED
    BY <1>1, <2>1, <2>2, TypedHasNumber
<1> QED
  BY <1>4, <1>5

-----------------------------------------------------------------------------
\* The pairs val_cmp has dealt with.
Before(i, j) == i < lcur \/ (i = lcur /\ j < rcur)

\* Where the loop is, every comparable pair it has passed satisfies the
\* condition, and ret says whether there was one.
PassedHold ==
  /\ \A i \in 1..Len(left.vals), j \in Candidates : Before(i, j) => PairHolds(i, j)
  /\ ret <=> \E i \in 1..Len(left.vals), j \in Candidates : Before(i, j)

\* With IN_COND the value of the left the loop is at equals none of the right
\* it has been compared with, and ret says so once there was one.
PassedDiffer ==
  /\ \A j \in Candidates : j < rcur => ~PairHolds(lcur, j)
  /\ (\E j \in Candidates : j < rcur) => ~ret
  /\ Candidates = {} => ~ret

\* The state of the loop.
Passed ==
  /\ pc = "check" => ~ret /\ lcur = 1 /\ rcur = 1
  /\ pc = "loop" =>
       /\ Agree
       /\ ~Counts /\ cond # "IN_COND" => PassedHold
       /\ ~Counts /\ cond = "IN_COND" => PassedDiffer

\* The inductive invariant.
Inv == TypeOK /\ Passed /\ ReturnsMeaning

LEMMA InitInv == Init => Inv
<1> SUFFICES ASSUME Init PROVE Inv
  OBVIOUS
<1>1. Shape(left) /\ Shape(right)
  BY EvalShape DEF Init, Start
<1>2. lcur \in 1..Len(left.vals) /\ rcur \in 1..Len(right.vals)
  BY <1>1 DEF Init, Start, Shape
<1>3. TypeOK
  BY <1>2 DEF Init, Start, TypeOK
<1> QED
  BY <1>3 DEF Init, Start, Inv, Passed, ReturnsMeaning

\* The pair the loop is at is judged by its own order.
LEMMA PairJudged ==
  ASSUME TypeOK, Agree, Comparable(left.val_type, right, rcur)
  PROVE  LET r == PairResult(left.val_type, left.vals[lcur], right.vals[rcur], res)
         IN  /\ r \in {-1, 0, 1}
             /\ Satisfies(r, cond) <=> PairHolds(lcur, rcur)
<1> DEFINE r == PairResult(left.val_type, left.vals[lcur], right.vals[rcur], res)
<1>1. Shape(left) /\ Shape(right) /\ cond \in Conds
  BY EvalShape DEF TypeOK
<1>2. left.val_type # "TEXT" => ~(Empty(left.val_type, left.vals[lcur]) /\ Empty(left.val_type, right.vals[rcur]))
  BY <1>1, NotBothEmpty DEF TypeOK
<1>3. r = Order(left.val_type, left.vals[lcur], right.vals[rcur])
  BY <1>2 DEF PairResult, Order
<1>4. r \in {-1, 0, 1}
  BY <1>3, OrderRange
<1>5. Satisfies(r, cond) <=> Holds(cond, r)
  BY <1>1, <1>4, TablesAreRight
<1> QED
  BY <1>3, <1>4, <1>5 DEF PairHolds

-----------------------------------------------------------------------------
\* The input is never changed, so nothing that is said of it alone changes.
LEMMA InputFixed ==
  ASSUME UNCHANGED input
  PROVE  /\ Agree' <=> Agree
         /\ Counts' <=> Counts
         /\ Candidates' = Candidates
         /\ Meaning' <=> Meaning
         /\ \A i, j : PairHolds(i, j)' <=> PairHolds(i, j)
BY DEF input, Agree, Counts, Candidates, Meaning, PairHolds, LastIsIn, AllPairs

\* Leaving a pair behind without an answer: SkipPair and the pairs on which
\* ComparePair goes on.
LEMMA AdvanceMoves ==
  ASSUME TypeOK, pc = "loop", UNCHANGED input, Advance
  PROVE  /\ pc' \in {"loop", "done"}
         /\ lcur' \in 1..Len(left.vals) /\ rcur' \in 1..Len(right.vals)
         /\ pc' = "loop" =>
              \A i \in 1..Len(left.vals), j \in 1..Len(right.vals) :
                 Before(i, j)' <=> Before(i, j) \/ (i = lcur /\ j = rcur)
         /\ pc' = "done" =>
              /\ lcur = Len(left.vals)
              /\ \A i \in 1..Len(left.vals), j \in 1..Len(right.vals) :
                    Before(i, j) \/ (i = lcur /\ j = rcur)
<1>1. Shape(left) /\ Shape(right)
  BY EvalShape DEF TypeOK
<1>2. Len(left.vals) \in Nat /\ Len(right.vals) \in Nat
  BY <1>1 DEF Shape
<1>3. CASE rcur < Len(right.vals)
  BY <1>2, <1>3 DEF Advance, TypeOK, Before, input
<1>4. CASE ~(rcur < Len(right.vals)) /\ lcur < Len(left.vals)
  BY <1>2, <1>4 DEF Advance, NextLeft, TypeOK, Before, input
<1>5. CASE ~(rcur < Len(right.vals)) /\ ~(lcur < Len(left.vals))
  BY <1>2, <1>5 DEF Advance, NextLeft, TypeOK, Before, input
<1> QED
  BY <1>3, <1>4, <1>5

\* The next value on the right, or the first with the next value of the left.
LEMMA AdvanceInRow ==
  ASSUME TypeOK, pc = "loop", UNCHANGED input, Advance, pc' = "loop",
         NEW j \in 1..Len(right.vals), j < rcur'
  PROVE  lcur' = lcur /\ (j < rcur \/ j = rcur)
<1>1. Shape(left) /\ Shape(right)
  BY EvalShape DEF TypeOK
<1>2. Len(left.vals) \in Nat /\ Len(right.vals) \in Nat
  BY <1>1 DEF Shape
<1> QED
  BY <1>2 DEF Advance, NextLeft, TypeOK, input

LEMMA TypesKept ==
  ASSUME TypeOK, UNCHANGED input, pc' \in {"check", "loop", "done"},
         lcur' \in 1..Len(left.vals), rcur' \in 1..Len(right.vals),
         res' \in {-1, 0, 1}, ret' \in BOOLEAN
  PROVE  TypeOK'
BY DEF TypeOK, input

LEMMA CheckInv ==
  ASSUME Inv, check_comp
  PROVE  Inv'
<1>1. UNCHANGED input /\ UNCHANGED <<lcur, rcur, res, ret>>
  BY DEF check_comp, input
<1>2. TypeOK'
  <2>1. pc' \in {"check", "loop", "done"}
    BY DEF check_comp
  <2> QED
    BY <1>1, <2>1, TypesKept DEF Inv, TypeOK
<1>3. ~ret /\ lcur = 1 /\ rcur = 1
  BY DEF Inv, Passed, check_comp
<1>4. CASE ~Agree
  <2>1. pc' = "done" /\ ~Meaning
    BY <1>4 DEF check_comp, Agree, Meaning
  <2> QED
    BY <1>1, <1>2, <1>3, <2>1, InputFixed DEF Inv, Passed, ReturnsMeaning
<1>5. CASE Agree
  <2>1. pc' = "loop" /\ Agree'
    BY <1>1, <1>5, InputFixed DEF check_comp, Agree
  <2>2. \A j \in Candidates' : ~(j < rcur')
    BY <1>1, <1>3 DEF Candidates
  <2>3. \A i \in 1..Len(left'.vals), j \in Candidates' : ~Before(i, j)'
    BY <1>1, <1>3, <2>2 DEF Before
  <2>4. PassedHold' /\ PassedDiffer'
    BY <1>1, <1>3, <2>2, <2>3, Zenon DEF PassedHold, PassedDiffer
  <2> QED
    BY <1>2, <2>1, <2>4 DEF Inv, Passed, ReturnsMeaning
<1> QED
  BY <1>4, <1>5

LEMMA CountInv ==
  ASSUME Inv, CompareCount
  PROVE  Inv'
<1> DEFINE o == Sign(cnt(left) - Parts["INT"][right.vals[1]][1])
<1>1. UNCHANGED input /\ UNCHANGED <<lcur, rcur, res>> /\ pc' = "done"
  BY DEF CompareCount, input
<1>2. ret' \in BOOLEAN
  BY DEF CompareCount, Satisfies
<1>3. TypeOK'
  BY <1>1, <1>2, TypesKept DEF Inv, TypeOK
<1>4. Satisfies(o, cond) <=> Holds(cond, o)
  BY SignRange, TablesAreRight DEF Inv, TypeOK
<1>5. Counts /\ (left.val_type = right.val_type \/ left.ismulti)
  BY DEF CompareCount, Counts
<1>6. ret' <=> Meaning
  BY <1>4, <1>5 DEF CompareCount, Meaning
<1> QED
  BY <1>1, <1>3, <1>6, InputFixed DEF Inv, Passed, ReturnsMeaning

LEMMA SkipInv ==
  ASSUME Inv, SkipPair
  PROVE  Inv'
<1>1. /\ UNCHANGED input /\ UNCHANGED <<res, ret>>
      /\ pc = "loop" /\ TypeOK /\ Advance /\ ~Counts /\ Agree
      /\ cond # "IN_COND" => PassedHold
      /\ cond = "IN_COND" => PassedDiffer
  BY DEF SkipPair, input, Inv, Passed
<1>2. rcur \notin Candidates
  BY DEF SkipPair, Candidates
<1>3. /\ pc' \in {"loop", "done"}
      /\ lcur' \in 1..Len(left.vals) /\ rcur' \in 1..Len(right.vals)
      /\ pc' = "loop" =>
           \A i \in 1..Len(left.vals), j \in Candidates : Before(i, j)' <=> Before(i, j)
      /\ pc' = "done" =>
           /\ lcur = Len(left.vals)
           /\ \A i \in 1..Len(left.vals), j \in Candidates : Before(i, j)
  <2>1. \A j \in Candidates : j \in 1..Len(right.vals) /\ j # rcur
    BY <1>2 DEF Candidates
  <2> QED
    BY <1>1, <2>1, AdvanceMoves
<1>4. TypeOK'
  BY <1>1, <1>3, TypesKept DEF TypeOK
<1>5. CASE pc' = "loop"
  <2>1. cond # "IN_COND" => PassedHold'
    BY <1>1, <1>3, <1>5, InputFixed DEF PassedHold, input
  <2>2. ASSUME NEW j \in Candidates, j < rcur'
        PROVE  lcur' = lcur /\ j < rcur
    BY <1>1, <1>2, <1>5, <2>2, AdvanceInRow DEF Candidates
  <2>3. cond = "IN_COND" => PassedDiffer'
    BY <1>1, <2>2, InputFixed DEF PassedDiffer, PairHolds, input
  <2> QED
    BY <1>1, <1>4, <1>5, <2>1, <2>3, InputFixed DEF Inv, Passed, ReturnsMeaning, input
<1>6. CASE pc' = "done"
  <2>1. cond # "IN_COND" => (ret <=> AllPairs)
    <3>1. 1 \in 1..Len(left.vals)
      BY <1>1, EvalShape DEF TypeOK, Shape
    <3> QED
      BY <1>1, <1>3, <1>6, <3>1 DEF PassedHold, AllPairs
  <2>2. cond = "IN_COND" => (ret <=> LastIsIn)
    <3>1. \A j \in Candidates : j < rcur
      BY <1>1, <1>3, <1>6 DEF Before, TypeOK
    <3> QED
      BY <1>1, <1>3, <1>6, <3>1 DEF PassedDiffer, LastIsIn
  <2>3. ret <=> Meaning
    BY <1>1, <2>1, <2>2 DEF Meaning, Agree
  <2> QED
    BY <1>1, <1>4, <1>6, <2>3, InputFixed DEF Inv, Passed, ReturnsMeaning
<1> QED
  BY <1>3, <1>5, <1>6

LEMMA CompareInv ==
  ASSUME Inv, ComparePair
  PROVE  Inv'
<1>1. /\ UNCHANGED input
      /\ pc = "loop" /\ TypeOK /\ ~Counts /\ Agree
      /\ cond # "IN_COND" => PassedHold
      /\ cond = "IN_COND" => PassedDiffer
  BY DEF ComparePair, Inv, Passed
<1>2. /\ res' \in {-1, 0, 1} /\ ret' \in BOOLEAN
      /\ ret' <=> PairHolds(lcur, rcur)
  BY <1>1, PairJudged DEF ComparePair, Satisfies
<1>3. /\ rcur \in Candidates /\ lcur \in 1..Len(left.vals)
      /\ \A j \in Candidates : j \in 1..Len(right.vals)
  BY <1>1 DEF ComparePair, Candidates, TypeOK
<1>4. Len(left.vals) \in Nat \ {0}
  BY <1>1, EvalShape DEF TypeOK, Shape
<1>5. CASE ret' /\ cond = "IN_COND"
  <2>1. NextLeft
    BY <1>5 DEF ComparePair
  <2>2. CASE lcur < Len(left.vals)
    <3>1. pc' = "loop" /\ lcur' = lcur + 1 /\ rcur' = 1
      BY <1>1, <2>1, <2>2 DEF NextLeft
    <3>2. lcur' \in 1..Len(left.vals) /\ rcur' \in 1..Len(right.vals)
      BY <1>1, <1>4, <2>2, <3>1 DEF TypeOK
    <3>3. TypeOK'
      BY <1>1, <1>2, <3>1, <3>2, TypesKept
    <3>4. \A j \in Candidates : ~(j < rcur')
      BY <1>3, <3>1
    <3>5. PassedDiffer'
      BY <1>1, <1>3, <3>4, InputFixed, Zenon DEF PassedDiffer
    <3> QED
      BY <1>1, <1>5, <3>1, <3>3, <3>5, InputFixed
      DEF Inv, Passed, ReturnsMeaning, input
  <2>3. CASE ~(lcur < Len(left.vals))
    <3>1. pc' = "done" /\ lcur' = lcur /\ rcur' = rcur
      BY <2>1, <2>3 DEF NextLeft
    <3>2. TypeOK'
      BY <1>1, <1>2, <3>1, TypesKept DEF TypeOK
    <3>3. lcur = Len(left.vals)
      BY <1>3, <1>4, <2>3
    <3>4. LastIsIn
      BY <1>2, <1>3, <1>5, <3>3 DEF LastIsIn
    <3>5. ret' <=> Meaning
      BY <1>1, <1>5, <3>4 DEF Meaning, Agree
    <3> QED
      BY <1>1, <3>1, <3>2, <3>5, InputFixed DEF Inv, Passed, ReturnsMeaning
  <2> QED
    BY <2>2, <2>3
<1>6. CASE ~ret' /\ cond # "IN_COND"
  <2>1. pc' = "done" /\ lcur' = lcur /\ rcur' = rcur
    BY <1>6 DEF ComparePair
  <2>2. TypeOK'
    BY <1>1, <1>2, <2>1, TypesKept DEF TypeOK
  <2>3. ~AllPairs
    BY <1>2, <1>3, <1>6 DEF AllPairs
  <2>4. ret' <=> Meaning
    BY <1>1, <1>6, <2>3 DEF Meaning, Agree
  <2> QED
    BY <1>1, <2>1, <2>2, <2>4, InputFixed DEF Inv, Passed, ReturnsMeaning
<1>7. CASE ~(ret' /\ cond = "IN_COND") /\ ~(~ret' /\ cond # "IN_COND")
  <2>1. Advance
    BY <1>7 DEF ComparePair
  <2>2. /\ pc' \in {"loop", "done"}
        /\ lcur' \in 1..Len(left.vals) /\ rcur' \in 1..Len(right.vals)
        /\ pc' = "loop" =>
             \A i \in 1..Len(left.vals), j \in Candidates :
                Before(i, j)' <=> Before(i, j) \/ (i = lcur /\ j = rcur)
        /\ pc' = "done" =>
             /\ lcur = Len(left.vals)
             /\ \A i \in 1..Len(left.vals), j \in Candidates :
                   Before(i, j) \/ (i = lcur /\ j = rcur)
    BY <1>1, <1>3, <2>1, AdvanceMoves
  <2>3. TypeOK'
    BY <1>1, <1>2, <2>2, TypesKept
  <2>4. CASE pc' = "loop"
    <3>1. cond # "IN_COND" => PassedHold'
      BY <1>1, <1>2, <1>3, <1>7, <2>2, <2>4, InputFixed DEF PassedHold, input
    <3>2. ASSUME NEW j \in Candidates, j < rcur'
          PROVE  lcur' = lcur /\ (j < rcur \/ j = rcur)
      BY <1>1, <1>3, <2>1, <2>4, <3>2, AdvanceInRow
    <3>3. cond = "IN_COND" => PassedDiffer'
      BY <1>1, <1>2, <1>7, <3>2, InputFixed DEF PassedDiffer, PairHolds, input
    <3> QED
      BY <1>1, <2>3, <2>4, <3>1, <3>3, InputFixed DEF Inv, Passed, ReturnsMeaning, input
  <2>5. CASE pc' = "done"
    <3>1. cond # "IN_COND" => (ret' <=> AllPairs)
      BY <1>1, <1>2, <1>3, <1>7, <2>2, <2>5 DEF PassedHold, AllPairs
    <3>2. cond = "IN_COND" => (ret' <=> LastIsIn)
      <4>1. \A j \in Candidates : j < rcur \/ j = rcur
        BY <1>1, <1>3, <2>2, <2>5 DEF Before, TypeOK
      <4> QED
        BY <1>1, <1>2, <1>7, <2>2, <2>5, <4>1 DEF PassedDiffer, LastIsIn
    <3>3. ret' <=> Meaning
      BY <1>1, <3>1, <3>2 DEF Meaning, Agree
    <3> QED
      BY <1>1, <2>3, <2>5, <3>3, InputFixed DEF Inv, Passed, ReturnsMeaning
  <2> QED
    BY <2>2, <2>4, <2>5
<1> QED
  BY <1>5, <1>6, <1>7

LEMMA NextInv == Inv /\ [Next]_vars => Inv'
<1> SUFFICES ASSUME Inv, [Next]_vars PROVE Inv'
  OBVIOUS
<1>1. CASE check_comp
  BY <1>1, CheckInv
<1>2. CASE CompareCount
  BY <1>2, CountInv
<1>3. CASE SkipPair
  BY <1>3, SkipInv
<1>4. CASE ComparePair
  BY <1>4, CompareInv
<1>5. CASE UNCHANGED vars
  <2>1. UNCHANGED input /\ UNCHANGED <<pc, lcur, rcur, res, ret>>
    BY <1>5 DEF vars, input
  <2>2. TypeOK'
    BY <2>1, TypesKept DEF Inv, TypeOK
  <2>3. (PassedHold' <=> PassedHold) /\ (PassedDiffer' <=> PassedDiffer)
    BY <2>1 DEF input, PassedHold, PassedDiffer, Before, Candidates, PairHolds
  <2> QED
    BY <2>1, <2>2, <2>3, InputFixed DEF Inv, Passed, ReturnsMeaning, input
<1> QED
  BY <1>1, <1>2, <1>3, <1>4, <1>5 DEF Next, Returned

LEMMA Invariant == Spec => []Inv
BY InitInv, NextInv, PTL DEF Spec

\* For all strings and lists of any length, val_cmp's result is what the
\* condition means: all comparable pairs satisfy it and there is one, or, for
\* IN_COND, the last value of the left is on the right.
THEOREM ComparisonIsMeaning == Spec => []ReturnsMeaning
<1>1. Inv => ReturnsMeaning
  BY DEF Inv
<1> QED
  BY <1>1, Invariant, PTL

\* No pair is judged by what an earlier one left in res.
THEOREM ResultsAreFresh == Spec => []NoStaleResult
<1>1. Inv => NoStaleResult
  <2> SUFFICES ASSUME Inv, pc = "loop", Comparable(left.val_type, right, rcur),
                      left.val_type # "TEXT"
               PROVE  ~(Empty(left.val_type, left.vals[lcur]) /\ Empty(left.val_type, right.vals[rcur]))
    BY DEF NoStaleResult
  <2>1. Shape(left) /\ Shape(right) /\ Agree
    BY EvalShape DEF Inv, TypeOK, Passed
  <2> QED
    BY <2>1, NotBothEmpty DEF Inv, TypeOK
<1> QED
  BY <1>1, Invariant, PTL

-----------------------------------------------------------------------------
(***************************************************************************)
(* Induction over the natural numbers, from the least element of a set:    *)
(* the statement has a set where NatInduction has an operator.             *)
(***************************************************************************)

\* A set of natural numbers that is not empty has a least element.
LEMMA LeastElement ==
  ASSUME NEW T, T \subseteq Nat, T # {}
  PROVE  \E x \in T : \A y \in T : x <= y
<1> DEFINE R == OpToRel(<, Nat)
<1>1. IsWellFoundedOn(R, Nat)
  BY NatLessThanWellFounded, Zenon
<1>2. \A x, y \in Nat : y < x => <<y, x>> \in R
  BY DEF OpToRel
<1> HIDE DEF R
<1>3. PICK x \in T : \A y \in T : <<y, x>> \notin R
  BY <1>1, WFMin
<1>4. ASSUME NEW y \in T PROVE x <= y
  <2>1. x \in Nat /\ y \in Nat
    OBVIOUS
  <2>2. ~(y < x)
    BY <1>2, <1>3, <2>1
  <2> QED
    BY <2>1, <2>2
<1> QED
  BY <1>4

\* A set that holds 0 and with every number the next one holds all of them.
LEMMA SetInduction ==
  ASSUME NEW T, 0 \in T, \A k \in Nat : k \in T => k + 1 \in T
  PROVE  \A k \in Nat : k \in T
<1> DEFINE U == Nat \ T
<1>1. SUFFICES ASSUME U # {} PROVE FALSE
  OBVIOUS
<1>2. PICK x \in U : \A y \in U : x <= y
  BY <1>1, LeastElement
<1>3. x # 0 /\ x - 1 \in Nat
  BY <1>2
<1>4. x - 1 \notin U
  BY <1>2, <1>3
<1> QED
  BY <1>2, <1>3, <1>4

-----------------------------------------------------------------------------
(* The numbers of a text.                                                  *)

\* The values num has while the digits are read.
Reads(base, digits, num) ==
  num = [i \in 0..Len(digits) |-> IF i = 0 THEN 0 ELSE num[i - 1] * base + digits[i]]

LEMMA ReadsExists ==
  ASSUME NEW base \in Nat, NEW digits \in Seq(Nat)
  PROVE  \E num : Reads(base, digits, num)
<1> DEFINE W(k, f) == f = [i \in 0..k |-> IF i = 0 THEN 0 ELSE f[i - 1] * base + digits[i]]
           T == {k \in Nat : \E f : W(k, f)}
<1>1. 0 \in T
  <2> DEFINE f == [i \in 0..0 |-> 0]
  <2>1. W(0, f)
    OBVIOUS
  <2> QED
    BY <2>1
<1>2. ASSUME NEW k \in Nat, k \in T PROVE k + 1 \in T
  <2>1. PICK f : W(k, f)
    BY <1>2
  <2> DEFINE g == [i \in 0..k + 1 |-> IF i = k + 1 THEN f[k] * base + digits[k + 1] ELSE f[i]]
             h == [i \in 0..k + 1 |-> IF i = 0 THEN 0 ELSE g[i - 1] * base + digits[i]]
  <2>2. \A i \in 0..k : f[i] = IF i = 0 THEN 0 ELSE f[i - 1] * base + digits[i]
    BY <2>1
  <2>3. ASSUME NEW i \in 0..k + 1 PROVE g[i] = h[i]
    <3>1. CASE i = k + 1
      <4>1. h[i] = g[k] * base + digits[i] /\ g[k] = f[k]
        BY <3>1
      <4> QED
        BY <3>1, <4>1
    <3>2. CASE i # k + 1 /\ i # 0
      <4>1. i \in 0..k /\ i - 1 \in 0..k + 1 /\ i - 1 # k + 1
        BY <3>2
      <4>2. h[i] = g[i - 1] * base + digits[i] /\ g[i - 1] = f[i - 1] /\ g[i] = f[i]
        BY <3>2, <4>1
      <4> QED
        BY <2>2, <3>2, <4>1, <4>2
    <3>3. CASE i = 0
      BY <2>2, <3>3
    <3> QED
      BY <3>1, <3>2, <3>3
  <2>4. g = h
    BY <2>3
  <2>5. W(k + 1, g)
    BY <2>4
  <2> HIDE DEF g
  <2>6. \E x : W(k + 1, x)
    BY <2>5
  <2> QED
    BY <2>6
<1> HIDE DEF T
<1>3. Len(digits) \in T
  BY <1>1, <1>2, SetInduction
<1>4. \E f : W(Len(digits), f)
  BY <1>3 DEF T
<1> QED
  BY <1>4 DEF Reads

LEMMA NumberReads ==
  ASSUME NEW base \in Nat, NEW digits \in Seq(Nat)
  PROVE  \E num : Reads(base, digits, num) /\ Number(base, digits) = num[Len(digits)]
<1> DEFINE num == CHOOSE f : Reads(base, digits, f)
<1>1. Reads(base, digits, num)
  BY ReadsExists
<1>2. Number(base, digits) = num[Len(digits)]
  BY DEF Number, Reads
<1> QED
  BY <1>1, <1>2

\* What is read is a natural number, and nothing is read as 0.
LEMMA NumberIsNat ==
  ASSUME NEW base \in Nat, NEW digits \in Seq(Nat)
  PROVE  Number(base, digits) \in Nat
<1>1. PICK num : Reads(base, digits, num) /\ Number(base, digits) = num[Len(digits)]
  BY NumberReads
<1>2. \A i \in 0..Len(digits) : num[i] = IF i = 0 THEN 0 ELSE num[i - 1] * base + digits[i]
  BY <1>1 DEF Reads
<1> DEFINE T == {k \in Nat : k <= Len(digits) => num[k] \in Nat}
<1>3. 0 \in T
  BY <1>2
<1>4. ASSUME NEW k \in Nat, k \in T PROVE k + 1 \in T
  <2> SUFFICES ASSUME k + 1 <= Len(digits) PROVE num[k + 1] \in Nat
    OBVIOUS
  <2>1. num[k] \in Nat /\ digits[k + 1] \in Nat /\ k + 1 \in 0..Len(digits)
    BY <1>4
  <2>2. num[k + 1] = num[k] * base + digits[k + 1]
    BY <1>2, <2>1
  <2>3. num[k] * base \in Nat
    BY <2>1
  <2> QED
    BY <2>1, <2>2, <2>3
<1> HIDE DEF T
<1>5. Len(digits) \in T
  BY <1>3, <1>4, SetInduction
<1> QED
  BY <1>1, <1>5 DEF T

LEMMA NothingIsZero ==
  ASSUME NEW base \in Nat
  PROVE  Number(base, <<>>) = 0
<1>1. <<>> \in Seq(Nat) /\ Len(<<>>) = 0
  OBVIOUS
<1>2. PICK num : Reads(base, <<>>, num) /\ Number(base, <<>>) = num[0]
  BY <1>1, NumberReads
<1> QED
  BY <1>1, <1>2 DEF Reads

\* Up to three decimal digits that were read as hexadecimal ones come out right.
LEMMA FromHexIsDecimal ==
  ASSUME NEW digits \in RE_IPV4_BYTE
  PROVE  FromHex(Number(16, digits)) = Number(10, digits)
<1>1. PICK n \in 1..3 : digits \in [1..n -> 0..9]
  BY DEF RE_IPV4_BYTE, Digits
<1>2. digits \in Seq(Nat) /\ Len(digits) = n
  <2>1. digits \in Seq(0..9) /\ Len(digits) = n
    BY <1>1, FunctionIsSeq
  <2> QED
    BY <2>1
<1>3. PICK x : Reads(16, digits, x) /\ Number(16, digits) = x[n]
  BY <1>2, NumberReads
<1>4. PICK y : Reads(10, digits, y) /\ Number(10, digits) = y[n]
  BY <1>2, NumberReads
<1>5. \A i \in 0..n : /\ x[i] = IF i = 0 THEN 0 ELSE x[i - 1] * 16 + digits[i]
                      /\ y[i] = IF i = 0 THEN 0 ELSE y[i - 1] * 10 + digits[i]
  BY <1>2, <1>3, <1>4 DEF Reads
<1>6. PICK d1 \in 0..9 : d1 = digits[1]
  BY <1>1
<1>7. x[0] = 0 /\ y[0] = 0 /\ x[1] = d1 /\ y[1] = d1
  BY <1>5, <1>6
<1>8. CASE n = 1
  <2>1. FromHex(d1) = d1
    BY DEF FromHex
  <2> QED
    BY <1>3, <1>4, <1>7, <1>8, <2>1
<1>9. CASE n >= 2
  <2>1. PICK d2 \in 0..9 : d2 = digits[2]
    BY <1>1, <1>9
  <2>2. x[2] = d1 * 16 + d2 /\ y[2] = d1 * 10 + d2
    BY <1>5, <1>7, <1>9, <2>1
  <2>3. CASE n = 2
    BY <1>3, <1>4, <2>2, <2>3 DEF FromHex
  <2>4. CASE n = 3
    <3>1. PICK d3 \in 0..9 : d3 = digits[3]
      BY <1>1, <2>4
    <3>2. x[3] = (d1 * 16 + d2) * 16 + d3 /\ y[3] = (d1 * 10 + d2) * 10 + d3
      BY <1>5, <2>2, <2>4, <3>1
    <3>3. x[3] = d1 * 256 + (d2 * 16 + d3) /\ y[3] = d1 * 100 + (d2 * 10 + d3)
      BY <3>2
    <3>4. FromHex(x[3]) = d1 * 100 + d2 * 10 + d3
      BY <3>3 DEF FromHex
    <3> QED
      BY <1>3, <1>4, <2>4, <3>3, <3>4
  <2> QED
    BY <1>9, <2>3, <2>4
<1> QED
  BY <1>8, <1>9

-----------------------------------------------------------------------------
(* The loop of scan_ipv6.                                                  *)

\* The states of the loop, as a function of the number that was closed last.
Scans(text, st) ==
  st = [i \in 0..Len(text) |-> IF i = 0 THEN ScanStart ELSE CloseNumber(st[i - 1], text[i])]

LEMMA ScansExists ==
  ASSUME NEW S, NEW text \in Seq(S)
  PROVE  \E st : Scans(text, st)
<1> DEFINE W(k, f) == f = [i \in 0..k |-> IF i = 0 THEN ScanStart ELSE CloseNumber(f[i - 1], text[i])]
           T == {k \in Nat : \E f : W(k, f)}
<1>1. 0 \in T
  <2> DEFINE f == [i \in 0..0 |-> ScanStart]
  <2>1. W(0, f)
    OBVIOUS
  <2> QED
    BY <2>1
<1>2. ASSUME NEW k \in Nat, k \in T PROVE k + 1 \in T
  <2>1. PICK f : W(k, f)
    BY <1>2
  <2> DEFINE g == [i \in 0..k + 1 |-> IF i = k + 1 THEN CloseNumber(f[k], text[k + 1]) ELSE f[i]]
             h == [i \in 0..k + 1 |-> IF i = 0 THEN ScanStart ELSE CloseNumber(g[i - 1], text[i])]
  <2>2. \A i \in 0..k : f[i] = IF i = 0 THEN ScanStart ELSE CloseNumber(f[i - 1], text[i])
    BY <2>1
  <2>3. ASSUME NEW i \in 0..k + 1 PROVE g[i] = h[i]
    <3>1. CASE i = k + 1
      <4>1. h[i] = CloseNumber(g[k], text[i]) /\ g[k] = f[k]
        BY <3>1
      <4> QED
        BY <3>1, <4>1
    <3>2. CASE i # k + 1 /\ i # 0
      <4>1. i \in 0..k /\ i - 1 \in 0..k + 1 /\ i - 1 # k + 1
        BY <3>2
      <4>2. h[i] = CloseNumber(g[i - 1], text[i]) /\ g[i - 1] = f[i - 1] /\ g[i] = f[i]
        BY <3>2, <4>1
      <4> QED
        BY <2>2, <3>2, <4>1, <4>2
    <3>3. CASE i = 0
      BY <2>2, <3>3
    <3> QED
      BY <3>1, <3>2, <3>3
  <2>4. g = h
    BY <2>3
  <2>5. W(k + 1, g)
    BY <2>4
  <2> HIDE DEF g
  <2> HIDE DEF W
  <2>6. \E x : W(k + 1, x)
    BY <2>5
  <2> QED
    BY <2>6
<1> HIDE DEF T
<1>3. Len(text) \in T
  BY <1>1, <1>2, SetInduction
<1>4. \E f : W(Len(text), f)
  BY <1>3 DEF T
<1> QED
  BY <1>4 DEF Scans

LEMMA ScanLoop ==
  ASSUME NEW S, NEW text \in Seq(S)
  PROVE  \E st : Scans(text, st) /\ scan_ipv6(text) = FillGap(st[Len(text)])
<1> DEFINE st == CHOOSE f : Scans(text, f)
<1>1. Scans(text, st)
  BY ScansExists
<1>2. scan_ipv6(text) = FillGap(st[Len(text)])
  BY DEF scan_ipv6, Scans
<1> QED
  BY <1>1, <1>2

ScanState(parts, pos, dots, base, total) ==
  [parts |-> parts, dot_dot_pos |-> pos, dot_cnt |-> dots, base |-> base, total |-> total]

LEMMA SeparateState ==
  ASSUME NEW parts, NEW pos, NEW dots, NEW base, NEW total, NEW sep
  PROVE  Separate(ScanState(parts, pos, dots, base, total), sep) =
           ScanState(parts, IF sep = "::" THEN Len(parts) + 1 ELSE pos,
                     IF sep = "." THEN dots + 1 ELSE dots,
                     IF sep = "/" \/ (sep = "." /\ dots = 0) THEN 10 ELSE base,
                     IF sep = "/" THEN 9 ELSE total)
<1> DEFINE st == ScanState(parts, pos, dots, base, total)
<1>1. PICK dots2 : dots2 = IF sep = "." THEN dots + 1 ELSE dots
  OBVIOUS
<1>2. PICK base2 : base2 = IF sep = "/" \/ (sep = "." /\ dots = 0) THEN 10 ELSE base
  OBVIOUS
<1>3. PICK total2 : total2 = IF sep = "/" THEN 9 ELSE total
  OBVIOUS
<1>4. PICK pos2 : pos2 = IF sep = "::" THEN Len(parts) + 1 ELSE pos
  OBVIOUS
<1>5. st.dot_cnt = dots /\ st.base = base /\ st.total = total /\ st.parts = parts /\ st.dot_dot_pos = pos
  BY DEF ScanState
<1>6. Separate(st, sep) = [st EXCEPT !.dot_cnt = dots2, !.base = base2, !.total = total2, !.dot_dot_pos = pos2]
  <2> HIDE DEF st
  <2> QED
    BY <1>1, <1>2, <1>3, <1>4, <1>5 DEF Separate
<1>7. @ = [[[[st EXCEPT !.dot_cnt = dots2] EXCEPT !.base = base2] EXCEPT !.total = total2] EXCEPT !.dot_dot_pos = pos2]
  <2> HIDE DEF st
  <2> QED
    OBVIOUS
<1>8. [st EXCEPT !.dot_cnt = dots2] = ScanState(parts, pos, dots2, base, total)
  BY DEF ScanState
<1>9. [ScanState(parts, pos, dots2, base, total) EXCEPT !.base = base2] = ScanState(parts, pos, dots2, base2, total)
  BY DEF ScanState
<1>10. [ScanState(parts, pos, dots2, base2, total) EXCEPT !.total = total2] = ScanState(parts, pos, dots2, base2, total2)
  BY DEF ScanState
<1>11. [ScanState(parts, pos, dots2, base2, total2) EXCEPT !.dot_dot_pos = pos2] = ScanState(parts, pos2, dots2, base2, total2)
  BY DEF ScanState
<1>12. Separate(st, sep) = ScanState(parts, pos2, dots2, base2, total2)
  BY <1>6, <1>7, <1>8, <1>9, <1>10, <1>11
<1> QED
  BY <1>1, <1>2, <1>3, <1>4, <1>12

\* The number in a base, or the correction of a first decimal.
ReadAs(base, dots, d, sep) ==
  IF sep = "." /\ dots = 0 THEN FromHex(Number(base, d)) ELSE Number(base, d)

\* A number is appended, or combined with the one before.
LEMMA CloseAppends ==
  ASSUME NEW old, NEW new, NEW d, NEW sep, Separate(old, sep) = new, ~Combines(new, sep)
  PROVE  CloseNumber(old, Item(d, sep)) =
           [new EXCEPT !.parts = Append(new.parts, ReadAs(old.base, old.dot_cnt, d, sep))]
<1> DEFINE item == Item(d, sep)
<1>1. item.digits = d /\ item.sep = sep
  BY DEF Item
<1> HIDE DEF item
<1>2. CloseNumber(old, item) =
           [new EXCEPT !.parts = Append(new.parts, ReadAs(old.base, old.dot_cnt, d, sep))]
  BY <1>1, Zenon DEF CloseNumber, ReadAs
<1> QED
  BY <1>2 DEF item

LEMMA CloseCombines ==
  ASSUME NEW old, NEW new, NEW d, NEW sep, Separate(old, sep) = new, Combines(new, sep)
  PROVE  CloseNumber(old, Item(d, sep)) =
           [new EXCEPT !.parts[Len(new.parts)] = @ * 256 + ReadAs(old.base, old.dot_cnt, d, sep)]
<1> DEFINE item == Item(d, sep)
<1>1. item.digits = d /\ item.sep = sep
  BY DEF Item
<1> HIDE DEF item
<1>2. CloseNumber(old, item) =
           [new EXCEPT !.parts[Len(new.parts)] = @ * 256 + ReadAs(old.base, old.dot_cnt, d, sep)]
  BY <1>1, Zenon DEF CloseNumber, ReadAs
<1> QED
  BY <1>2 DEF item

LEMMA PartsOf ==
  ASSUME NEW parts, NEW pos, NEW dots, NEW base, NEW total, NEW x
  PROVE  /\ ScanState(parts, pos, dots, base, total).parts = parts
         /\ [ScanState(parts, pos, dots, base, total) EXCEPT !.parts = x] =
              ScanState(x, pos, dots, base, total)
         /\ \A n : [ScanState(parts, pos, dots, base, total) EXCEPT !.parts[n] = @ * 256 + x] =
              ScanState([parts EXCEPT ![n] = @ * 256 + x], pos, dots, base, total)
BY DEF ScanState

\* A group of an address is closed.
LEMMA CloseGroup ==
  ASSUME NEW parts, NEW pos, NEW d, NEW sep \in {":", "::", "/", "end"}
  PROVE  CloseNumber(ScanState(parts, pos, 0, 16, 8), Item(d, sep)) =
           ScanState(Append(parts, Number(16, d)), IF sep = "::" THEN Len(parts) + 1 ELSE pos,
                     0, IF sep = "/" THEN 10 ELSE 16, IF sep = "/" THEN 9 ELSE 8)
<1>0. PICK pos2, base2, total2 :
        /\ pos2 = IF sep = "::" THEN Len(parts) + 1 ELSE pos
        /\ base2 = IF sep = "/" THEN 10 ELSE 16
        /\ total2 = IF sep = "/" THEN 9 ELSE 8
  OBVIOUS
<1> DEFINE old == ScanState(parts, pos, 0, 16, 8)
           new == ScanState(parts, pos2, 0, base2, total2)
<1>1. Separate(old, sep) = new
  BY <1>0, SeparateState
<1>2. ~Combines(new, sep)
  BY DEF Combines, ScanState
<1>3. old.base = 16 /\ old.dot_cnt = 0 /\ new.parts = parts
  BY DEF ScanState
<1>4. ReadAs(16, 0, d, sep) = Number(16, d)
  BY DEF ReadAs
<1>5. [new EXCEPT !.parts = Append(parts, Number(16, d))] =
        ScanState(Append(parts, Number(16, d)), pos2, 0, base2, total2)
  <2>1. PICK longer : longer = Append(parts, Number(16, d))
    OBVIOUS
  <2>2. [new EXCEPT !.parts = longer] = ScanState(longer, pos2, 0, base2, total2)
    BY PartsOf
  <2> HIDE DEF new
  <2> QED
    BY <2>1, <2>2, Zenon
<1> HIDE DEF old, new
<1>6. CloseNumber(old, Item(d, sep)) = [new EXCEPT !.parts = Append(parts, Number(16, d))]
  BY <1>1, <1>2, <1>3, <1>4, CloseAppends
<1> QED
  BY <1>0, <1>5, <1>6, Zenon DEF old

\* The prefix length is closed.
LEMMA ClosePrefix ==
  ASSUME NEW parts, NEW pos, NEW d
  PROVE  CloseNumber(ScanState(parts, pos, 0, 10, 9), Item(d, "end")) =
           ScanState(Append(parts, Number(10, d)), pos, 0, 10, 9)
<1> DEFINE old == ScanState(parts, pos, 0, 10, 9)
           new == ScanState(parts, pos, 0, 10, 9)
<1>1. Separate(old, "end") = new
  BY SeparateState
<1>2. ~Combines(new, "end")
  BY DEF Combines, ScanState
<1>3. old.base = 10 /\ old.dot_cnt = 0 /\ new.parts = parts
  BY DEF ScanState
<1>4. ReadAs(10, 0, d, "end") = Number(10, d)
  BY DEF ReadAs
<1>5. [new EXCEPT !.parts = Append(parts, Number(10, d))] =
        ScanState(Append(parts, Number(10, d)), pos, 0, 10, 9)
  <2>1. PICK longer : longer = Append(parts, Number(10, d))
    OBVIOUS
  <2>2. [new EXCEPT !.parts = longer] = ScanState(longer, pos, 0, 10, 9)
    BY PartsOf
  <2> HIDE DEF new
  <2> QED
    BY <2>1, <2>2, Zenon
<1> HIDE DEF old, new
<1>6. CloseNumber(old, Item(d, "end")) = [new EXCEPT !.parts = Append(parts, Number(10, d))]
  BY <1>1, <1>2, <1>3, <1>4, CloseAppends
<1> QED
  BY <1>5, <1>6, Zenon DEF old

\* The four numbers of a dotted end are closed.
LEMMA CloseFirst ==
  ASSUME NEW parts, NEW pos, NEW d
  PROVE  CloseNumber(ScanState(parts, pos, 0, 16, 8), Item(d, ".")) =
           ScanState(Append(parts, FromHex(Number(16, d))), pos, 1, 10, 8)
<1> DEFINE old == ScanState(parts, pos, 0, 16, 8)
           new == ScanState(parts, pos, 1, 10, 8)
<1>1. Separate(old, ".") = new
  BY SeparateState
<1>2. ~Combines(new, ".")
  BY DEF Combines, ScanState
<1>3. old.base = 16 /\ old.dot_cnt = 0 /\ new.parts = parts
  BY DEF ScanState
<1>4. ReadAs(16, 0, d, ".") = FromHex(Number(16, d))
  BY DEF ReadAs
<1>5. [new EXCEPT !.parts = Append(parts, FromHex(Number(16, d)))] =
        ScanState(Append(parts, FromHex(Number(16, d))), pos, 1, 10, 8)
  <2>1. PICK longer : longer = Append(parts, FromHex(Number(16, d)))
    OBVIOUS
  <2>2. [new EXCEPT !.parts = longer] = ScanState(longer, pos, 1, 10, 8)
    BY PartsOf
  <2> HIDE DEF new
  <2> QED
    BY <2>1, <2>2, Zenon
<1> HIDE DEF old, new
<1>6. CloseNumber(old, Item(d, ".")) = [new EXCEPT !.parts = Append(parts, FromHex(Number(16, d)))]
  BY <1>1, <1>2, <1>3, <1>4, CloseAppends
<1> QED
  BY <1>5, <1>6, Zenon DEF old

\* A part and the next decimal in one.
Join(f, x) == [f EXCEPT ![Len(f)] = @ * 256 + x]

LEMMA CloseSecond ==
  ASSUME NEW parts, NEW pos, NEW d
  PROVE  CloseNumber(ScanState(parts, pos, 1, 10, 8), Item(d, ".")) =
           ScanState(Join(parts, Number(10, d)), pos, 2, 10, 8)
<1> DEFINE old == ScanState(parts, pos, 1, 10, 8)
           new == ScanState(parts, pos, 2, 10, 8)
<1>1. Separate(old, ".") = new
  BY SeparateState
<1>2. Combines(new, ".")
  BY DEF Combines, ScanState
<1>3. old.base = 10 /\ old.dot_cnt = 1 /\ new.parts = parts
  BY DEF ScanState
<1>4. ReadAs(10, 1, d, ".") = Number(10, d)
  BY DEF ReadAs
<1>5. [new EXCEPT !.parts[Len(parts)] = @ * 256 + Number(10, d)] =
        ScanState([parts EXCEPT ![Len(parts)] = @ * 256 + Number(10, d)], pos, 2, 10, 8)
  BY PartsOf
<1> HIDE DEF old, new
<1>6. CloseNumber(old, Item(d, ".")) = [new EXCEPT !.parts[Len(parts)] = @ * 256 + Number(10, d)]
  BY <1>1, <1>2, <1>3, <1>4, CloseCombines
<1> QED
  BY <1>5, <1>6, Zenon DEF old, Join

LEMMA CloseThird ==
  ASSUME NEW parts, NEW pos, NEW d
  PROVE  CloseNumber(ScanState(parts, pos, 2, 10, 8), Item(d, ".")) =
           ScanState(Append(parts, Number(10, d)), pos, 3, 10, 8)
<1> DEFINE old == ScanState(parts, pos, 2, 10, 8)
           new == ScanState(parts, pos, 3, 10, 8)
<1>1. Separate(old, ".") = new
  BY SeparateState
<1>2. ~Combines(new, ".")
  BY DEF Combines, ScanState
<1>3. old.base = 10 /\ old.dot_cnt = 2 /\ new.parts = parts
  BY DEF ScanState
<1>4. ReadAs(10, 2, d, ".") = Number(10, d)
  BY DEF ReadAs
<1>5. [new EXCEPT !.parts = Append(parts, Number(10, d))] =
        ScanState(Append(parts, Number(10, d)), pos, 3, 10, 8)
  <2>1. PICK longer : longer = Append(parts, Number(10, d))
    OBVIOUS
  <2>2. [new EXCEPT !.parts = longer] = ScanState(longer, pos, 3, 10, 8)
    BY PartsOf
  <2> HIDE DEF new
  <2> QED
    BY <2>1, <2>2, Zenon
<1> HIDE DEF old, new
<1>6. CloseNumber(old, Item(d, ".")) = [new EXCEPT !.parts = Append(parts, Number(10, d))]
  BY <1>1, <1>2, <1>3, <1>4, CloseAppends
<1> QED
  BY <1>5, <1>6, Zenon DEF old

LEMMA CloseFourth ==
  ASSUME NEW parts, NEW pos, NEW d
  PROVE  CloseNumber(ScanState(parts, pos, 3, 10, 8), Item(d, "end")) =
           ScanState(Join(parts, Number(10, d)), pos, 3, 10, 8)
<1> DEFINE old == ScanState(parts, pos, 3, 10, 8)
           new == ScanState(parts, pos, 3, 10, 8)
<1>1. Separate(old, "end") = new
  BY SeparateState
<1>2. Combines(new, "end")
  BY DEF Combines, ScanState
<1>3. old.base = 10 /\ old.dot_cnt = 3 /\ new.parts = parts
  BY DEF ScanState
<1>4. ReadAs(10, 3, d, "end") = Number(10, d)
  BY DEF ReadAs
<1>5. [new EXCEPT !.parts[Len(parts)] = @ * 256 + Number(10, d)] =
        ScanState([parts EXCEPT ![Len(parts)] = @ * 256 + Number(10, d)], pos, 3, 10, 8)
  BY PartsOf
<1> HIDE DEF old, new
<1>6. CloseNumber(old, Item(d, "end")) = [new EXCEPT !.parts[Len(parts)] = @ * 256 + Number(10, d)]
  BY <1>1, <1>2, <1>3, <1>4, CloseCombines
<1> QED
  BY <1>5, <1>6, Zenon DEF old, Join

-----------------------------------------------------------------------------
(* The numbers and the separators of a notation.                           *)

HeadGroups(a) == IF a.gap /\ a.front = <<>> THEN <<<<>>>> ELSE a.front
TailGroups(a) ==
  IF a.back \o a.quad = <<>> /\ (a.gap \/ HeadGroups(a) = <<>>) THEN <<<<>>>> ELSE a.back \o a.quad
Numbers(a) == HeadGroups(a) \o TailGroups(a) \o a.prefix

\* The notations scan_ipv6 reads right.
Proper(a) == a \in Notations /\ RE_IPV6(a) /\ (Dotted(a) => a.prefix = <<>>)

LEMMA DigitsAreNats ==
  ASSUME NEW base \in Nat, NEW max \in Nat
  PROVE  Digits(base, max) \subseteq Seq(Nat)
<1> SUFFICES ASSUME NEW d \in Digits(base, max) PROVE d \in Seq(Nat)
  OBVIOUS
<1>1. PICK n \in 1..max : d \in [1..n -> 0..base - 1]
  BY DEF Digits
<1>2. d \in [1..n -> Nat] /\ n \in Nat
  BY <1>1
<1> QED
  BY <1>2, FunctionIsSeq

LEMMA NotationParts ==
  ASSUME NEW a \in Notations
  PROVE  /\ a.front \in Seq(Seq(Nat)) /\ a.back \in Seq(Seq(Nat)) /\ a.gap \in BOOLEAN
         /\ a.quad \in Seq(Seq(Nat)) /\ Len(a.quad) = IF Dotted(a) THEN 4 ELSE 0
         /\ Dotted(a) => \A i \in 1..4 : a.quad[i] \in RE_IPV4_BYTE
         /\ a.prefix \in Seq(Seq(Nat)) /\ Len(a.prefix) = IF a.prefix = <<>> THEN 0 ELSE 1
<1>1. RE_H16 \subseteq Seq(Nat) /\ RE_IPV4_BYTE \subseteq Seq(Nat) /\ RE_IPV6_PREFIXLEN \subseteq Seq(Nat)
  BY DigitsAreNats DEF RE_H16, RE_IPV4_BYTE, RE_IPV6_PREFIXLEN
<1>2. /\ a.front \in Seq(RE_H16) /\ a.back \in Seq(RE_H16) /\ a.gap \in BOOLEAN
      /\ a.quad \in {<<>>} \cup [1..4 -> RE_IPV4_BYTE]
      /\ a.prefix \in {<<>>} \cup [1..1 -> RE_IPV6_PREFIXLEN]
  BY DEF Notations
<1>3. a.front \in Seq(Seq(Nat)) /\ a.back \in Seq(Seq(Nat))
  BY <1>1, <1>2, SeqMonotonic
<1>4. /\ a.quad \in Seq(Seq(Nat)) /\ Len(a.quad) = IF Dotted(a) THEN 4 ELSE 0
      /\ Dotted(a) => \A i \in 1..4 : a.quad[i] \in RE_IPV4_BYTE
  <2>1. CASE a.quad = <<>>
    BY <2>1, EmptySeq DEF Dotted
  <2>2. CASE a.quad # <<>>
    <3>1. a.quad \in [1..4 -> RE_IPV4_BYTE]
      BY <1>2, <2>2
    <3>2. a.quad \in [1..4 -> Seq(Nat)]
      BY <1>1, <3>1
    <3>3. a.quad \in Seq(Seq(Nat)) /\ Len(a.quad) = 4
      BY <3>2, FunctionIsSeq
    <3> QED
      BY <2>2, <3>1, <3>3 DEF Dotted
  <2> QED
    BY <2>1, <2>2
<1>5. a.prefix \in Seq(Seq(Nat)) /\ Len(a.prefix) = IF a.prefix = <<>> THEN 0 ELSE 1
  <2>1. CASE a.prefix = <<>>
    BY <2>1, EmptySeq
  <2>2. CASE a.prefix # <<>>
    <3>1. a.prefix \in [1..1 -> Seq(Nat)]
      BY <1>1, <1>2, <2>2
    <3>2. a.prefix \in Seq(Seq(Nat)) /\ Len(a.prefix) = 1
      BY <3>1, FunctionIsSeq
    <3> QED
      BY <2>2, <3>2
  <2> QED
    BY <2>1, <2>2
<1> QED
  BY <1>2, <1>3, <1>4, <1>5

LEMMA GroupsShape ==
  ASSUME NEW a, Proper(a)
  PROVE  /\ HeadGroups(a) \in Seq(Seq(Nat)) /\ TailGroups(a) \in Seq(Seq(Nat))
         /\ Len(HeadGroups(a)) = IF a.gap /\ a.front = <<>> THEN 1 ELSE Len(a.front)
         /\ Len(TailGroups(a)) =
              IF a.gap /\ a.back = <<>> /\ ~Dotted(a) THEN 1 ELSE Len(a.back) + Len(a.quad)
         /\ a.gap /\ a.front = <<>> => HeadGroups(a)[1] = <<>>
         /\ ~(a.gap /\ a.front = <<>>) => HeadGroups(a) = a.front
         /\ a.gap /\ a.back = <<>> /\ ~Dotted(a) => TailGroups(a)[1] = <<>>
         /\ ~(a.gap /\ a.back = <<>> /\ ~Dotted(a)) => TailGroups(a) = a.back \o a.quad
<1> USE NotationParts
<1>1. a \in Notations /\ RE_IPV6(a)
  BY DEF Proper
<1>2. <<<<>>>> \in Seq(Seq(Nat)) /\ Len(<<<<>>>>) = 1 /\ <<<<>>>>[1] = <<>>
  BY EmptySeq
<1>3. /\ HeadGroups(a) \in Seq(Seq(Nat))
      /\ Len(HeadGroups(a)) = IF a.gap /\ a.front = <<>> THEN 1 ELSE Len(a.front)
      /\ a.gap /\ a.front = <<>> => HeadGroups(a)[1] = <<>>
      /\ ~(a.gap /\ a.front = <<>>) => HeadGroups(a) = a.front
  BY <1>1, <1>2 DEF HeadGroups
<1>4. a.back \o a.quad \in Seq(Seq(Nat)) /\ Len(a.back \o a.quad) = Len(a.back) + Len(a.quad)
  BY <1>1, ConcatProperties
<1>5. a.back \o a.quad = <<>> <=> a.back = <<>> /\ ~Dotted(a)
  <2>1. a.back \o a.quad = <<>> <=> Len(a.back) + Len(a.quad) = 0
    BY <1>4, EmptySeq
  <2>2. Len(a.back) \in Nat /\ (a.back = <<>> <=> Len(a.back) = 0)
    BY <1>1, EmptySeq
  <2> QED
    BY <1>1, <2>1, <2>2
<1>6. a.gap \/ HeadGroups(a) # <<>>
  <2> SUFFICES ASSUME ~a.gap, HeadGroups(a) = <<>> PROVE FALSE
    OBVIOUS
  <2>1. a.front = <<>>
    BY DEF HeadGroups
  <2>2. Len(a.front) = 0 /\ Len(a.back) = 0
    BY <1>1, <2>1, EmptySeq DEF RE_IPV6
  <2> QED
    BY <1>1, <2>2 DEF RE_IPV6, Given
<1>7. a.back = <<>> /\ ~Dotted(a) /\ a.gap => TailGroups(a) = <<<<>>>>
  BY <1>5 DEF TailGroups
<1>8. ~(a.back = <<>> /\ ~Dotted(a) /\ a.gap) => TailGroups(a) = a.back \o a.quad
  BY <1>5, <1>6 DEF TailGroups
<1> QED
  BY <1>2, <1>3, <1>4, <1>7, <1>8

\* How many numbers stand before the prefix length, and how many of them are
\* not in the dotted end.
Ungrouped(a) == Len(HeadGroups(a)) + Len(TailGroups(a))
HexCount(a) == Ungrouped(a) - Len(a.quad)

LEMMA CountsOf ==
  ASSUME NEW a, Proper(a)
  PROVE  /\ Ungrouped(a) \in Nat /\ HexCount(a) \in Nat
         /\ Len(HeadGroups(a)) \in Nat /\ Len(HeadGroups(a)) <= HexCount(a)
         /\ a.gap => Len(HeadGroups(a)) >= 1 /\ Len(HeadGroups(a)) < Ungrouped(a)
<1> USE NotationParts
<1>1. a \in Notations
  BY DEF Proper
<1>2. Len(a.front) \in Nat /\ Len(a.back) \in Nat /\ Len(a.quad) \in Nat
  BY <1>1
<1>3. (a.front = <<>> <=> Len(a.front) = 0) /\ (a.back = <<>> <=> Len(a.back) = 0)
  BY <1>1, EmptySeq
<1>4. PICK f, b, q, h, t \in Nat :
        /\ f = Len(a.front) /\ b = Len(a.back) /\ q = Len(a.quad)
        /\ h = Len(HeadGroups(a)) /\ t = Len(TailGroups(a))
  <2>1. Len(HeadGroups(a)) \in Nat /\ Len(TailGroups(a)) \in Nat
    BY GroupsShape
  <2> QED
    BY <1>2, <2>1
<1>5. /\ h = IF a.gap /\ f = 0 THEN 1 ELSE f
      /\ t = IF a.gap /\ b = 0 /\ ~Dotted(a) THEN 1 ELSE b + q
      /\ q = IF Dotted(a) THEN 4 ELSE 0
  BY <1>1, <1>3, <1>4, GroupsShape
<1>6. h + t - q \in Nat /\ h <= h + t - q /\ (a.gap => h >= 1 /\ h < h + t)
  BY <1>5
<1> QED
  BY <1>4, <1>6 DEF Ungrouped, HexCount

LEMMA NumbersShape ==
  ASSUME NEW a, Proper(a)
  PROVE  /\ Numbers(a) \in Seq(Seq(Nat))
         /\ Len(Numbers(a)) = Ungrouped(a) + Len(a.prefix)
         /\ Len(HeadGroups(a) \o TailGroups(a)) = Ungrouped(a)
         /\ \A i \in 1..Len(HeadGroups(a)) : Numbers(a)[i] = HeadGroups(a)[i]
         /\ \A i \in 1..Len(TailGroups(a)) : Numbers(a)[Len(HeadGroups(a)) + i] = TailGroups(a)[i]
         /\ a.prefix # <<>> => Numbers(a)[Ungrouped(a) + 1] = a.prefix[1]
<1> DEFINE h == HeadGroups(a)
           t == TailGroups(a)
           p == a.prefix
<1>1. h \in Seq(Seq(Nat)) /\ t \in Seq(Seq(Nat)) /\ p \in Seq(Seq(Nat)) /\ (p # <<>> => Len(p) = 1)
  BY GroupsShape, NotationParts DEF Proper
<1> HIDE DEF h, t, p
<1>2. /\ h \o t \in Seq(Seq(Nat)) /\ Len(h \o t) = Len(h) + Len(t)
      /\ \A i \in 1..Len(h) + Len(t) : (h \o t)[i] = IF i <= Len(h) THEN h[i] ELSE t[i - Len(h)]
  BY <1>1, ConcatProperties
<1>3. PICK g : g = h \o t
  OBVIOUS
<1>4. /\ g \o p \in Seq(Seq(Nat)) /\ Len(g \o p) = Len(g) + Len(p)
      /\ \A i \in 1..Len(g) + Len(p) : (g \o p)[i] = IF i <= Len(g) THEN g[i] ELSE p[i - Len(g)]
  BY <1>1, <1>2, <1>3, ConcatProperties
<1>5. PICK all : all = g \o p
  OBVIOUS
<1>6. Len(h) \in Nat /\ Len(t) \in Nat /\ Len(p) \in Nat
  BY <1>1
<1>7. /\ all \in Seq(Seq(Nat)) /\ Len(all) = Len(h) + Len(t) + Len(p)
      /\ \A i \in 1..Len(h) : all[i] = h[i]
      /\ \A i \in 1..Len(t) : all[Len(h) + i] = t[i]
      /\ p # <<>> => all[Len(h) + Len(t) + 1] = p[1]
  <2>1. ASSUME NEW i \in 1..Len(h) PROVE all[i] = h[i]
    BY <1>2, <1>3, <1>4, <1>5, <1>6
  <2>2. ASSUME NEW i \in 1..Len(t) PROVE all[Len(h) + i] = t[i]
    <3>1. Len(h) + i \in 1..Len(h) + Len(t) /\ ~(Len(h) + i <= Len(h)) /\ Len(h) + i - Len(h) = i
      BY <1>6
    <3> QED
      BY <1>2, <1>3, <1>4, <1>5, <1>6, <3>1
  <2>3. ASSUME p # <<>> PROVE all[Len(h) + Len(t) + 1] = p[1]
    <3>1. Len(g) = Len(h) + Len(t) /\ Len(p) = 1
      BY <1>1, <1>2, <1>3, <2>3
    <3>2. Len(g) + 1 \in 1..Len(g) + Len(p) /\ ~(Len(g) + 1 <= Len(g)) /\ Len(g) + 1 - Len(g) = 1
      BY <1>6, <3>1
    <3> QED
      BY <1>4, <1>5, <3>1, <3>2
  <2> QED
    BY <1>2, <1>3, <1>4, <1>5, <2>1, <2>2, <2>3
<1>8. all = Numbers(a)
  BY <1>3, <1>5 DEF Numbers, h, t, p
<1> QED
  BY <1>2, <1>7, <1>8 DEF Ungrouped, h, t, p

\* What stands between the numbers.
Separators(a, sep) ==
  /\ \A i \in 1..HexCount(a) :
       /\ sep[i] \in {":", "::", "/", "end"}
       /\ sep[i] = "::" <=> a.gap /\ i = Len(HeadGroups(a))
       /\ sep[i] = "/" <=> i = Ungrouped(a) /\ a.prefix # <<>>
  /\ Dotted(a) => \A i \in 1..4 : sep[HexCount(a) + i] = IF i = 4 THEN "end" ELSE "."
  /\ a.prefix # <<>> => sep[Ungrouped(a) + 1] = "end"

\* The items of the text and what stands between them.
LEMMA WrittenItems ==
  ASSUME NEW a, Proper(a)
  PROVE  \E sep :
           /\ Written(a) = [i \in 1..Len(Numbers(a)) |-> Item(Numbers(a)[i], sep[i])]
           /\ Separators(a, sep)
<1> DEFINE all == Numbers(a)
           n == Ungrouped(a)
           h == Len(HeadGroups(a))
           q == Len(a.quad)
           Sep(i) == IF i = Len(all) THEN "end"
                     ELSE IF i = n THEN "/"
                     ELSE IF a.gap /\ i = h THEN "::"
                     ELSE IF i > n - q THEN "."
                     ELSE ":"
           sep == [i \in 1..Len(all) |-> Sep(i)]
<1>1. /\ n \in Nat /\ h \in Nat /\ HexCount(a) = n - q /\ h <= n - q /\ (a.gap => h >= 1 /\ h < n)
      /\ a.gap \in BOOLEAN /\ q = IF Dotted(a) THEN 4 ELSE 0
      /\ n - q \in Nat
  BY CountsOf, NotationParts DEF HexCount, Proper
<1>2. /\ Len(all) = IF a.prefix = <<>> THEN n ELSE n + 1
      /\ Dotted(a) => a.prefix = <<>>
      /\ DOMAIN all = 1..Len(all)
  <2>1. all \in Seq(Seq(Nat)) /\ Len(all) = n + Len(a.prefix)
    BY NumbersShape
  <2>2. Len(a.prefix) = IF a.prefix = <<>> THEN 0 ELSE 1
    BY NotationParts DEF Proper
  <2> HIDE DEF all, n
  <2> QED
    BY <1>1, <2>1, <2>2, LenProperties DEF Proper
<1>3. Written(a) = [i \in 1..Len(all) |-> Item(all[i], Sep(i))]
  <2> DEFINE m == Len(HeadGroups(a) \o TailGroups(a))
             Between(i) == IF i = Len(all) THEN "end"
                           ELSE IF i = m THEN "/"
                           ELSE IF a.gap /\ i = h THEN "::"
                           ELSE IF i > m - q THEN "."
                           ELSE ":"
  <2>1. Written(a) = [i \in DOMAIN all |-> Item(all[i], Between(i))]
    BY Zenon DEF Written, Numbers, HeadGroups, TailGroups
  <2>2. m = n
    BY NumbersShape
  <2> HIDE DEF m, n, all, h, q
  <2> QED
    BY <1>2, <2>1, <2>2
<1> HIDE DEF all, n, h, q
<1>4. ASSUME NEW i \in 1..n - q
      PROVE  /\ sep[i] \in {":", "::", "/", "end"}
             /\ sep[i] = "::" <=> a.gap /\ i = h
             /\ sep[i] = "/" <=> i = n /\ a.prefix # <<>>
  <2>1. i \in 1..Len(all) /\ sep[i] = Sep(i) /\ ~(i > n - q)
    BY <1>1, <1>2
  <2> QED
    BY <1>1, <1>2, <2>1
<1>5. ASSUME Dotted(a), NEW i \in 1..4
      PROVE  sep[n - q + i] = IF i = 4 THEN "end" ELSE "."
  <2>1. q = 4 /\ Len(all) = n /\ h <= n - 4
    BY <1>1, <1>2, <1>5
  <2>2. n - q + i \in 1..Len(all) /\ n - q + i > n - q /\ n - q + i # h
    BY <1>1, <2>1
  <2> QED
    BY <1>1, <2>1, <2>2
<1>6. ASSUME a.prefix # <<>> PROVE sep[n + 1] = "end"
  BY <1>1, <1>2, <1>6
<1>7. Written(a) = [i \in 1..Len(all) |-> Item(all[i], sep[i])]
  BY <1>3
<1> HIDE DEF sep
<1> QED
  <2>1. Separators(a, sep)
    BY <1>1, <1>4, <1>5, <1>6 DEF Separators, n, h
  <2> QED
    BY <1>7, <2>1, Zenon DEF all

-----------------------------------------------------------------------------
(* What the loop finds.                                                    *)

LEMMA AppendIs ==
  ASSUME NEW k \in Nat, NEW f \in [1..k -> Nat], NEW x \in Nat
  PROVE  Append(f, x) = [j \in 1..k + 1 |-> IF j = k + 1 THEN x ELSE f[j]]
<1> DEFINE g == [j \in 1..k + 1 |-> IF j = k + 1 THEN x ELSE f[j]]
<1>1. f \in Seq(Nat) /\ Len(f) = k
  BY FunctionIsSeq
<1>2. g \in [1..k + 1 -> Nat]
  OBVIOUS
<1>3. g \in Seq(Nat) /\ Len(g) = k + 1
  <2> HIDE DEF g
  <2> QED
    BY <1>2, FunctionIsSeq
<1>4. /\ Append(f, x) \in Seq(Nat) /\ Len(Append(f, x)) = k + 1
      /\ \A i \in 1..k : Append(f, x)[i] = f[i]
      /\ Append(f, x)[k + 1] = x
  BY <1>1, AppendProperties
<1>5. \A i \in 1..k + 1 : Append(f, x)[i] = g[i]
  BY <1>4
<1> HIDE DEF g
<1>6. Append(f, x) = g
  BY <1>3, <1>4, <1>5, SeqEqual
<1> QED
  BY <1>6 DEF g

\* The first k numbers, read as hexadecimal ones.
HexParts(a, k) == [j \in 1..k |-> Number(16, Numbers(a)[j])]

LEMMA HexPartsGrow ==
  ASSUME NEW a, Proper(a), NEW k \in Nat, k + 1 <= Len(Numbers(a))
  PROVE  /\ HexParts(a, k) \in [1..k -> Nat] /\ Number(16, Numbers(a)[k + 1]) \in Nat
         /\ Len(HexParts(a, k)) = k
         /\ Append(HexParts(a, k), Number(16, Numbers(a)[k + 1])) = HexParts(a, k + 1)
<1>1. \A j \in 1..k + 1 : Numbers(a)[j] \in Seq(Nat)
  BY NumbersShape
<1>2. \A j \in 1..k + 1 : Number(16, Numbers(a)[j]) \in Nat
  BY <1>1, NumberIsNat
<1>3. HexParts(a, k) \in [1..k -> Nat] /\ Number(16, Numbers(a)[k + 1]) \in Nat
  BY <1>2 DEF HexParts
<1>4. Append(HexParts(a, k), Number(16, Numbers(a)[k + 1])) =
        [j \in 1..k + 1 |-> IF j = k + 1 THEN Number(16, Numbers(a)[k + 1]) ELSE HexParts(a, k)[j]]
  BY <1>3, AppendIs
<1>5. \A j \in 1..k : HexParts(a, k)[j] = Number(16, Numbers(a)[j])
  BY DEF HexParts
<1>6. [j \in 1..k + 1 |-> IF j = k + 1 THEN Number(16, Numbers(a)[k + 1]) ELSE HexParts(a, k)[j]]
        = HexParts(a, k + 1)
  BY <1>5 DEF HexParts
<1> QED
  BY <1>3, <1>4, <1>6, FunctionIsSeq

\* dot_dot_pos, base and total behind number k, while no dot was seen.
PosAt(a, k) == IF a.gap /\ k >= Len(HeadGroups(a)) THEN Len(HeadGroups(a)) ELSE -1
InPrefix(a, k) == k = Ungrouped(a) /\ a.prefix # <<>>
HexState(a, k) ==
  ScanState(HexParts(a, k), PosAt(a, k), 0,
            IF InPrefix(a, k) THEN 10 ELSE 16, IF InPrefix(a, k) THEN 9 ELSE 8)

LEMMA HexStateGrows ==
  ASSUME NEW a, Proper(a), NEW k \in Nat, k + 1 <= HexCount(a), NEW sep,
         /\ sep \in {":", "::", "/", "end"}
         /\ sep = "::" <=> a.gap /\ k + 1 = Len(HeadGroups(a))
         /\ sep = "/" <=> k + 1 = Ungrouped(a) /\ a.prefix # <<>>
  PROVE  CloseNumber(HexState(a, k), Item(Numbers(a)[k + 1], sep)) = HexState(a, k + 1)
<1>1. /\ Ungrouped(a) \in Nat /\ HexCount(a) \in Nat /\ HexCount(a) <= Ungrouped(a)
      /\ Ungrouped(a) <= Len(Numbers(a)) /\ Len(HeadGroups(a)) \in Nat
  <2>1. Len(a.prefix) \in Nat /\ Len(a.quad) \in Nat
    BY NotationParts DEF Proper
  <2>2. /\ Ungrouped(a) \in Nat /\ HexCount(a) \in Nat /\ Len(HeadGroups(a)) \in Nat
        /\ HexCount(a) = Ungrouped(a) - Len(a.quad)
    BY CountsOf DEF HexCount
  <2>3. Len(Numbers(a)) = Ungrouped(a) + Len(a.prefix)
    BY NumbersShape
  <2> QED
    BY <2>1, <2>2, <2>3
<1>2. k # Ungrouped(a) /\ k + 1 <= Len(Numbers(a))
  BY <1>1
<1>3. HexState(a, k) = ScanState(HexParts(a, k), PosAt(a, k), 0, 16, 8)
  BY <1>2 DEF HexState, InPrefix
<1>4. /\ Len(HexParts(a, k)) = k
      /\ Append(HexParts(a, k), Number(16, Numbers(a)[k + 1])) = HexParts(a, k + 1)
  BY <1>2, HexPartsGrow
<1>5. (IF sep = "::" THEN Len(HexParts(a, k)) + 1 ELSE PosAt(a, k)) = PosAt(a, k + 1)
  BY <1>1, <1>4 DEF PosAt
<1>6. sep = "/" <=> InPrefix(a, k + 1)
  BY DEF InPrefix
<1>7. CloseNumber(ScanState(HexParts(a, k), PosAt(a, k), 0, 16, 8), Item(Numbers(a)[k + 1], sep)) =
        ScanState(Append(HexParts(a, k), Number(16, Numbers(a)[k + 1])),
                  IF sep = "::" THEN Len(HexParts(a, k)) + 1 ELSE PosAt(a, k),
                  0, IF sep = "/" THEN 10 ELSE 16, IF sep = "/" THEN 9 ELSE 8)
  BY CloseGroup
<1> QED
  BY <1>3, <1>4, <1>5, <1>6, <1>7, Zenon DEF HexState

\* The notation has room for what it gives.
LEMMA Fits ==
  ASSUME NEW a, Proper(a)
  PROVE  /\ Ungrouped(a) >= 1
         /\ Len(a.front) \in Nat /\ Len(a.back) \in Nat
         /\ a.gap => HexCount(a) + (IF Dotted(a) THEN 2 ELSE 0) <= 8
         /\ ~a.gap => HexCount(a) + (IF Dotted(a) THEN 2 ELSE 0) = 8
<1> USE NotationParts
<1>1. a \in Notations /\ RE_IPV6(a)
  BY DEF Proper
<1>2. PICK f, b, q \in Nat : f = Len(a.front) /\ b = Len(a.back) /\ q = Len(a.quad)
  BY <1>1
<1>3. (a.front = <<>> <=> f = 0) /\ (a.back = <<>> <=> b = 0)
  BY <1>1, <1>2, EmptySeq
<1>4. PICK h, t \in Nat : h = Len(HeadGroups(a)) /\ t = Len(TailGroups(a))
  <2>1. Len(HeadGroups(a)) \in Nat /\ Len(TailGroups(a)) \in Nat
    BY GroupsShape
  <2> QED
    BY <2>1
<1>5. /\ h = IF a.gap /\ f = 0 THEN 1 ELSE f
      /\ t = IF a.gap /\ b = 0 /\ ~Dotted(a) THEN 1 ELSE b + q
      /\ q = IF Dotted(a) THEN 4 ELSE 0
  BY <1>1, <1>2, <1>3, <1>4, GroupsShape
<1>6. /\ a.gap => f + b + (IF Dotted(a) THEN 2 ELSE 0) <= 7
      /\ ~a.gap => f + b + (IF Dotted(a) THEN 2 ELSE 0) = 8 /\ b = 0
  BY <1>1, <1>2, <1>3 DEF RE_IPV6, Given
<1>7. Ungrouped(a) = h + t /\ HexCount(a) = h + t - q
  BY <1>2, <1>4 DEF Ungrouped, HexCount
<1>8. PICK g : g = IF a.gap THEN 1 ELSE 0
  OBVIOUS
<1>9. PICK d : d = IF Dotted(a) THEN 2 ELSE 0
  OBVIOUS
<1>10. /\ h = IF g = 1 /\ f = 0 THEN 1 ELSE f
       /\ t = IF g = 1 /\ b = 0 /\ d = 0 THEN 1 ELSE b + q
       /\ q = 2 * d /\ d \in {0, 2} /\ g \in {0, 1}
       /\ g = 1 => f + b + d <= 7
       /\ g = 0 => f + b + d = 8 /\ b = 0
  BY <1>5, <1>6, <1>8, <1>9
<1>11. /\ h + t >= 1
       /\ g = 1 => h + t - q + d <= 8
       /\ g = 0 => h + t - q + d = 8
  BY <1>10
<1> QED
  BY <1>2, <1>7, <1>8, <1>9, <1>11

\* The states of scan_ipv6 on these numbers.
Steps(a, st, sep) ==
  \A i \in 0..Len(Numbers(a)) :
    st[i] = IF i = 0 THEN ScanStart ELSE CloseNumber(st[i - 1], Item(Numbers(a)[i], sep[i]))

LEMMA HexLoop ==
  ASSUME NEW a, Proper(a), NEW st, NEW sep,
         Steps(a, st, sep), Separators(a, sep)
  PROVE  st[HexCount(a)] = HexState(a, HexCount(a))
<1> DEFINE T == {k \in Nat : k <= HexCount(a) => st[k] = HexState(a, k)}
<1>1. /\ HexCount(a) \in Nat /\ HexCount(a) <= Len(Numbers(a)) /\ Len(Numbers(a)) \in Nat
      /\ Ungrouped(a) >= 1 /\ Len(HeadGroups(a)) \in Nat /\ (a.gap => Len(HeadGroups(a)) >= 1)
  <2>1. Len(a.prefix) \in Nat /\ Len(a.quad) \in Nat
    BY NotationParts DEF Proper
  <2>2. /\ Ungrouped(a) \in Nat /\ HexCount(a) \in Nat /\ Len(HeadGroups(a)) \in Nat
        /\ HexCount(a) = Ungrouped(a) - Len(a.quad)
        /\ (a.gap => Len(HeadGroups(a)) >= 1)
    BY CountsOf DEF HexCount
  <2>3. Len(Numbers(a)) = Ungrouped(a) + Len(a.prefix) /\ Ungrouped(a) >= 1
    BY NumbersShape, Fits
  <2> QED
    BY <2>1, <2>2, <2>3
<1>3. 0 \in T
  <2>1. st[0] = ScanStart
    BY <1>1 DEF Steps
  <2>2. HexParts(a, 0) = <<>>
    BY DEF HexParts
  <2>3. PosAt(a, 0) = -1 /\ ~InPrefix(a, 0)
    BY <1>1 DEF PosAt, InPrefix
  <2>4. HexState(a, 0) = ScanState(<<>>, -1, 0, 16, 8)
    BY <2>2, <2>3 DEF HexState
  <2> QED
    BY <2>1, <2>4 DEF ScanStart, ScanState
<1>4. ASSUME NEW k \in Nat, k \in T PROVE k + 1 \in T
  <2> SUFFICES ASSUME k + 1 <= HexCount(a) PROVE st[k + 1] = HexState(a, k + 1)
    OBVIOUS
  <2>1. st[k] = HexState(a, k) /\ k + 1 \in 1..HexCount(a) /\ k + 1 \in 1..Len(Numbers(a))
    BY <1>1, <1>4
  <2>2. st[k + 1] = CloseNumber(st[k], Item(Numbers(a)[k + 1], sep[k + 1]))
    <3>1. k + 1 \in 0..Len(Numbers(a)) /\ k + 1 # 0 /\ k + 1 - 1 = k
      BY <2>1
    <3> QED
      BY <2>1, <3>1 DEF Steps
  <2>3. PICK s : s = sep[k + 1]
    OBVIOUS
  <2>4. /\ s \in {":", "::", "/", "end"}
        /\ s = "::" <=> a.gap /\ k + 1 = Len(HeadGroups(a))
        /\ s = "/" <=> k + 1 = Ungrouped(a) /\ a.prefix # <<>>
    BY <2>1, <2>3 DEF Separators
  <2>5. CloseNumber(HexState(a, k), Item(Numbers(a)[k + 1], s)) = HexState(a, k + 1)
    BY <2>4, HexStateGrows
  <2> QED
    BY <2>1, <2>2, <2>3, <2>5
<1> HIDE DEF T
<1>5. HexCount(a) \in T
  BY <1>1, <1>3, <1>4, SetInduction
<1> QED
  BY <1>1, <1>5 DEF T

LEMMA JoinIs ==
  ASSUME NEW f \in Seq(Nat), NEW x \in Nat, Len(f) >= 1
  PROVE  /\ Join(f, x) \in Seq(Nat) /\ Len(Join(f, x)) = Len(f)
         /\ Join(f, x)[Len(f)] = f[Len(f)] * 256 + x
         /\ \A j \in 1..Len(f) : j # Len(f) => Join(f, x)[j] = f[j]
<1>1. PICK n \in Nat : n = Len(f) /\ n \in 1..n /\ f \in [1..n -> Nat]
  BY LenProperties
<1>2. PICK e \in Nat : e = f[n] * 256 + x
  <2>1. f[n] \in Nat
    BY <1>1
  <2> QED
    BY <2>1
<1>3. Join(f, x) = [f EXCEPT ![n] = e]
  BY <1>1, <1>2 DEF Join
<1>4. PICK g : g = [f EXCEPT ![n] = e]
  OBVIOUS
<1>5. g \in [1..n -> Nat] /\ g[n] = e /\ \A j \in 1..n : j # n => g[j] = f[j]
  BY <1>1, <1>4
<1>6. g \in Seq(Nat) /\ Len(g) = n
  BY <1>5, FunctionIsSeq
<1> QED
  BY <1>1, <1>2, <1>3, <1>4, <1>5, <1>6

\* Two decimals.
Two(o1, o2) == o1 * 256 + o2

\* One more part of two decimals.
AddPart(f, o1, o2) == Join(Append(f, o1), o2)

LEMMA DottedPart ==
  ASSUME NEW f \in Seq(Nat), NEW o1 \in Nat, NEW o2 \in Nat
  PROVE  /\ AddPart(f, o1, o2) \in Seq(Nat)
         /\ Len(AddPart(f, o1, o2)) = Len(f) + 1
         /\ AddPart(f, o1, o2)[Len(f) + 1] = Two(o1, o2)
         /\ \A j \in 1..Len(f) : AddPart(f, o1, o2)[j] = f[j]
<1>1. PICK g : g = Append(f, o1)
  OBVIOUS
<1>2. g \in Seq(Nat) /\ Len(g) = Len(f) + 1 /\ g[Len(f) + 1] = o1 /\ \A j \in 1..Len(f) : g[j] = f[j]
  BY <1>1, AppendProperties
<1>3. PICK p : p = Join(g, o2)
  OBVIOUS
<1>4. Len(f) \in Nat /\ Len(g) >= 1
  BY <1>2
<1>5. /\ p \in Seq(Nat) /\ Len(p) = Len(g) /\ p[Len(g)] = g[Len(g)] * 256 + o2
      /\ \A j \in 1..Len(g) : j # Len(g) => p[j] = g[j]
  BY <1>2, <1>3, <1>4, JoinIs
<1>6. /\ p \in Seq(Nat) /\ Len(p) = Len(f) + 1 /\ p[Len(f) + 1] = Two(o1, o2)
      /\ \A j \in 1..Len(f) : p[j] = f[j]
  <2>1. p[Len(g)] = Two(o1, o2)
    BY <1>2, <1>5, Zenon DEF Two
  <2>2. \A j \in 1..Len(f) : p[j] = f[j]
    BY <1>2, <1>4, <1>5
  <2> QED
    BY <1>2, <1>5, <2>1, <2>2, Zenon
<1> QED
  BY <1>1, <1>3, <1>6 DEF AddPart

\* The numbers of a dotted end come last.
LEMMA DottedNumbers ==
  ASSUME NEW a, Proper(a), Dotted(a), NEW i \in 1..4
  PROVE  /\ HexCount(a) = Len(HeadGroups(a)) + Len(a.back)
         /\ Len(Numbers(a)) = HexCount(a) + 4
         /\ Numbers(a)[HexCount(a) + i] = a.quad[i]
<1>1. /\ a.back \in Seq(Seq(Nat)) /\ a.quad \in Seq(Seq(Nat)) /\ Len(a.quad) = 4 /\ a.prefix = <<>>
      /\ Len(a.prefix) = 0
  BY NotationParts DEF Proper
<1>2. TailGroups(a) = a.back \o a.quad /\ Len(HeadGroups(a)) \in Nat
  <2>1. HeadGroups(a) \in Seq(Seq(Nat)) /\ TailGroups(a) = a.back \o a.quad
    BY GroupsShape, Zenon
  <2> QED
    BY <2>1
<1>3. PICK b, h \in Nat : b = Len(a.back) /\ h = Len(HeadGroups(a))
  <2>1. Len(a.back) \in Nat
    BY <1>1
  <2> QED
    BY <1>2, <2>1
<1>4. Len(TailGroups(a)) = b + 4 /\ TailGroups(a)[b + i] = a.quad[i]
  <2>1. /\ Len(a.back \o a.quad) = b + 4
        /\ \A k \in 1..b + 4 : (a.back \o a.quad)[k] = IF k <= b THEN a.back[k] ELSE a.quad[k - b]
    <3>1. PICK s, q \in Seq(Seq(Nat)) : s = a.back /\ q = a.quad
      BY <1>1
    <3>2. Len(s) = b /\ Len(q) = 4
      BY <1>1, <1>3, <3>1
    <3>3. /\ Len(s \o q) = Len(s) + Len(q)
          /\ \A k \in 1..Len(s) + Len(q) :
               (s \o q)[k] = IF k <= Len(s) THEN s[k] ELSE q[k - Len(s)]
      BY ConcatProperties
    <3>4. /\ Len(s \o q) = b + 4
          /\ \A k \in 1..b + 4 : (s \o q)[k] = IF k <= b THEN s[k] ELSE q[k - b]
      BY <3>2, <3>3
    <3> QED
      BY <3>1, <3>4
  <2>2. b + i \in 1..b + 4 /\ ~(b + i <= b) /\ b + i - b = i
    OBVIOUS
  <2>3. (a.back \o a.quad)[b + i] = a.quad[i]
    <3>1. PICK k \in 1..b + 4 : k = b + i
      BY <2>2
    <3>2. (a.back \o a.quad)[k] = a.quad[k - b]
      BY <2>1, <2>2, <3>1
    <3> QED
      BY <2>2, <3>1, <3>2
  <2> QED
    BY <1>2, <2>1, <2>3
<1>5. HexCount(a) = h + b /\ Ungrouped(a) = h + b + 4
  BY <1>1, <1>3, <1>4 DEF HexCount, Ungrouped
<1>6. Numbers(a)[h + (b + i)] = a.quad[i]
  <2>1. b + i \in 1..Len(TailGroups(a))
    BY <1>4
  <2>2. Numbers(a)[Len(HeadGroups(a)) + (b + i)] = TailGroups(a)[b + i]
    BY <2>1, NumbersShape
  <2> QED
    BY <1>3, <1>4, <2>2
<1>7. Len(Numbers(a)) = h + b + 4
  BY <1>1, <1>5, NumbersShape
<1> QED
  BY <1>3, <1>5, <1>6, <1>7

\* The states of scan_ipv6 on a written notation.
LEMMA WrittenScan ==
  ASSUME NEW a, Proper(a)
  PROVE  \E st, sep :
           /\ scan_ipv6(Written(a)) = FillGap(st[Len(Numbers(a))])
           /\ Steps(a, st, sep)
           /\ Separators(a, sep)
<1>1. PICK sep :
           /\ Written(a) = [i \in 1..Len(Numbers(a)) |-> Item(Numbers(a)[i], sep[i])]
           /\ Separators(a, sep)
  BY WrittenItems
<1>2. PICK n \in Nat : n = Len(Numbers(a))
  <2>1. Numbers(a) \in Seq(Seq(Nat))
    BY NumbersShape
  <2> QED
    BY <2>1
<1>3. PICK text : text = Written(a)
  OBVIOUS
<1> DEFINE S == {Item(Numbers(a)[i], sep[i]) : i \in 1..n}
<1>4. text \in [1..n -> S]
  BY <1>1, <1>2, <1>3
<1> HIDE DEF S
<1>5. text \in Seq(S) /\ Len(text) = n
  BY <1>4, FunctionIsSeq
<1>6. PICK st : Scans(text, st) /\ scan_ipv6(text) = FillGap(st[Len(text)])
  BY <1>5, ScanLoop
<1>7. ASSUME NEW i \in 0..n
      PROVE  st[i] = IF i = 0 THEN ScanStart ELSE CloseNumber(st[i - 1], Item(Numbers(a)[i], sep[i]))
  <2>1. st[i] = IF i = 0 THEN ScanStart ELSE CloseNumber(st[i - 1], text[i])
    BY <1>5, <1>6 DEF Scans
  <2>2. i # 0 => text[i] = Item(Numbers(a)[i], sep[i])
    BY <1>1, <1>2, <1>3
  <2> QED
    BY <2>1, <2>2
<1>8. scan_ipv6(Written(a)) = FillGap(st[Len(Numbers(a))])
  BY <1>2, <1>3, <1>5, <1>6
<1>9. Steps(a, st, sep)
  BY <1>2, <1>7 DEF Steps
<1> QED
  BY <1>1, <1>8, <1>9, Zenon

\* The parts at the end of the loop.
Low(a, i) == Number(10, a.quad[i]) * 256 + Number(10, a.quad[i + 1])
Found(a) ==
  LET m == HexCount(a)
      Hex(j) == Number(16, Numbers(a)[j])
  IN  IF Dotted(a) THEN [j \in 1..m + 2 |-> IF j = m + 2 THEN Low(a, 3) ELSE IF j = m + 1 THEN Low(a, 1) ELSE Hex(j)]
      ELSE IF a.prefix # <<>> THEN [j \in 1..m + 1 |-> IF j = m + 1 THEN Number(10, a.prefix[1]) ELSE Hex(j)]
      ELSE [j \in 1..m |-> Hex(j)]

LEMMA EndState ==
  ASSUME NEW a, Proper(a)
  PROVE  \E dots, base : scan_ipv6(Written(a)) =
           FillGap(ScanState(Found(a), IF a.gap THEN Len(HeadGroups(a)) ELSE -1, dots, base,
                             IF a.prefix = <<>> THEN 8 ELSE 9))
<1>1. PICK st, sep :
           /\ scan_ipv6(Written(a)) = FillGap(st[Len(Numbers(a))])
           /\ Steps(a, st, sep)
           /\ Separators(a, sep)
  BY WrittenScan
<1>2. st[HexCount(a)] = HexState(a, HexCount(a))
  BY <1>1, HexLoop
<1>3. PICK m \in Nat : m = HexCount(a)
  BY CountsOf
<1>4. PICK pos : pos = IF a.gap THEN Len(HeadGroups(a)) ELSE -1
  OBVIOUS
<1>5. PosAt(a, m) = pos
  BY <1>3, <1>4, CountsOf DEF PosAt
<1>6. PICK P : P = HexParts(a, m)
  OBVIOUS
<1>7. m <= Len(Numbers(a)) /\ Len(Numbers(a)) \in Nat /\ Ungrouped(a) = m + Len(a.quad)
  <2>1. Len(a.prefix) \in Nat /\ Len(a.quad) \in Nat
    BY NotationParts DEF Proper
  <2>2. Ungrouped(a) \in Nat /\ m = Ungrouped(a) - Len(a.quad)
    BY <1>3, CountsOf DEF HexCount
  <2>3. Len(Numbers(a)) = Ungrouped(a) + Len(a.prefix)
    BY NumbersShape
  <2>4. PICK p, q, u, l : p = Len(a.prefix) /\ q = Len(a.quad) /\ u = Ungrouped(a) /\ l = Len(Numbers(a))
    OBVIOUS
  <2>5. p \in Nat /\ q \in Nat /\ u \in Nat /\ m = u - q /\ l = u + p
    BY <2>1, <2>2, <2>3, <2>4
  <2>6. m <= l /\ l \in Nat /\ u = m + q
    BY <2>5
  <2> QED
    BY <2>4, <2>6
<1>8. P \in [1..m -> Nat] /\ \A j \in 1..m : P[j] = Number(16, Numbers(a)[j])
  <2>1. \A j \in 1..m : Numbers(a)[j] \in Seq(Nat)
    BY <1>7, NumbersShape
  <2>2. \A j \in 1..m : Number(16, Numbers(a)[j]) \in Nat
    BY <2>1, NumberIsNat
  <2> QED
    BY <1>6, <2>2 DEF HexParts
<1>9. CASE Dotted(a)
  <2>1. a.prefix = <<>> /\ st[m] = ScanState(P, pos, 0, 16, 8)
    BY <1>2, <1>3, <1>5, <1>6, <1>9 DEF Proper, HexState, InPrefix
  <2>2. /\ Len(Numbers(a)) = m + 4
        /\ \A i \in 1..4 : Numbers(a)[m + i] = a.quad[i]
    BY <1>3, <1>9, DottedNumbers
  <2>3. \A i \in 1..4 : st[m + i] = CloseNumber(st[m + i - 1], Item(a.quad[i], IF i = 4 THEN "end" ELSE "."))
    <3> TAKE i \in 1..4
    <3>1. PICK k \in 0..Len(Numbers(a)) : k = m + i
      BY <2>2
    <3>2. k # 0 /\ sep[k] = IF i = 4 THEN "end" ELSE "."
      BY <1>1, <1>3, <1>9, <3>1 DEF Separators
    <3>3. st[k] = CloseNumber(st[k - 1], Item(Numbers(a)[k], sep[k]))
      BY <1>1, <3>1, <3>2 DEF Steps
    <3> QED
      BY <2>2, <3>1, <3>2, <3>3
  <2>4. PICK o1, o2, o3, o4 \in Nat : /\ o1 = Number(10, a.quad[1]) /\ o2 = Number(10, a.quad[2])
                                      /\ o3 = Number(10, a.quad[3]) /\ o4 = Number(10, a.quad[4])
    <3>1. \A i \in 1..4 : a.quad[i] \in Seq(Nat)
      BY <1>9, NotationParts DEF Proper
    <3>2. \A i \in 1..4 : Number(10, a.quad[i]) \in Nat
      BY <3>1, NumberIsNat
    <3> QED
      BY <3>2
  <2>5. FromHex(Number(16, a.quad[1])) = o1
    <3>1. a.quad[1] \in RE_IPV4_BYTE
      BY <1>9, NotationParts DEF Proper
    <3> QED
      BY <2>4, <3>1, FromHexIsDecimal
  <2>6. st[m + 1] = ScanState(Append(P, o1), pos, 1, 10, 8)
    <3>1. st[m + 1] = CloseNumber(st[m], Item(a.quad[1], "."))
      BY <2>3
    <3> QED
      BY <2>1, <2>5, <3>1, CloseFirst
  <2>7. PICK P2 : P2 = Join(Append(P, o1), o2)
    OBVIOUS
  <2>8. st[m + 2] = ScanState(P2, pos, 2, 10, 8)
    <3>1. st[m + 2] = CloseNumber(st[m + 1], Item(a.quad[2], "."))
      BY <2>3
    <3> QED
      BY <2>4, <2>6, <2>7, <3>1, CloseSecond
  <2>9. st[m + 3] = ScanState(Append(P2, o3), pos, 3, 10, 8)
    <3>1. st[m + 3] = CloseNumber(st[m + 2], Item(a.quad[3], "."))
      BY <2>3
    <3> QED
      BY <2>4, <2>8, <3>1, CloseThird
  <2>10. PICK P4 : P4 = Join(Append(P2, o3), o4)
    OBVIOUS
  <2>11. st[m + 4] = ScanState(P4, pos, 3, 10, 8)
    <3>1. st[m + 4] = CloseNumber(st[m + 3], Item(a.quad[4], "end"))
      BY <2>3
    <3> QED
      BY <2>4, <2>9, <2>10, <3>1, CloseFourth
  <2>12. P4 = Found(a)
    <3>1. PICK x, y : x = Two(o1, o2) /\ y = Two(o3, o4)
      OBVIOUS
    <3>2. P \in Seq(Nat) /\ Len(P) = m
      BY <1>8, FunctionIsSeq
    <3>3. P2 \in Seq(Nat) /\ Len(P2) = m + 1 /\ P2[m + 1] = x /\ \A j \in 1..m : P2[j] = P[j]
      <4>1. P2 = AddPart(P, o1, o2)
        BY <2>7 DEF AddPart
      <4>2. /\ P2 \in Seq(Nat) /\ Len(P2) = Len(P) + 1 /\ P2[Len(P) + 1] = Two(o1, o2)
            /\ \A j \in 1..Len(P) : P2[j] = P[j]
        <5>1. P \in Seq(Nat)
          BY <3>2
        <5> QED
          BY <4>1, <5>1, DottedPart
      <4> QED
        BY <3>1, <3>2, <4>2, Zenon
    <3>4. P4 \in Seq(Nat) /\ Len(P4) = m + 1 + 1 /\ P4[m + 1 + 1] = y /\ \A j \in 1..m + 1 : P4[j] = P2[j]
      <4>1. P4 = AddPart(P2, o3, o4)
        BY <2>10 DEF AddPart
      <4>2. /\ P4 \in Seq(Nat) /\ Len(P4) = Len(P2) + 1 /\ P4[Len(P2) + 1] = Two(o3, o4)
            /\ \A j \in 1..Len(P2) : P4[j] = P2[j]
        <5>1. P2 \in Seq(Nat)
          BY <3>3
        <5> QED
          BY <4>1, <5>1, DottedPart
      <4> QED
        BY <3>1, <3>3, <4>2, Zenon
    <3>5. P4 \in [1..m + 2 -> Nat] /\ P4[m + 2] = y /\ P4[m + 1] = x /\ \A j \in 1..m : P4[j] = P[j]
      <4>1. m + 1 + 1 = m + 2
        OBVIOUS
      <4> QED
        BY <3>3, <3>4, <4>1, LenProperties
    <3>6. Low(a, 1) = x /\ Low(a, 3) = y
      BY <2>4, <3>1 DEF Low, Two
    <3>7. Found(a) = [j \in 1..m + 2 |-> IF j = m + 2 THEN y ELSE IF j = m + 1 THEN x ELSE Number(16, Numbers(a)[j])]
      BY <1>3, <1>9, <3>6 DEF Found
    <3> QED
      BY <1>8, <3>5, <3>7
  <2> QED
    BY <1>1, <1>4, <2>1, <2>2, <2>11, <2>12
<1>10. CASE ~Dotted(a) /\ a.prefix # <<>>
  <2>1. Ungrouped(a) = m /\ Len(Numbers(a)) = m + 1
    <3>1. Len(a.quad) = 0 /\ Len(a.prefix) = 1
      BY <1>10, NotationParts DEF Proper
    <3>2. Len(Numbers(a)) = Ungrouped(a) + Len(a.prefix)
      BY NumbersShape
    <3> QED
      BY <1>7, <3>1, <3>2
  <2>2. st[m] = ScanState(P, pos, 0, 10, 9)
    BY <1>2, <1>3, <1>5, <1>6, <1>10, <2>1 DEF HexState, InPrefix
  <2>3. Numbers(a)[m + 1] = a.prefix[1] /\ sep[m + 1] = "end"
    BY <1>1, <1>10, <2>1, NumbersShape DEF Separators
  <2>4. st[m + 1] = CloseNumber(st[m], Item(a.prefix[1], "end"))
    <3>1. m + 1 \in 0..Len(Numbers(a)) /\ m + 1 # 0 /\ m + 1 - 1 = m
      BY <2>1
    <3> QED
      BY <1>1, <2>3, <3>1 DEF Steps
  <2>5. st[m + 1] = ScanState(Append(P, Number(10, a.prefix[1])), pos, 0, 10, 9)
    BY <2>2, <2>4, ClosePrefix
  <2>6. PICK x \in Nat : x = Number(10, a.prefix[1])
    <3>1. a.prefix[1] \in Seq(Nat)
      BY <1>10, NotationParts DEF Proper
    <3> QED
      BY <3>1, NumberIsNat
  <2>7. Append(P, x) = [j \in 1..m + 1 |-> IF j = m + 1 THEN x ELSE P[j]]
    BY <1>8, AppendIs
  <2>8. Found(a) = [j \in 1..m + 1 |-> IF j = m + 1 THEN x ELSE Number(16, Numbers(a)[j])]
    BY <1>3, <1>10, <2>6 DEF Found
  <2>9. Append(P, x) = Found(a)
    BY <1>8, <2>7, <2>8
  <2> QED
    BY <1>1, <1>4, <1>10, <2>1, <2>5, <2>6, <2>9
<1>11. CASE ~Dotted(a) /\ a.prefix = <<>>
  <2>1. Len(Numbers(a)) = m
    <3>1. Len(a.quad) = 0 /\ Len(a.prefix) = 0
      BY <1>11, NotationParts DEF Proper
    <3>2. Len(Numbers(a)) = Ungrouped(a) + Len(a.prefix)
      BY NumbersShape
    <3> QED
      BY <1>7, <3>1, <3>2
  <2>2. st[m] = ScanState(P, pos, 0, 16, 8)
    BY <1>2, <1>3, <1>5, <1>6, <1>11 DEF HexState, InPrefix
  <2>3. P = Found(a)
    BY <1>3, <1>6, <1>11 DEF Found, HexParts
  <2> QED
    BY <1>1, <1>4, <1>11, <2>1, <2>2, <2>3
<1> QED
  BY <1>9, <1>10, <1>11

-----------------------------------------------------------------------------
(* "::" replaced with zeroes.                                              *)

IsConcat(c, s, t) ==
  /\ c \in Seq(Nat) /\ Len(c) = Len(s) + Len(t)
  /\ \A i \in 1..Len(s) : c[i] = s[i]
  /\ \A i \in 1..Len(t) : c[Len(s) + i] = t[i]

LEMMA ConcatIs ==
  ASSUME NEW s \in Seq(Nat), NEW t \in Seq(Nat)
  PROVE  IsConcat(s \o t, s, t)
<1>0. PICK c : c = s \o t
  OBVIOUS
<1>1. /\ s \o t \in Seq(Nat) /\ Len(s \o t) = Len(s) + Len(t)
      /\ \A i \in 1..Len(s) + Len(t) : (s \o t)[i] = IF i <= Len(s) THEN s[i] ELSE t[i - Len(s)]
  BY ConcatProperties
<1>2. PICK k, l \in Nat : k = Len(s) /\ l = Len(t)
  OBVIOUS
<1>3. /\ c \in Seq(Nat) /\ Len(c) = k + l
      /\ \A i \in 1..k + l : c[i] = IF i <= k THEN s[i] ELSE t[i - k]
  BY <1>0, <1>1, <1>2
<1>4. \A i \in 1..l : c[k + i] = t[i]
  <2> TAKE i \in 1..l
  <2>1. PICK j \in 1..k + l : j = k + i /\ ~(j <= k)
    OBVIOUS
  <2>2. c[j] = t[j - k] /\ j - k = i
    BY <1>3, <2>1
  <2> QED
    BY <2>1, <2>2
<1>5. \A i \in 1..k : c[i] = s[i]
  BY <1>3
<1> QED
  BY <1>0, <1>2, <1>3, <1>4, <1>5 DEF IsConcat

Filled(F, P, pos, total) ==
  /\ F \in Seq(Nat) /\ Len(F) = total
  /\ \A i \in 1..total :
       F[i] = IF i <= pos THEN P[i]
              ELSE IF i <= pos + (total - Len(P)) THEN 0 ELSE P[i - (total - Len(P))]

LEMMA FilledIs ==
  ASSUME NEW P \in Seq(Nat), NEW pos \in Nat, pos <= Len(P), NEW dots, NEW base,
         NEW total \in Nat, Len(P) <= total, NEW F,
         F = FillGap(ScanState(P, pos, dots, base, total))
  PROVE  Filled(F, P, pos, total)
<1>1. PICK n \in Nat : n = Len(P)
  OBVIOUS
<1>2. PICK z \in Nat : z = total - n
  BY <1>1
<1>3. PICK A, Z, B : A = SubSeq(P, 1, pos) /\ Z = [i \in 1..z |-> 0] /\ B = SubSeq(P, pos + 1, n)
  OBVIOUS
<1>4. F = A \o Z \o B
  <2> DEFINE st == ScanState(P, pos, dots, base, total)
  <2>1. st.parts = P /\ st.dot_dot_pos = pos /\ st.total = total
    BY DEF ScanState
  <2>2. pos # -1
    OBVIOUS
  <2> HIDE DEF st
  <2>3. F = FillGap(st)
    BY DEF st
  <2> QED
    BY <1>1, <1>2, <1>3, <2>1, <2>2, <2>3 DEF FillGap
<1>5. A \in Seq(Nat) /\ Len(A) = pos /\ \A i \in 1..pos : A[i] = P[i]
  <2>1. \A i \in 1..pos : P[i] \in Nat
    BY <1>1
  <2> QED
    BY <1>3, <2>1, SubSeqProperties
<1>6. Z \in Seq(Nat) /\ Len(Z) = z /\ \A i \in 1..z : Z[i] = 0
  <2>1. Z \in [1..z -> Nat] /\ \A i \in 1..z : Z[i] = 0
    BY <1>3
  <2> QED
    BY <2>1, FunctionIsSeq
<1>7. B \in Seq(Nat) /\ Len(B) = n - pos /\ \A i \in 1..n - pos : B[i] = P[pos + i]
  <2>1. \A i \in pos + 1..n : P[i] \in Nat
    BY <1>1
  <2>2. /\ B \in Seq(Nat) /\ Len(B) = IF pos + 1 <= n THEN n - (pos + 1) + 1 ELSE 0
        /\ \A i \in 1..n - (pos + 1) + 1 : B[i] = P[pos + 1 + i - 1]
    BY <1>3, <2>1, SubSeqProperties
  <2> QED
    BY <1>1, <2>2
<1>8. PICK G : G = A \o Z
  OBVIOUS
<1>9. /\ G \in Seq(Nat) /\ Len(G) = pos + z
      /\ \A i \in 1..pos : G[i] = P[i]
      /\ \A i \in 1..z : G[pos + i] = 0
  <2>1. IsConcat(G, A, Z)
    BY <1>5, <1>6, <1>8, ConcatIs
  <2> QED
    BY <1>5, <1>6, <2>1 DEF IsConcat
<1>10. /\ F \in Seq(Nat) /\ Len(F) = pos + z + (n - pos)
       /\ \A i \in 1..pos + z : F[i] = G[i]
       /\ \A i \in 1..n - pos : F[pos + z + i] = P[pos + i]
  <2>1. F = G \o B
    BY <1>4, <1>8
  <2>2. IsConcat(F, G, B)
    BY <1>7, <1>9, <2>1, ConcatIs
  <2> QED
    BY <1>7, <1>9, <2>2 DEF IsConcat
<1>11. pos + z + (n - pos) = total
  BY <1>1, <1>2
<1>12. ASSUME NEW i \in 1..total
       PROVE  F[i] = IF i <= pos THEN P[i] ELSE IF i <= pos + z THEN 0 ELSE P[i - z]
  <2>1. CASE i <= pos
    <3>1. F[i] = G[i] /\ G[i] = P[i]
      BY <1>9, <1>10, <2>1
    <3> QED
      BY <2>1, <3>1
  <2>2. CASE i > pos /\ i <= pos + z
    <3>1. PICK k \in 1..z : i = pos + k
      <4>1. i - pos \in 1..z /\ i = pos + (i - pos)
        BY <2>2
      <4> QED
        BY <4>1
    <3>2. G[pos + k] = 0
      BY <1>9
    <3>3. F[i] = G[i]
      BY <1>10, <2>2
    <3> QED
      BY <2>2, <3>1, <3>2, <3>3
  <2>3. CASE i > pos + z
    <3>1. PICK k \in 1..n - pos : i = pos + z + k
      <4>1. i - (pos + z) \in 1..n - pos /\ i = pos + z + (i - (pos + z))
        BY <1>11, <2>3
      <4> QED
        BY <4>1
    <3>2. F[pos + z + k] = P[pos + k]
      BY <1>10
    <3>4. pos + k = i - z
      BY <3>1
    <3>3. ~(i <= pos) /\ ~(i <= pos + z)
      BY <2>3
    <3> QED
      BY <3>1, <3>2, <3>3, <3>4
  <2> QED
    BY <2>1, <2>2, <2>3
<1> QED
  BY <1>1, <1>2, <1>10, <1>11, <1>12 DEF Filled

LEMMA NotFilled ==
  ASSUME NEW P, NEW dots, NEW base, NEW total
  PROVE  FillGap(ScanState(P, -1, dots, base, total)) = P
BY DEF FillGap, ScanState

LEMMA FoundIs ==
  ASSUME NEW a, Proper(a)
  PROVE  /\ Found(a) \in Seq(Nat)
         /\ Len(Found(a)) =
              HexCount(a) + (IF Dotted(a) THEN 2 ELSE 0) + (IF a.prefix = <<>> THEN 0 ELSE 1)
         /\ \A j \in 1..HexCount(a) : Found(a)[j] = Number(16, Numbers(a)[j])
         /\ Dotted(a) => Found(a)[HexCount(a) + 1] = Low(a, 1) /\ Found(a)[HexCount(a) + 2] = Low(a, 3)
         /\ a.prefix # <<>> => Found(a)[HexCount(a) + 1] = Number(10, a.prefix[1])
         /\ Low(a, 1) \in Nat \/ ~Dotted(a)
         /\ Low(a, 3) \in Nat \/ ~Dotted(a)
         /\ a.prefix # <<>> => Number(10, a.prefix[1]) \in Nat
<1>1. PICK m \in Nat : m = HexCount(a)
  BY CountsOf
<1>2. m <= Len(Numbers(a))
  <2>1. Len(a.prefix) \in Nat /\ Len(a.quad) \in Nat
    BY NotationParts DEF Proper
  <2>2. Ungrouped(a) \in Nat /\ m = Ungrouped(a) - Len(a.quad)
    BY <1>1, CountsOf DEF HexCount
  <2>3. Len(Numbers(a)) = Ungrouped(a) + Len(a.prefix)
    BY NumbersShape
  <2>4. PICK p, q, u, l : p = Len(a.prefix) /\ q = Len(a.quad) /\ u = Ungrouped(a) /\ l = Len(Numbers(a))
    OBVIOUS
  <2>5. p \in Nat /\ q \in Nat /\ u \in Nat /\ m = u - q /\ l = u + p
    BY <2>1, <2>2, <2>3, <2>4
  <2>6. m <= l
    BY <2>5
  <2> QED
    BY <2>4, <2>6
<1>3. \A j \in 1..m : Number(16, Numbers(a)[j]) \in Nat
  <2>1. \A j \in 1..m : Numbers(a)[j] \in Seq(Nat)
    BY <1>2, NumbersShape
  <2> QED
    BY <2>1, NumberIsNat
<1>4. CASE Dotted(a)
  <2>1. a.prefix = <<>>
    BY <1>4 DEF Proper
  <2>2. \A i \in 1..4 : Number(10, a.quad[i]) \in Nat
    <3>1. \A i \in 1..4 : a.quad[i] \in Seq(Nat)
      BY <1>4, NotationParts DEF Proper
    <3> QED
      BY <3>1, NumberIsNat
  <2>3. Low(a, 1) \in Nat /\ Low(a, 3) \in Nat
    BY <2>2 DEF Low
  <2>4. PICK x, y \in Nat : x = Low(a, 1) /\ y = Low(a, 3)
    BY <2>3
  <2>5. Found(a) = [j \in 1..m + 2 |-> IF j = m + 2 THEN y ELSE IF j = m + 1 THEN x ELSE Number(16, Numbers(a)[j])]
    BY <1>1, <1>4, <2>4 DEF Found
  <2>6. /\ Found(a) \in [1..m + 2 -> Nat] /\ m + 2 \in Nat
        /\ Found(a)[m + 1] = x /\ Found(a)[m + 2] = y
        /\ \A j \in 1..m : Found(a)[j] = Number(16, Numbers(a)[j])
    BY <1>3, <2>5
  <2>7. Found(a) \in Seq(Nat) /\ Len(Found(a)) = m + 2
    BY <2>6, FunctionIsSeq
  <2> QED
    BY <1>1, <1>4, <2>1, <2>3, <2>4, <2>6, <2>7
<1>5. CASE ~Dotted(a) /\ a.prefix # <<>>
  <2>1. PICK x \in Nat : x = Number(10, a.prefix[1])
    <3>1. a.prefix[1] \in Seq(Nat)
      BY <1>5, NotationParts DEF Proper
    <3> QED
      BY <3>1, NumberIsNat
  <2>2. Found(a) = [j \in 1..m + 1 |-> IF j = m + 1 THEN x ELSE Number(16, Numbers(a)[j])]
    BY <1>1, <1>5, <2>1 DEF Found
  <2>3. /\ Found(a) \in [1..m + 1 -> Nat] /\ m + 1 \in Nat /\ Found(a)[m + 1] = x
        /\ \A j \in 1..m : Found(a)[j] = Number(16, Numbers(a)[j])
    BY <1>3, <2>2
  <2>4. Found(a) \in Seq(Nat) /\ Len(Found(a)) = m + 1
    BY <2>3, FunctionIsSeq
  <2> QED
    BY <1>1, <1>5, <2>1, <2>3, <2>4
<1>6. CASE ~Dotted(a) /\ a.prefix = <<>>
  <2>1. Found(a) = [j \in 1..m |-> Number(16, Numbers(a)[j])]
    BY <1>1, <1>6 DEF Found
  <2>2. Found(a) \in [1..m -> Nat] /\ \A j \in 1..m : Found(a)[j] = Number(16, Numbers(a)[j])
    BY <1>3, <2>1
  <2>3. Found(a) \in Seq(Nat) /\ Len(Found(a)) = m
    BY <2>2, FunctionIsSeq
  <2> QED
    BY <1>1, <1>6, <2>2, <2>3
<1> QED
  BY <1>4, <1>5, <1>6

\* The numbers of an address, place by place; z groups are left out.
AddressParts(a, A, z) ==
  /\ A \in Seq(Nat) /\ Len(A) = IF a.prefix = <<>> THEN 8 ELSE 9
  /\ \A i \in 1..Len(a.front) : A[i] = Number(16, a.front[i])
  /\ \A i \in 1..z : A[Len(a.front) + i] = 0
  /\ \A i \in 1..Len(a.back) : A[Len(a.front) + z + i] = Number(16, a.back[i])
  /\ Dotted(a) => A[7] = Low(a, 1) /\ A[8] = Low(a, 3)
  /\ a.prefix # <<>> => A[9] = Number(10, a.prefix[1])

\* A sequence of groups, read.
LEMMA ReadGroups ==
  ASSUME NEW g \in Seq(Seq(Nat)), NEW base \in Nat, NEW r, r = [i \in DOMAIN g |-> Number(base, g[i])]
  PROVE  r \in Seq(Nat) /\ Len(r) = Len(g) /\ \A i \in 1..Len(g) : r[i] = Number(base, g[i])
<1>1. DOMAIN g = 1..Len(g) /\ Len(g) \in Nat
  BY LenProperties
<1>2. \A i \in 1..Len(g) : g[i] \in Seq(Nat)
  OBVIOUS
<1>3. \A i \in 1..Len(g) : Number(base, g[i]) \in Nat
  BY <1>2, NumberIsNat
<1>4. r \in [1..Len(g) -> Nat] /\ \A i \in 1..Len(g) : r[i] = Number(base, g[i])
  BY <1>1, <1>3
<1> QED
  BY <1>1, <1>4, FunctionIsSeq

LEMMA AddressIs ==
  ASSUME NEW a, Proper(a)
  PROVE  \E z \in Nat : /\ z = 8 - Given(a)
                        /\ AddressParts(a, Address(a), z)
<1>1. /\ a.front \in Seq(Seq(Nat)) /\ a.back \in Seq(Seq(Nat)) /\ a.prefix \in Seq(Seq(Nat))
      /\ Len(a.prefix) = IF a.prefix = <<>> THEN 0 ELSE 1
      /\ RE_IPV6(a)
  BY NotationParts DEF Proper
<1>2. PICK f, b, p \in Nat : f = Len(a.front) /\ b = Len(a.back) /\ p = Len(a.prefix)
  <2>1. Len(a.front) \in Nat /\ Len(a.back) \in Nat /\ Len(a.prefix) \in Nat
    BY <1>1
  <2> QED
    BY <2>1
<1>3. PICK d \in {0, 2} : d = IF Dotted(a) THEN 2 ELSE 0
  OBVIOUS
<1>4. PICK z \in Nat : z = 8 - Given(a) /\ f + z + b + d = 8
  <2>1. Given(a) = f + b + d
    BY <1>2, <1>3 DEF Given
  <2>2. Given(a) <= 8
    <3>1. PICK g \in Int : g = Given(a)
      BY <2>1
    <3> QED
      BY <1>1, <3>1 DEF RE_IPV6
  <2> QED
    BY <2>1, <2>2
<1>5. PICK H, Z, B, L, X :
        /\ H = [i \in DOMAIN a.front |-> Number(16, a.front[i])]
        /\ Z = [i \in 1..z |-> 0]
        /\ B = [i \in DOMAIN a.back |-> Number(16, a.back[i])]
        /\ L = IF Dotted(a) THEN <<Low(a, 1), Low(a, 3)>> ELSE <<>>
        /\ X = [i \in DOMAIN a.prefix |-> Number(10, a.prefix[i])]
  OBVIOUS
<1>6. Address(a) = H \o Z \o B \o L \o X
  <2>1. /\ Low(a, 1) = Number(10, a.quad[1]) * 256 + Number(10, a.quad[2])
        /\ Low(a, 3) = Number(10, a.quad[3]) * 256 + Number(10, a.quad[4])
    BY DEF Low
  <2> QED
    BY <1>4, <1>5, <2>1, Zenon DEF Address
<1>7. /\ H \in Seq(Nat) /\ Len(H) = f /\ \A i \in 1..f : H[i] = Number(16, a.front[i])
      /\ B \in Seq(Nat) /\ Len(B) = b /\ \A i \in 1..b : B[i] = Number(16, a.back[i])
      /\ X \in Seq(Nat) /\ Len(X) = p /\ \A i \in 1..p : X[i] = Number(10, a.prefix[i])
  <2>1. H \in Seq(Nat) /\ Len(H) = Len(a.front) /\ \A i \in 1..Len(a.front) : H[i] = Number(16, a.front[i])
    BY <1>1, <1>5, ReadGroups
  <2>2. B \in Seq(Nat) /\ Len(B) = Len(a.back) /\ \A i \in 1..Len(a.back) : B[i] = Number(16, a.back[i])
    BY <1>1, <1>5, ReadGroups
  <2>3. X \in Seq(Nat) /\ Len(X) = Len(a.prefix) /\ \A i \in 1..Len(a.prefix) : X[i] = Number(10, a.prefix[i])
    BY <1>1, <1>5, ReadGroups
  <2> QED
    BY <1>2, <2>1, <2>2, <2>3
<1>8. Z \in Seq(Nat) /\ Len(Z) = z /\ \A i \in 1..z : Z[i] = 0
  <2>1. Z \in [1..z -> Nat] /\ \A i \in 1..z : Z[i] = 0
    BY <1>5
  <2> QED
    BY <2>1, FunctionIsSeq
<1>9. L \in Seq(Nat) /\ Len(L) = d /\ (Dotted(a) => L[1] = Low(a, 1) /\ L[2] = Low(a, 3))
  <2>1. CASE Dotted(a)
    <3>1. PICK x, y \in Nat : x = Low(a, 1) /\ y = Low(a, 3)
      BY <2>1, FoundIs
    <3>2. L = <<x, y>>
      BY <1>5, <2>1, <3>1
    <3> QED
      BY <1>3, <2>1, <3>1, <3>2
  <2>2. CASE ~Dotted(a)
    BY <1>3, <1>5, <2>2
  <2> QED
    BY <2>1, <2>2
<1>10. PICK C : C = H \o Z
  OBVIOUS
<1>11. /\ C \in Seq(Nat) /\ Len(C) = f + z
       /\ \A i \in 1..f : C[i] = H[i]
       /\ \A i \in 1..z : C[f + i] = 0
  <2>1. IsConcat(C, H, Z)
    BY <1>7, <1>8, <1>10, ConcatIs
  <2> QED
    BY <1>7, <1>8, <2>1 DEF IsConcat
<1>12. PICK D : D = C \o B
  OBVIOUS
<1>13. /\ D \in Seq(Nat) /\ Len(D) = f + z + b
       /\ \A i \in 1..f + z : D[i] = C[i]
       /\ \A i \in 1..b : D[f + z + i] = B[i]
  <2>1. IsConcat(D, C, B)
    BY <1>7, <1>11, <1>12, ConcatIs
  <2> QED
    BY <1>7, <1>11, <2>1 DEF IsConcat
<1>14. PICK E : E = D \o L
  OBVIOUS
<1>15. /\ E \in Seq(Nat) /\ Len(E) = 8
       /\ \A i \in 1..f + z + b : E[i] = D[i]
       /\ \A i \in 1..d : E[f + z + b + i] = L[i]
  <2>1. IsConcat(E, D, L)
    BY <1>9, <1>13, <1>14, ConcatIs
  <2> QED
    BY <1>4, <1>9, <1>13, <2>1 DEF IsConcat
<1>16. PICK F : F = E \o X
  OBVIOUS
<1>17. /\ F \in Seq(Nat) /\ Len(F) = 8 + p
       /\ \A i \in 1..8 : F[i] = E[i]
       /\ \A i \in 1..p : F[8 + i] = X[i]
  <2>1. IsConcat(F, E, X)
    BY <1>7, <1>15, <1>16, ConcatIs
  <2> QED
    BY <1>7, <1>15, <2>1 DEF IsConcat
<1>18. F = Address(a)
  BY <1>6, <1>10, <1>12, <1>14, <1>16
<1>19. \A i \in 1..f : F[i] = Number(16, a.front[i])
  <2> TAKE i \in 1..f
  <2>1. i \in 1..8 /\ i \in 1..f + z /\ i \in 1..f + z + b
    BY <1>4
  <2>2. F[i] = E[i] /\ E[i] = D[i]
    BY <1>15, <1>17, <2>1
  <2>3. D[i] = C[i] /\ C[i] = H[i]
    BY <1>11, <1>13, <2>1
  <2>4. H[i] = Number(16, a.front[i])
    BY <1>7
  <2> QED
    BY <2>2, <2>3, <2>4
<1>20. \A i \in 1..z : F[f + i] = 0
  <2> TAKE i \in 1..z
  <2>1. PICK k \in 1..8 : k = f + i /\ k \in 1..f + z /\ k \in 1..f + z + b
    BY <1>4
  <2>2. F[k] = C[k]
    BY <1>13, <1>15, <1>17, <2>1
  <2> QED
    BY <1>11, <2>1, <2>2
<1>21. \A i \in 1..b : F[f + z + i] = Number(16, a.back[i])
  <2> TAKE i \in 1..b
  <2>1. PICK k \in 1..8 : k = f + z + i /\ k \in 1..f + z + b
    BY <1>4
  <2>2. F[k] = D[k]
    BY <1>15, <1>17, <2>1
  <2>3. D[k] = B[i]
    BY <1>13, <2>1
  <2> QED
    BY <1>7, <2>1, <2>2, <2>3
<1>22. Dotted(a) => F[7] = Low(a, 1) /\ F[8] = Low(a, 3)
  <2> SUFFICES ASSUME Dotted(a) PROVE F[7] = Low(a, 1) /\ F[8] = Low(a, 3)
    OBVIOUS
  <2>1. d = 2 /\ f + z + b = 6
    BY <1>3, <1>4
  <2>2. E[6 + 1] = L[1] /\ E[6 + 2] = L[2]
    BY <1>15, <2>1
  <2> QED
    BY <1>9, <1>17, <2>2
<1>23. a.prefix # <<>> => F[9] = Number(10, a.prefix[1])
  <2> SUFFICES ASSUME a.prefix # <<>> PROVE F[9] = Number(10, a.prefix[1])
    OBVIOUS
  <2>1. p = 1
    BY <1>1, <1>2
  <2>2. F[8 + 1] = X[1] /\ X[1] = Number(10, a.prefix[1])
    BY <1>7, <1>17, <2>1
  <2> QED
    BY <2>2
<1>24. AddressParts(a, F, z)
  BY <1>1, <1>2, <1>17, <1>19, <1>20, <1>21, <1>22, <1>23 DEF AddressParts
<1> QED
  BY <1>4, <1>18, <1>24

-----------------------------------------------------------------------------
(* What scan_ipv6 makes of the text is the address.                        *)

\* The parts found at the end of the loop, h groups before the "::" and k
\* behind it; a "::" at an end has a zero beside it.
FoundParts(a, P, h, k) ==
  /\ h = IF a.gap /\ a.front = <<>> THEN 1 ELSE Len(a.front)
  /\ k = IF a.gap /\ a.back = <<>> /\ ~Dotted(a) THEN 1 ELSE Len(a.back)
  /\ P \in Seq(Nat)
  /\ Len(P) = h + k + (IF Dotted(a) THEN 2 ELSE 0) + (IF a.prefix = <<>> THEN 0 ELSE 1)
  /\ \A j \in 1..Len(a.front) : P[j] = Number(16, a.front[j])
  /\ \A j \in 1..Len(a.back) : P[h + j] = Number(16, a.back[j])
  /\ a.gap /\ a.front = <<>> => P[1] = 0
  /\ a.gap /\ a.back = <<>> /\ ~Dotted(a) => P[h + 1] = 0
  /\ Dotted(a) => P[h + k + 1] = Low(a, 1) /\ P[h + k + 2] = Low(a, 3)
  /\ a.prefix # <<>> => P[h + k + 1] = Number(10, a.prefix[1])

LEMMA FoundHas ==
  ASSUME NEW a, Proper(a)
  PROVE  \E h, k \in Nat : /\ h = Len(HeadGroups(a)) /\ h + k = HexCount(a)
                           /\ FoundParts(a, Found(a), h, k)
<1>1. /\ a.front \in Seq(Seq(Nat)) /\ a.back \in Seq(Seq(Nat)) /\ a.quad \in Seq(Seq(Nat))
      /\ Len(a.quad) = IF Dotted(a) THEN 4 ELSE 0
  BY NotationParts DEF Proper
<1>2. PICK h, t, f, b, q \in Nat : /\ h = Len(HeadGroups(a)) /\ t = Len(TailGroups(a))
                                   /\ f = Len(a.front) /\ b = Len(a.back) /\ q = Len(a.quad)
  <2>1. /\ Len(HeadGroups(a)) \in Nat /\ Len(TailGroups(a)) \in Nat
        /\ Len(a.front) \in Nat /\ Len(a.back) \in Nat /\ Len(a.quad) \in Nat
    BY <1>1, GroupsShape
  <2> QED
    BY <2>1
<1>3. /\ h = IF a.gap /\ a.front = <<>> THEN 1 ELSE f
      /\ t = IF a.gap /\ a.back = <<>> /\ ~Dotted(a) THEN 1 ELSE b + q
      /\ q = IF Dotted(a) THEN 4 ELSE 0
  BY <1>1, <1>2, GroupsShape
<1>4. (a.front = <<>> => f = 0) /\ (a.back = <<>> => b = 0)
  BY <1>1, <1>2, EmptySeq
<1>5. PICK k \in Nat : k = t - q /\ k = IF a.gap /\ a.back = <<>> /\ ~Dotted(a) THEN 1 ELSE b
  BY <1>3
<1>6. h + k = HexCount(a)
  BY <1>2, <1>5 DEF HexCount, Ungrouped
<1>7. PICK P, N : P = Found(a) /\ N = Numbers(a)
  OBVIOUS
<1>8. /\ P \in Seq(Nat)
      /\ Len(P) = h + k + (IF Dotted(a) THEN 2 ELSE 0) + (IF a.prefix = <<>> THEN 0 ELSE 1)
      /\ \A j \in 1..h + k : P[j] = Number(16, N[j])
      /\ Dotted(a) => P[h + k + 1] = Low(a, 1) /\ P[h + k + 2] = Low(a, 3)
      /\ a.prefix # <<>> => P[h + k + 1] = Number(10, a.prefix[1])
  BY <1>6, <1>7, FoundIs
<1>9. PICK hd, tl : hd = HeadGroups(a) /\ tl = TailGroups(a)
  OBVIOUS
<1>10. /\ \A i \in 1..h : N[i] = hd[i]
       /\ \A i \in 1..t : N[h + i] = tl[i]
  BY <1>2, <1>7, <1>9, NumbersShape
<1>11. Number(16, <<>>) = 0
  BY NothingIsZero
<1>12. \A j \in 1..f : P[j] = Number(16, a.front[j])
  <2> TAKE j \in 1..f
  <2>0. a.front # <<>>
    BY <1>4
  <2>1. h = f /\ hd = a.front
    BY <1>3, <1>9, <2>0, GroupsShape
  <2>2. j \in 1..h + k /\ j \in 1..h
    BY <2>1
  <2> QED
    BY <1>8, <1>10, <2>1, <2>2
<1>13. \A j \in 1..b : P[h + j] = Number(16, a.back[j])
  <2> TAKE j \in 1..b
  <2>0. a.back # <<>>
    BY <1>4
  <2>1. k = b /\ t = b + q /\ tl = a.back \o a.quad
    BY <1>3, <1>5, <1>9, <2>0, GroupsShape
  <2>2. h + j \in 1..h + k /\ j \in 1..t
    BY <2>1
  <2>3. P[h + j] = Number(16, tl[j])
    BY <1>8, <1>10, <2>2
  <2>4. (a.back \o a.quad)[j] = a.back[j]
    <3>0. j \in 1..b + q /\ j <= b
      OBVIOUS
    <3>1. j \in 1..Len(a.back) + Len(a.quad) /\ j <= Len(a.back)
      BY <1>2, <3>0
    <3> QED
      BY <1>1, <3>1, ConcatProperties
  <2> QED
    BY <2>1, <2>3, <2>4
<1>14. a.gap /\ a.front = <<>> => P[1] = 0
  <2> SUFFICES ASSUME a.gap, a.front = <<>> PROVE P[1] = 0
    OBVIOUS
  <2>1. h = 1 /\ hd[1] = <<>>
    BY <1>3, <1>9, GroupsShape
  <2>2. 1 \in 1..h + k /\ 1 \in 1..h
    BY <2>1
  <2>3. P[1] = Number(16, N[1]) /\ N[1] = hd[1]
    BY <1>8, <1>10, <2>2
  <2> QED
    BY <1>11, <2>1, <2>3
<1>15. a.gap /\ a.back = <<>> /\ ~Dotted(a) => P[h + 1] = 0
  <2> SUFFICES ASSUME a.gap, a.back = <<>>, ~Dotted(a) PROVE P[h + 1] = 0
    OBVIOUS
  <2>1. k = 1 /\ t = 1 /\ tl[1] = <<>>
    BY <1>3, <1>5, <1>9, GroupsShape
  <2>2. h + 1 \in 1..h + k /\ 1 \in 1..t
    BY <2>1
  <2>3. P[h + 1] = Number(16, N[h + 1]) /\ N[h + 1] = tl[1]
    BY <1>8, <1>10, <2>2
  <2> QED
    BY <1>11, <2>1, <2>3
<1>16. FoundParts(a, P, h, k)
  BY <1>2, <1>3, <1>5, <1>8, <1>12, <1>13, <1>14, <1>15 DEF FoundParts
<1> QED
  BY <1>2, <1>6, <1>7, <1>16

\* The places of an address determine it.
LEMMA SameParts ==
  ASSUME NEW a, Proper(a), NEW z \in Nat, z = 8 - Given(a),
         NEW S, AddressParts(a, S, z), NEW A, AddressParts(a, A, z)
  PROVE  S = A
<1>1. PICK f, b \in Nat : f = Len(a.front) /\ b = Len(a.back)
  BY Fits
<1>2. PICK d \in {0, 2} : d = IF Dotted(a) THEN 2 ELSE 0
  OBVIOUS
<1>3. f + z + b + d = 8
  <2>1. Given(a) = f + b + d
    BY <1>1, <1>2 DEF Given
  <2> QED
    BY <2>1
<1>4. PICK n \in {8, 9} : n = IF a.prefix = <<>> THEN 8 ELSE 9
  OBVIOUS
<1>5. S \in Seq(Nat) /\ Len(S) = n /\ A \in Seq(Nat) /\ Len(A) = n
  BY <1>4 DEF AddressParts
<1>6. ASSUME NEW i \in 1..n PROVE S[i] = A[i]
  <2>1. CASE i <= f
    <3>1. i \in 1..Len(a.front)
      BY <1>1, <2>1
    <3> QED
      BY <3>1 DEF AddressParts
  <2>2. CASE f < i /\ i <= f + z
    <3>1. PICK j \in 1..z : i = f + j
      <4>1. i - f \in 1..z /\ i = f + (i - f)
        BY <2>2
      <4> QED
        BY <4>1
    <3>2. S[f + j] = 0 /\ A[f + j] = 0
      BY <1>1 DEF AddressParts
    <3> QED
      BY <3>1, <3>2
  <2>3. CASE f + z < i /\ i <= f + z + b
    <3>1. PICK j \in 1..b : i = f + z + j
      <4>1. i - (f + z) \in 1..b /\ i = f + z + (i - (f + z))
        BY <2>3
      <4> QED
        BY <4>1
    <3>2. S[f + z + j] = Number(16, a.back[j]) /\ A[f + z + j] = Number(16, a.back[j])
      BY <1>1 DEF AddressParts
    <3> QED
      BY <3>1, <3>2
  <2>4. CASE f + z + b < i /\ i <= 8
    <3>1. d = 2 /\ i \in {7, 8}
      BY <1>3, <2>4
    <3>2. Dotted(a)
      BY <1>2, <3>1
    <3>3. S[7] = Low(a, 1) /\ S[8] = Low(a, 3) /\ A[7] = Low(a, 1) /\ A[8] = Low(a, 3)
      BY <3>2 DEF AddressParts
    <3> QED
      BY <3>1, <3>3
  <2>5. CASE i > 8
    <3>1. i = 9 /\ a.prefix # <<>>
      BY <1>4, <2>5
    <3>2. S[9] = Number(10, a.prefix[1]) /\ A[9] = Number(10, a.prefix[1])
      BY <3>1 DEF AddressParts
    <3> QED
      BY <3>1, <3>2
  <2> QED
    BY <2>1, <2>2, <2>3, <2>4, <2>5
<1> QED
  BY <1>5, <1>6, SeqEqual

\* With the "::" filled, the parts found are the places of the address.
LEMMA FilledParts ==
  ASSUME NEW a, Proper(a), a.gap, NEW z \in Nat, z = 8 - Given(a),
         NEW h \in Nat, NEW k \in Nat, NEW P, FoundParts(a, P, h, k),
         h + k + (IF Dotted(a) THEN 2 ELSE 0) <= 8, NEW dots, NEW base, NEW F,
         F = FillGap(ScanState(P, h, dots, base, IF a.prefix = <<>> THEN 8 ELSE 9))
  PROVE  AddressParts(a, F, z)
<1>1. PICK f, b \in Nat : f = Len(a.front) /\ b = Len(a.back)
  BY Fits
<1>2. PICK d \in {0, 2}, p \in {0, 1} :
        d = (IF Dotted(a) THEN 2 ELSE 0) /\ p = (IF a.prefix = <<>> THEN 0 ELSE 1)
  OBVIOUS
<1>3. f + z + b + d = 8
  <2>1. Given(a) = f + b + d
    BY <1>1, <1>2 DEF Given
  <2> QED
    BY <2>1
<1>4. a.front \in Seq(Seq(Nat)) /\ a.back \in Seq(Seq(Nat))
  BY NotationParts DEF Proper
<1>5. (a.front = <<>> <=> f = 0) /\ (a.back = <<>> <=> b = 0)
  BY <1>1, <1>4, EmptySeq
<1>6. (f = 0 => h = 1 /\ P[1] = 0) /\ (f # 0 => h = f)
  BY <1>1, <1>5 DEF FoundParts
<1>7. (b = 0 /\ d = 0 => k = 1 /\ P[h + 1] = 0) /\ (b # 0 \/ d # 0 => k = b)
  <2>1. d = 0 <=> ~Dotted(a)
    BY <1>2
  <2> QED
    BY <1>1, <1>5, <2>1 DEF FoundParts
<1>8. P \in Seq(Nat) /\ Len(P) = h + k + d + p
  BY <1>2 DEF FoundParts
<1>9. PICK w \in Nat : w = 8 - (h + k + d)
  <2>1. h + k + d <= 8
    BY <1>2
  <2>2. 8 - (h + k + d) \in Nat
    BY <2>1
  <2> QED
    BY <2>2
<1>10. PICK total \in Nat : total = 8 + p /\ total = (IF a.prefix = <<>> THEN 8 ELSE 9)
  BY <1>2
<1>11. total - Len(P) = w /\ h <= Len(P) /\ Len(P) <= total
  BY <1>8, <1>9, <1>10
<1>12. F = FillGap(ScanState(P, h, dots, base, total))
  BY <1>10
<1>13. /\ F \in Seq(Nat) /\ Len(F) = total
       /\ \A i \in 1..total : F[i] = IF i <= h THEN P[i] ELSE IF i <= h + w THEN 0 ELSE P[i - w]
  <2>1. Filled(F, P, h, total)
    BY <1>8, <1>11, <1>12, FilledIs, Zenon
  <2> QED
    BY <1>11, <2>1 DEF Filled
<1>14. h + w + k + d = 8
  BY <1>9
<1>15. \A i \in 1..f : F[i] = Number(16, a.front[i])
  <2> TAKE i \in 1..f
  <2>1. i \in 1..total /\ i <= h
    BY <1>3, <1>6, <1>10
  <2>2. P[i] = Number(16, a.front[i])
    BY <1>1 DEF FoundParts
  <2> QED
    BY <1>13, <2>1, <2>2
<1>16. \A i \in 1..z : F[f + i] = 0
  <2> TAKE i \in 1..z
  <2>1. PICK j \in 1..total : j = f + i
    BY <1>3, <1>10
  <2>2. CASE j <= h
    <3>1. j = 1 /\ P[1] = 0
      BY <1>6, <2>1, <2>2
    <3> QED
      BY <1>13, <2>1, <2>2, <3>1
  <2>3. CASE h < j /\ j <= h + w
    BY <1>13, <2>1, <2>3
  <2>4. CASE h + w < j
    <3>1. b = 0 /\ d = 0
      BY <1>3, <1>7, <1>14, <2>1, <2>4
    <3>2. j - w = h + 1
      BY <1>3, <1>7, <1>14, <2>1, <2>4, <3>1
    <3>3. ~(j <= h) /\ ~(j <= h + w)
      BY <2>4
    <3>4. F[j] = P[j - w]
      BY <1>13, <3>3
    <3> QED
      BY <1>7, <2>1, <3>1, <3>2, <3>4
  <2> QED
    BY <2>2, <2>3, <2>4
<1>17. \A i \in 1..b : F[f + z + i] = Number(16, a.back[i])
  <2> TAKE i \in 1..b
  <2>1. PICK j \in 1..total : j = f + z + i
    BY <1>3, <1>10
  <2>2. k = b
    BY <1>7
  <2>3. f + z = h + w
    BY <1>3, <1>14, <2>2
  <2>4. i \in Nat /\ i >= 1 /\ j = h + w + i
    BY <2>1, <2>3
  <2>5. ~(j <= h) /\ ~(j <= h + w) /\ j - w = h + i
    BY <2>4
  <2>6. F[j] = P[j - w]
    BY <1>13, <2>5
  <2>7. P[h + i] = Number(16, a.back[i])
    BY <1>1 DEF FoundParts
  <2> QED
    BY <2>1, <2>5, <2>6, <2>7
<1>18. Dotted(a) => F[7] = Low(a, 1) /\ F[8] = Low(a, 3)
  <2> SUFFICES ASSUME Dotted(a) PROVE F[7] = Low(a, 1) /\ F[8] = Low(a, 3)
    OBVIOUS
  <2>1. d = 2
    BY <1>2
  <2>2. P[h + k + 1] = Low(a, 1) /\ P[h + k + 2] = Low(a, 3)
    BY DEF FoundParts
  <2>3. /\ 7 \in 1..total /\ ~(7 <= h) /\ ~(7 <= h + w) /\ 7 - w = h + k + 1
        /\ 8 \in 1..total /\ ~(8 <= h) /\ ~(8 <= h + w) /\ 8 - w = h + k + 2
    BY <1>10, <1>14, <2>1
  <2>4. F[7] = P[7 - w] /\ F[8] = P[8 - w]
    BY <1>13, <2>3
  <2> QED
    BY <2>2, <2>3, <2>4
<1>19. a.prefix # <<>> => F[9] = Number(10, a.prefix[1])
  <2> SUFFICES ASSUME a.prefix # <<>> PROVE F[9] = Number(10, a.prefix[1])
    OBVIOUS
  <2>1. p = 1 /\ d = 0
    BY <1>2 DEF Proper
  <2>2. P[h + k + 1] = Number(10, a.prefix[1])
    BY DEF FoundParts
  <2>3. 9 \in 1..total /\ ~(9 <= h) /\ ~(9 <= h + w) /\ 9 - w = h + k + 1
    BY <1>10, <1>14, <2>1
  <2>4. F[9] = P[9 - w]
    BY <1>13, <2>3
  <2> QED
    BY <2>2, <2>3, <2>4
<1> QED
  BY <1>1, <1>10, <1>13, <1>15, <1>16, <1>17, <1>18, <1>19 DEF AddressParts

\* Without a "::" they are, too.
LEMMA PlainParts ==
  ASSUME NEW a, Proper(a), ~a.gap, NEW z \in Nat, z = 8 - Given(a),
         NEW h \in Nat, NEW k \in Nat, NEW P, FoundParts(a, P, h, k)
  PROVE  AddressParts(a, P, z)
<1>1. PICK f, b \in Nat : f = Len(a.front) /\ b = Len(a.back)
  BY Fits
<1>2. PICK d \in {0, 2}, p \in {0, 1} :
        d = (IF Dotted(a) THEN 2 ELSE 0) /\ p = (IF a.prefix = <<>> THEN 0 ELSE 1)
  OBVIOUS
<1>3. b = 0 /\ z = 0 /\ f + d = 8
  <2>1. Given(a) = f + b + d
    BY <1>1, <1>2 DEF Given
  <2>2. RE_IPV6(a)
    BY DEF Proper
  <2>3. Given(a) = 8 /\ a.back = <<>>
    BY <2>2 DEF RE_IPV6
  <2>4. b = 0
    BY <1>1, <2>3, EmptySeq
  <2> QED
    BY <2>1, <2>3, <2>4
<1>4. h = f /\ k = 0
  BY <1>1, <1>3 DEF FoundParts
<1>5. P \in Seq(Nat) /\ Len(P) = h + k + d + p
  BY <1>2 DEF FoundParts
<1>6. Len(P) = IF a.prefix = <<>> THEN 8 ELSE 9
  <2>1. Len(P) = 8 + p
    BY <1>3, <1>4, <1>5
  <2> QED
    BY <1>2, <2>1
<1>7. \A i \in 1..f : P[i] = Number(16, a.front[i])
  BY <1>1 DEF FoundParts
<1>8. Dotted(a) => P[7] = Low(a, 1) /\ P[8] = Low(a, 3)
  <2> SUFFICES ASSUME Dotted(a) PROVE P[7] = Low(a, 1) /\ P[8] = Low(a, 3)
    OBVIOUS
  <2>1. d = 2
    BY <1>2
  <2>2. h + k + 1 = 7 /\ h + k + 2 = 8
    BY <1>3, <1>4, <2>1
  <2>3. P[h + k + 1] = Low(a, 1) /\ P[h + k + 2] = Low(a, 3)
    BY DEF FoundParts
  <2> QED
    BY <2>2, <2>3
<1>9. a.prefix # <<>> => P[9] = Number(10, a.prefix[1])
  <2> SUFFICES ASSUME a.prefix # <<>> PROVE P[9] = Number(10, a.prefix[1])
    OBVIOUS
  <2>1. d = 0
    BY <1>2 DEF Proper
  <2>2. h + k + 1 = 9
    BY <1>3, <1>4, <2>1
  <2>3. P[h + k + 1] = Number(10, a.prefix[1])
    BY DEF FoundParts
  <2> QED
    BY <2>2, <2>3
<1>10. /\ \A i \in 1..z : P[Len(a.front) + i] = 0
       /\ \A i \in 1..Len(a.back) : P[Len(a.front) + z + i] = Number(16, a.back[i])
  <2>1. 1..z = {} /\ 1..Len(a.back) = {}
    BY <1>1, <1>3
  <2> QED
    BY <2>1, Zenon
<1> QED
  BY <1>1, <1>5, <1>6, <1>7, <1>8, <1>9, <1>10 DEF AddressParts

LEMMA ScanIsAddress ==
  ASSUME NEW a, Proper(a)
  PROVE  scan_ipv6(Written(a)) = Address(a)
<1>1. PICK z \in Nat : z = 8 - Given(a) /\ AddressParts(a, Address(a), z)
  BY AddressIs
<1>2. PICK h, k \in Nat : /\ h = Len(HeadGroups(a)) /\ h + k = HexCount(a)
                          /\ FoundParts(a, Found(a), h, k)
  BY FoundHas
<1>3. PICK dots, base : scan_ipv6(Written(a)) =
           FillGap(ScanState(Found(a), IF a.gap THEN h ELSE -1, dots, base,
                             IF a.prefix = <<>> THEN 8 ELSE 9))
  BY <1>2, EndState
<1>4. PICK S : S = scan_ipv6(Written(a))
  OBVIOUS
<1>5. AddressParts(a, S, z)
  <2>1. CASE a.gap
    <3>1. S = FillGap(ScanState(Found(a), h, dots, base, IF a.prefix = <<>> THEN 8 ELSE 9))
      BY <1>3, <1>4, <2>1
    <3>2. h + k + (IF Dotted(a) THEN 2 ELSE 0) <= 8
      BY <1>2, <2>1, Fits
    <3> QED
      BY <1>1, <1>2, <2>1, <3>1, <3>2, FilledParts
  <2>2. CASE ~a.gap
    <3>1. S = Found(a)
      BY <1>3, <1>4, <2>2, NotFilled
    <3> QED
      BY <1>1, <1>2, <2>2, <3>1, PlainParts
  <2> QED
    BY <2>1, <2>2
<1> QED
  BY <1>1, <1>4, <1>5, SameParts

\* What val_cmp compares two strings of a type by.
LEMMA ScansAddress ==
  ASSUME NEW t \in AddressTypes, NEW s \in Lexed[t], t = "IPV6NET" => ~Dotted(Text[s])
  PROVE  Scan(s, t) = Address(Text[s])
<1>1. t \in NumTypes
  BY DEF AddressTypes, NumTypes
<1>2. s \in Strings
  BY <1>1, StringsAssumption
<1>3. PICK a : a = Text[s]
  OBVIOUS
<1>4. /\ a \in Notations /\ RE_IPV6(a) /\ (t = "IPV6NET" <=> a.prefix # <<>>)
      /\ Parts[t][s] = scan_ipv6(Written(a))
  BY <1>2, <1>3, TextAssumption
<1>5. Proper(a)
  BY <1>3, <1>4 DEF Proper
<1>6. PICK A : A = Address(a)
  OBVIOUS
<1>7. Parts[t][s] = A
  BY <1>4, <1>5, <1>6, ScanIsAddress
<1>8. PICK n \in Nat : n = PartsNum[t] /\ n = IF a.prefix = <<>> THEN 8 ELSE 9
  <2>1. CASE t = "IPV6"
    BY <1>4, <2>1 DEF PartsNum
  <2>2. CASE t = "IPV6NET"
    BY <1>4, <2>2 DEF PartsNum
  <2> QED
    BY <2>1, <2>2 DEF AddressTypes
<1>9. A \in Seq(Nat) /\ Len(A) = n
  BY <1>5, <1>6, <1>8, AddressIs DEF AddressParts
<1>10. Scan(s, t) = [i \in 1..n |-> IF i \in 1..Len(A) THEN A[i] ELSE 0]
  BY <1>7, <1>8, Zenon DEF Scan
<1>11. PICK S : S = Scan(s, t)
  OBVIOUS
<1>12. S \in [1..n -> Nat] /\ \A i \in 1..n : S[i] = A[i]
  BY <1>9, <1>10, <1>11
<1>13. S \in Seq(Nat) /\ Len(S) = n
  BY <1>12, FunctionIsSeq
<1>14. S = A
  BY <1>9, <1>12, <1>13, SeqEqual
<1> QED
  BY <1>3, <1>6, <1>11, <1>14

\* A value of one string is one the lexers gave its type to.
LEMMA SingleIsTyped ==
  ASSUME NEW v \in eval_va, Len(v.vals) = 1
  PROVE  v.types = <<>> /\ Typed(v.val_type, v.vals[1])
<1>1. v \in Singles
  <2> SUFFICES ASSUME NEW n \in 2..MaxList, v \in LiteralLists(n) \cup TextLists(n) PROVE FALSE
    BY DEF eval_va
  <2>1. n \in Nat /\ n >= 2
    BY StringsAssumption
  <2>2. v.vals \in [1..n -> Strings]
    BY DEF LiteralLists, TextLists
  <2>3. n = 1
    BY <2>1, <2>2, FunctionIsSeq
  <2> QED
    BY <2>1, <2>3
<1> QED
  BY <1>1 DEF Singles

\* For every notation and every pair of texts, val_cmp compares two IPv6
\* addresses, or two nets without a dotted end, as the numbers they denote: the
\* single pass of scan_ipv6 over the text, which learns of a "::", of decimals
\* and of a prefix length only as it meets them, finds the address.
THEOREM AddressesAreCompared == Spec => []ComparesAddresses
<1>1. Inv => ComparesAddresses
  <2> SUFFICES ASSUME Inv, NEW t \in AddressTypes, pc = "done", Single(left, t), Single(right, t),
                      t = "IPV6NET" => ~Dotted(Text[left.vals[1]]) /\ ~Dotted(Text[right.vals[1]])
               PROVE  ret <=> Holds(cond, FirstDifference(Address(Text[left.vals[1]]),
                                                          Address(Text[right.vals[1]])))
    BY DEF ComparesAddresses
  <2>1. t \notin ScannedTypes \cup {"TEXT"}
    BY DEF AddressTypes, ScannedTypes
  <2>2. /\ left \in eval_va /\ right \in eval_va
        /\ left.val_type = t /\ Len(left.vals) = 1
        /\ right.val_type = t /\ Len(right.vals) = 1
    BY DEF Inv, TypeOK, Single
  <2>3. /\ left.types = <<>> /\ Typed(t, left.vals[1])
        /\ right.types = <<>> /\ Typed(t, right.vals[1])
    BY <2>2, SingleIsTyped
  <2>4. PICK l, r : l = left.vals[1] /\ r = right.vals[1]
    OBVIOUS
  <2>5. l \in Lexed[t] /\ r \in Lexed[t]
    BY <2>1, <2>3, <2>4 DEF Typed
  <2>6. Order(t, l, r) = FirstDifference(Address(Text[l]), Address(Text[r]))
    <3>1. Scan(l, t) = Address(Text[l]) /\ Scan(r, t) = Address(Text[r])
      BY <2>4, <2>5, ScansAddress
    <3> QED
      BY <2>1, <3>1 DEF Order, Empty
  <2>7. PairHolds(1, 1) <=> Holds(cond, Order(t, l, r))
    BY <2>2, <2>4 DEF PairHolds
  <2>8. ~Counts
    BY <2>1, <2>2 DEF Counts, ScannedTypes
  <2>9. Candidates = {1}
    BY <2>2, <2>3 DEF Candidates, Comparable
  <2>10. Meaning <=> PairHolds(1, 1)
    <3>1. 1..Len(left.vals) = {1}
      BY <2>2
    <3>2. AllPairs <=> PairHolds(1, 1)
      BY <2>9, <3>1, Zenon DEF AllPairs
    <3>3. LastIsIn <=> PairHolds(1, 1)
      BY <2>2, <2>9, Zenon DEF LastIsIn
    <3> QED
      BY <2>2, <2>8, <3>2, <3>3, Zenon DEF Meaning
  <2>11. ret <=> Meaning
    BY DEF Inv, ReturnsMeaning
  <2> QED
    BY <2>4, <2>6, <2>7, <2>10, <2>11, Zenon
<1> QED
  BY <1>1, Invariant, PTL
=============================================================================
