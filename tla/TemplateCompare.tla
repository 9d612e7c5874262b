--------------------------- MODULE TemplateCompare ---------------------------
(***************************************************************************)
(* Comparing two values in a template expression: check_comp and val_cmp   *)
(* (src/src/cliexec/cli_new.c), as the loop over pairs that val_cmp is.    *)
(*                                                                         *)
(* A string is abstracted to its rank in the order of strcmp, a natural    *)
(* number with 0 for "", and to the numbers that are found in it when it   *)
(* is read as a value of a type (Parts).  TEXT stands for the types that   *)
(* are compared with strcmp, IPV4 for the other types that sscanf reads    *)
(* into several numbers: they differ only in how many.                     *)
(***************************************************************************)
EXTENDS Integers, Sequences

CONSTANTS
  Strings,   \* the strings that occur, by their rank under strcmp; 0 is ""
  Parts,     \* the numbers found in each, by the type it is read as
  Lexed,     \* the strings the lexers give each type to
  MaxList    \* bound on the length of a list of values

\* Read with sscanf, which may find nothing, and with scan_ipv6.
ScannedTypes == {"INT", "IPV4"}
NumTypes == ScannedTypes \cup {"IPV6", "IPV6NET"}
Types == NumTypes \cup {"TEXT"}

PartsNum == [INT |-> 1, IPV4 |-> 4, IPV6 |-> 8, IPV6NET |-> 9]

Conds ==
  {"EQ_COND", "NE_COND", "LT_COND", "LE_COND", "GT_COND", "GE_COND", "IN_COND"}

\* The two results of a comparison under which each condition holds.
cond1 == [EQ_COND |-> 0, NE_COND |-> -1, LT_COND |-> -1, LE_COND |-> 0,
          GT_COND |-> 1, GE_COND |-> 0, IN_COND |-> 0]
cond2 == [EQ_COND |-> 0, NE_COND |-> 1, LT_COND |-> -1, LE_COND |-> -1,
          GT_COND |-> 1, GE_COND |-> 1, IN_COND |-> 0]

ASSUME StringsAssumption ==
  /\ Strings \subseteq Nat /\ 0 \in Strings
  /\ Parts \in [NumTypes -> [Strings -> Seq(Nat)]]
  /\ Lexed \in [NumTypes -> SUBSET Strings]
  /\ \A t \in NumTypes : \A s \in Lexed[t] : Parts[t][s] # <<>>
  /\ MaxList \in Nat

-----------------------------------------------------------------------------
(* The values eval_va can produce.  vals has one element for a single      *)
(* value; a list has two or more, since add_val and char2val_text make one *)
(* only then.  types is val_types: empty for NULL.                         *)

\* A string the lexers can give this type to.
Typed(t, s) == t = "TEXT" \/ s \in Lexed[t]

\* A literal, $VAR(@), a reference to one value, or the output of a command.
Singles ==
  {v \in [val_type : Types, vals : [1..1 -> Strings], types : {<<>>}, ismulti : BOOLEAN] :
     Typed(v.val_type, v.vals[1])}

\* Literals joined by add_val, which keeps the type of the first as val_type
\* and does not look at the others.
LiteralLists(n) ==
  {v \in [val_type : Types, vals : [1..n -> Strings], types : [1..n -> Types],
          ismulti : {FALSE}] :
     v.val_type = v.types[1] /\ \A i \in 1..n : Typed(v.types[i], v.vals[i])}

\* A reference whose text was split at spaces; char2val_text leaves the types
\* of the lines of $VAR(@) at ERROR_TYPE.
TextLists(n) ==
  [val_type : {"TEXT"}, vals : [1..n -> Strings], types : {[i \in 1..n |-> "TEXT"]},
   ismulti : BOOLEAN]
  \cup [val_type : {"TEXT"}, vals : [1..n -> Strings], types : {[i \in 1..n |-> "ERROR"]},
        ismulti : {FALSE}]

eval_va == Singles \cup UNION {LiteralLists(n) \cup TextLists(n) : n \in 2..MaxList}

\* The field cnt, which is 0 for a single value.
cnt(v) == IF Len(v.vals) = 1 THEN 0 ELSE Len(v.vals)

-----------------------------------------------------------------------------
(* Comparing one pair.                                                     *)

Sign(n) == IF n > 0 THEN 1 ELSE IF n < 0 THEN -1 ELSE 0

\* The array that is filled, from zeroes, when s is read as a t.
Scan(s, t) ==
  [i \in 1..PartsNum[t] |-> IF i \in 1..Len(Parts[t][s]) THEN Parts[t][s][i] ELSE 0]

\* lhs_empty, rhs_empty: sscanf found no number.
Empty(t, s) == t \in ScannedTypes /\ Parts[t][s] = <<>>

\* The multistep compare: the first part in which the two differ decides.
FirstDifference(p, q) ==
  IF p = q THEN 0
  ELSE LET k == CHOOSE i \in DOMAIN p :
                  p[i] # q[i] /\ \A j \in DOMAIN p : j < i => p[j] = q[j]
       IN  Sign(p[k] - q[k])

\* res after comparing l with r as values of type t.  It is not reset between
\* pairs: when neither has a number, what an earlier pair left is used.
PairResult(t, l, r, old) ==
  IF t = "TEXT" THEN Sign(l - r)
  ELSE IF Empty(t, r) THEN (IF Empty(t, l) THEN old ELSE 1)
  ELSE IF Empty(t, l) THEN -1
  ELSE FirstDifference(Scan(l, t), Scan(r, t))

\* Mutant: the second table is forgotten.
SatisfiesFirst(res, cond) == res = cond1[cond]

Satisfies(res, cond) == res = cond1[cond] \/ res = cond2[cond]

\* Mutant: the check of the type is dropped.
ComparableAlways(t, right, i) == TRUE

\* "Don't bother comparing if these are different types."
Comparable(t, right, i) ==
  right.types # <<>> => right.types[i] \in {"ERROR", t}

-----------------------------------------------------------------------------
VARIABLES
  pc,            \* "check", "loop" or "done"
  left, right,   \* the two values
  cond,          \* the operator between them
  lcur, rcur,    \* the pair val_cmp has come to
  res,           \* result of the last pair compared
  ret            \* what is returned if nothing else is compared

vars == <<pc, left, right, cond, lcur, rcur, res, ret>>
input == <<left, right, cond>>

\* Every variable stays in its range; the cursors of val_cmp stay in the lists.
TypeOK ==
  /\ pc \in {"check", "loop", "done"}
  /\ left \in eval_va /\ right \in eval_va
  /\ cond \in Conds
  /\ lcur \in 1..Len(left.vals) /\ rcur \in 1..Len(right.vals)
  /\ res \in {-1, 0, 1}
  /\ ret \in BOOLEAN

Start(values) ==
  /\ pc = "check"
  /\ left \in values /\ right \in values
  /\ cond \in Conds
  /\ lcur = 1 /\ rcur = 1
  /\ res = 0
  /\ ret = FALSE

Init == Start(eval_va)

\* Values of different types are not compared, except with a multi node on the
\* left.
check_comp ==
  /\ pc = "check"
  /\ pc' = IF left.val_type # right.val_type /\ ~left.ismulti THEN "done" ELSE "loop"
  /\ UNCHANGED <<left, right, cond, lcur, rcur, res, ret>>

\* A multi node against an integer: the number of values is compared.
Counts == left.ismulti /\ cond # "IN_COND" /\ cnt(right) = 0 /\ right.val_type = "INT"

CompareCount ==
  /\ pc = "loop" /\ Counts
  /\ ret' = Satisfies(Sign(cnt(left) - Parts["INT"][right.vals[1]][1]), cond)
  /\ pc' = "done"
  /\ UNCHANGED <<left, right, cond, lcur, rcur, res>>

\* On with the next value of the left, or out of both loops.
NextLeft ==
  IF lcur < Len(left.vals)
  THEN lcur' = lcur + 1 /\ rcur' = 1 /\ UNCHANGED pc
  ELSE pc' = "done" /\ UNCHANGED <<lcur, rcur>>

\* On with the next value of the right.
Advance ==
  IF rcur < Len(right.vals)
  THEN rcur' = rcur + 1 /\ UNCHANGED <<pc, lcur>>
  ELSE NextLeft

SkipPair ==
  /\ pc = "loop" /\ ~Counts
  /\ ~Comparable(left.val_type, right, rcur)
  /\ Advance
  /\ UNCHANGED <<left, right, cond, res, ret>>

ComparePair ==
  /\ pc = "loop" /\ ~Counts
  /\ Comparable(left.val_type, right, rcur)
  /\ res' = PairResult(left.val_type, left.vals[lcur], right.vals[rcur], res)
  /\ ret' = Satisfies(res', cond)
  /\ CASE ret' /\ cond = "IN_COND" -> NextLeft
       [] ~ret' /\ cond # "IN_COND" -> pc' = "done" /\ UNCHANGED <<lcur, rcur>>
       [] OTHER -> Advance
  /\ UNCHANGED input

Returned == pc = "done" /\ UNCHANGED vars

Next == check_comp \/ CompareCount \/ SkipPair \/ ComparePair \/ Returned

Spec == Init /\ [][Next]_vars

-----------------------------------------------------------------------------
(* What a comparison means, without the loop.                              *)

\* The order of two values of a type; one that has no number comes before all
\* that have one.
Order(t, l, r) ==
  IF t = "TEXT" THEN Sign(l - r)
  ELSE IF Empty(t, l) /\ Empty(t, r) THEN 0
  ELSE IF Empty(t, r) THEN 1
  ELSE IF Empty(t, l) THEN -1
  ELSE FirstDifference(Scan(l, t), Scan(r, t))

Holds(c, o) ==
  CASE c = "EQ_COND" -> o = 0
    [] c = "NE_COND" -> o # 0
    [] c = "LT_COND" -> o < 0
    [] c = "LE_COND" -> o <= 0
    [] c = "GT_COND" -> o > 0
    [] c = "GE_COND" -> o >= 0
    [] c = "IN_COND" -> o = 0

\* Value i of the left and value j of the right satisfy the condition.
PairHolds(i, j) == Holds(cond, Order(left.val_type, left.vals[i], right.vals[j]))

Candidates == {j \in 1..Len(right.vals) : Comparable(left.val_type, right, j)}

\* Every pair of comparable values satisfies the condition, and there is one.
AllPairs ==
  /\ Candidates # {}
  /\ \A i \in 1..Len(left.vals), j \in Candidates : PairHolds(i, j)

\* The last value of the left is among the comparable values of the right.
LastIsIn == \E j \in Candidates : PairHolds(Len(left.vals), j)

Meaning ==
  IF left.val_type # right.val_type /\ ~left.ismulti THEN FALSE
  ELSE IF Counts THEN Holds(cond, Sign(cnt(left) - Parts["INT"][right.vals[1]][1]))
  ELSE IF cond = "IN_COND" THEN LastIsIn
  ELSE AllPairs

\* The loop of val_cmp, with its early exits and skipped pairs, returns what
\* the condition means for the two values.
ReturnsMeaning == pc = "done" => (ret <=> Meaning)

\* A pair is never judged by the result of an earlier one, although res is not
\* reset between pairs: two values without a number are never compared as
\* numbers.
NoStaleResult ==
  /\ pc = "loop" /\ ~Counts
  /\ Comparable(left.val_type, right, rcur)
  /\ left.val_type # "TEXT"
  => ~(Empty(left.val_type, left.vals[lcur]) /\ Empty(left.val_type, right.vals[rcur]))
=============================================================================
