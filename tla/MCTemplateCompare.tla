------------------------- MODULE MCTemplateCompare -------------------------
(***************************************************************************)
(* TemplateCompare for TLC, over texts in the order of strcmp: numbers     *)
(* ("10" comes before "9" as text and after it as a number) and addresses  *)
(* with a "::" at every kind of place and with a dotted end.               *)
(***************************************************************************)
EXTENDS CompareAddresses

\* A text by its parts: groups before and after a "::", the four numbers of a
\* dotted end, a prefix length.  Numbers are sequences of digits.
T(front, gap, back, quad, prefix) ==
  [front |-> front, gap |-> gap, back |-> back, quad |-> quad, prefix |-> prefix]

ten == <<1, 0>>
ffff == <<15, 15, 15, 15>>
a00 == <<10, 0, 0>>
One(d) == <<<<d>>>>
Quad == <<ten, <<0>>, <<0>>, <<7>>>>
Upto(m, n) == [i \in 1..n - m + 1 |-> <<m + i - 1>>]

Texts == <<
  T(<<ten>>, FALSE, <<>>, <<>>, <<>>),                  \* 10
  T(<<>>, FALSE, <<>>, Quad, <<>>),                     \* 10.0.0.7
  T(Upto(1, 6), FALSE, <<>>, Quad, <<>>),               \* 1:2:3:4:5:6:10.0.0.7
  T(Upto(1, 6), FALSE, <<>>, Quad, One(7)),             \* 1:2:3:4:5:6:10.0.0.7/7
  T(Upto(1, 8), FALSE, <<>>, <<>>, <<>>),               \* 1:2:3:4:5:6:7:8
  T(Upto(1, 7), TRUE, <<>>, <<>>, <<>>),                \* 1:2:3:4:5:6:7::
  T(Upto(1, 6), TRUE, One(8), <<>>, <<>>),              \* 1:2:3:4:5:6::8
  T(One(1), TRUE, <<>>, <<>>, <<>>),                    \* 1::
  T(One(9), FALSE, <<>>, <<>>, <<>>),                   \* 9
  T(One(9), TRUE, <<>>, <<>>, One(7)),                  \* 9::/7
  T(One(9), TRUE, <<<<1>>, <<0>>, <<1>>>>, <<>>, <<>>), \* 9::1:0:1
  T(<<>>, TRUE, <<>>, <<>>, <<>>),                      \* ::
  T(<<>>, TRUE, <<>>, <<>>, One(0)),                    \* ::/0
  T(<<>>, TRUE, <<>>, Quad, <<>>),                      \* ::10.0.0.7
  T(<<>>, TRUE, <<>>, Quad, One(7)),                    \* ::10.0.0.7/7
  T(<<>>, TRUE, Upto(2, 8), <<>>, One(7)),              \* ::2:3:4:5:6:7:8/7
  T(<<>>, TRUE, One(9), <<>>, <<>>),                    \* ::9
  T(<<>>, TRUE, <<a00, <<7>>>>, <<>>, <<>>),            \* ::a00:7
  T(<<>>, TRUE, <<ffff>>, Quad, <<>>)                   \* ::ffff:10.0.0.7
>>

MCStrings == 0..Len(Texts)
MCText == [s \in MCStrings |-> IF s = 0 THEN T(<<>>, FALSE, <<>>, <<>>, <<>>) ELSE Texts[s]]

MCParts == [t \in NumTypes |-> [s \in MCStrings |->
  IF t \in ScannedTypes THEN Decimals(Written(MCText[s]), PartsNum[t])
  ELSE scan_ipv6(Written(MCText[s]))]]

MCLexed == [t \in NumTypes |-> {s \in MCStrings :
  LET a == MCText[s] IN
  CASE t = "INT" -> Len(a.front) = 1 /\ ~a.gap /\ ~Dotted(a)
    [] t = "IPV4" -> Dotted(a) /\ ~a.gap /\ a.front = <<>>
    [] t = "IPV6" -> RE_IPV6(a) /\ a.prefix = <<>>
    [] t = "IPV6NET" -> RE_IPV6(a) /\ a.prefix # <<>>}]

\* Every pair of single values, and every pair of lists of numbers, a text and
\* a net.
Listed == {0, 1, 2, 9, 10}
SingleValues == {v \in eval_va : Len(v.vals) = 1}
ListedValues == {v \in eval_va : \A i \in DOMAIN v.vals : v.vals[i] \in Listed}
MCInit == \E values \in {SingleValues, ListedValues} : Start(values)
MCSpec == MCInit /\ [][Next]_vars
=============================================================================
