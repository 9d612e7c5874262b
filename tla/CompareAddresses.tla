-------------------------- MODULE CompareAddresses --------------------------
(***************************************************************************)
(* Comparing IPv6 addresses: TemplateCompare where the numbers of a value  *)
(* are the ones scan_ipv6 finds in its text.                               *)
(*                                                                         *)
(* An address can be written in many ways.  A text is given by the parts   *)
(* of its notation, those of the patterns of the lexer                     *)
(* (src/src/cliexec/cli_val.l); a number in it is the sequence of its      *)
(* digits.                                                                 *)
(***************************************************************************)
EXTENDS TemplateCompare, ScanAddress

CONSTANT Text   \* the notation of each string

\* Numbers of one to max digits.  The patterns also bound the value of a byte
\* and of a prefix length, which scan_ipv6 does not look at.
Digits(base, max) == UNION {[1..n -> 0..base - 1] : n \in 1..max}

RE_H16 == Digits(16, 4)
RE_IPV4_BYTE == Digits(10, 3)
RE_IPV6_PREFIXLEN == Digits(10, 3)

\* The groups before and after a "::", the four numbers of a dotted end, the
\* prefix length.
Notations ==
  [front : Seq(RE_H16), gap : BOOLEAN, back : Seq(RE_H16),
   quad : {<<>>} \cup [1..4 -> RE_IPV4_BYTE], prefix : {<<>>} \cup [1..1 -> RE_IPV6_PREFIXLEN]]

Dotted(a) == a.quad # <<>>

\* The groups of 16 bits that are written out.
Given(a) == Len(a.front) + Len(a.back) + (IF Dotted(a) THEN 2 ELSE 0)

\* "::" stands for one group or more.
RE_IPV6(a) == IF a.gap THEN Given(a) <= 7 ELSE Given(a) = 8 /\ a.back = <<>>

\* The text as scan_ipv6 meets it: there is a number, without digits, in front
\* of and behind a "::" at the ends.
Written(a) ==
  LET head == IF a.gap /\ a.front = <<>> THEN <<<<>>>> ELSE a.front
      rest == a.back \o a.quad
      tail == IF rest = <<>> /\ (a.gap \/ head = <<>>) THEN <<<<>>>> ELSE rest
      all == head \o tail \o a.prefix
      Sep(i) == IF i = Len(all) THEN "end"
                ELSE IF i = Len(head \o tail) THEN "/"
                ELSE IF a.gap /\ i = Len(head) THEN "::"
                ELSE IF i > Len(head \o tail) - Len(a.quad) THEN "."
                ELSE ":"
  IN  [i \in DOMAIN all |-> Item(all[i], Sep(i))]

AddressTypes == {"IPV6", "IPV6NET"}

ASSUME TextAssumption ==
  /\ Text \in [Strings -> Notations]
  /\ \A t \in AddressTypes, s \in Strings : Parts[t][s] = scan_ipv6(Written(Text[s]))
  /\ \A t \in AddressTypes : \A s \in Lexed[t] :
       RE_IPV6(Text[s]) /\ (t = "IPV6NET" <=> Text[s].prefix # <<>>)

-----------------------------------------------------------------------------
\* What an address is, from its notation.
Address(a) ==
  LET Hex(groups) == [i \in DOMAIN groups |-> Number(16, groups[i])]
      Octet(i) == Number(10, a.quad[i])
      low == IF Dotted(a) THEN <<Octet(1) * 256 + Octet(2), Octet(3) * 256 + Octet(4)>> ELSE <<>>
  IN  Hex(a.front) \o [i \in 1..8 - Given(a) |-> 0] \o Hex(a.back) \o low
      \o [i \in DOMAIN a.prefix |-> Number(10, a.prefix[i])]

Single(v, t) == v.val_type = t /\ Len(v.vals) = 1

\* Two IPv6 addresses or nets are compared as the numbers they denote, however
\* they are written.  A net with a dotted end is left out: scan_ipv6 combines
\* its prefix length with the last two decimals.
ComparesAddresses ==
  \A t \in AddressTypes :
    LET l == Text[left.vals[1]] r == Text[right.vals[1]] IN
    /\ pc = "done" /\ Single(left, t) /\ Single(right, t)
    /\ t = "IPV6NET" => ~Dotted(l) /\ ~Dotted(r)
    => (ret <=> Holds(cond, FirstDifference(Address(l), Address(r))))
=============================================================================
