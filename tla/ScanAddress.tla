---------------------------- MODULE ScanAddress ----------------------------
(***************************************************************************)
(* Reading the numbers of a value: sscanf with the formats of cond_formats *)
(* and scan_ipv6 (src/src/cliexec/cli_new.c).                              *)
(*                                                                         *)
(* A text is a sequence of items, each the digits of a number (possibly    *)
(* none) and the separator behind it: ":", "::", ".", "/" or "end".        *)
(***************************************************************************)
EXTENDS Integers, Sequences

Item(digits, sep) == [digits |-> digits, sep |-> sep]

Number(base, digits) ==
  LET num[i \in 0..Len(digits)] == IF i = 0 THEN 0 ELSE num[i - 1] * base + digits[i]
  IN  num[Len(digits)]

-----------------------------------------------------------------------------
\* A number sscanf accepts as %u: at least one digit, all decimal.
IsDecimal(item) == item.digits # <<>> /\ \A i \in DOMAIN item.digits : item.digits[i] < 10

\* "%u.%u...": the decimals at the start, with a dot between them, at most max.
Decimals(text, max) ==
  LET Fits(n) == /\ \A i \in 1..n : IsDecimal(text[i])
                 /\ \A i \in 1..n - 1 : text[i].sep = "."
      n == CHOOSE k \in 0..max : /\ k <= Len(text) /\ Fits(k)
                                 /\ \A j \in k + 1..max : j > Len(text) \/ ~Fits(j)
  IN  [i \in 1..n |-> Number(10, text[i].digits)]

-----------------------------------------------------------------------------
\* Where scan_ipv6 is: dot_dot_pos is -1 before a "::".
ScanStart == [parts |-> <<>>, dot_dot_pos |-> -1, dot_cnt |-> 0, base |-> 16, total |-> 8]

\* "turn out it was decimal, convert our wrong hex interpretation"
FromHex(num) == (num \div 256) * 100 + ((num % 256) \div 16) * 10 + (num % 16)

\* The separator behind a number.
Separate(st, sep) ==
  [st EXCEPT
     !.dot_cnt = IF sep = "." THEN @ + 1 ELSE @,
     !.base = IF sep = "/" \/ (sep = "." /\ st.dot_cnt = 0) THEN 10 ELSE @,
     !.total = IF sep = "/" THEN 9 ELSE @,
     !.dot_dot_pos = IF sep = "::" THEN Len(st.parts) + 1 ELSE @]

\* Two decimals are one part: after the second dot, and after the fourth number.
Combines(st, sep) == st.dot_cnt = 2 \/ (st.dot_cnt = 3 /\ sep \in {"/", "end"})

CloseNumber(old, item) ==
  LET read == Number(old.base, item.digits)
      num == IF item.sep = "." /\ old.dot_cnt = 0 THEN FromHex(read) ELSE read
      st == Separate(old, item.sep)
      n == Len(st.parts)
  IN  IF Combines(st, item.sep) THEN [st EXCEPT !.parts[n] = @ * 256 + num]
      ELSE [st EXCEPT !.parts = Append(@, num)]

\* Mutant: the zeroes go in front of the number before the "::".
FillEarly(st) ==
  IF st.dot_dot_pos = -1 THEN st.parts
  ELSE SubSeq(st.parts, 1, st.dot_dot_pos - 1)
       \o [i \in 1..st.total - Len(st.parts) |-> 0]
       \o SubSeq(st.parts, st.dot_dot_pos, Len(st.parts))

\* "replace '::' with 0s"
FillGap(st) ==
  IF st.dot_dot_pos = -1 THEN st.parts
  ELSE SubSeq(st.parts, 1, st.dot_dot_pos)
       \o [i \in 1..st.total - Len(st.parts) |-> 0]
       \o SubSeq(st.parts, st.dot_dot_pos + 1, Len(st.parts))

scan_ipv6(text) ==
  LET st[i \in 0..Len(text)] == IF i = 0 THEN ScanStart ELSE CloseNumber(st[i - 1], text[i])
  IN  FillGap(st[Len(text)])
=============================================================================
