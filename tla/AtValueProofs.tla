--------------------------- MODULE AtValueProofs ----------------------------
(***************************************************************************)
(* Theorems about ExpandString and AtValue: for strings, values, texts and *)
(* types of every kind and length and any number of calls, nothing is      *)
(* written behind a buffer or a list, the strings of a value are freed     *)
(* once, all of them, and not before the action is over, and a value holds *)
(* what its text means.                                                    *)
(***************************************************************************)
EXTENDS AtValue, SequenceTheorems, FiniteSetTheorems, WellFoundedInduction, TLAPS

-----------------------------------------------------------------------------
(* expand_string. *)

\* There is room for a character and the termination where one is copied, and
\* for the termination at the end.
Room ==
  /\ pc = "item" => left >= 2
  /\ pc = "end" => left >= 1

\* Without a failed realloc the code knows the size of its buffer.
Known == ~failed => alloc = exe_string_len

\* The inductive invariant.
Inv == TypeOK /\ Room /\ Known /\ WritesInBuffer /\ LeftIsRest

LEMMA ItemLength == \A i \in Items : i.len \in Nat
BY ExpandAssumption DEF Items

LEMMA InputsAreStrings ==
  ASSUME NEW s \in Inputs
  PROVE  s \in Seq(Items) /\ s # <<>>
<1>1. PICK n \in 1..MaxItems : s \in [1..n -> Items]
  BY DEF Inputs
<1>2. n \in Nat /\ n >= 1
  BY ExpandAssumption
<1>3. s \in Seq(Items)
  BY <1>1, <1>2, SeqDef
<1>4. DOMAIN s = 1..n /\ DOMAIN s = 1..Len(s) /\ Len(s) \in Nat
  BY <1>1, <1>3, LenProperties
<1>5. Len(s) = n
  BY <1>2, <1>4
<1> QED
  BY <1>2, <1>3, <1>5, EmptySeq

LEMMA InitInv == Init => Inv
<1> SUFFICES ASSUME Init PROVE Inv
  OBVIOUS
<1>1. todo \in Seq(Items)
  BY EmptySeq DEF Init
<1>2. failed \in BOOLEAN
  BY Zenon DEF Init
<1>3. TypeOK
  BY <1>1, <1>2 DEF Init, TypeOK
<1>4. Room /\ Known /\ WritesInBuffer /\ LeftIsRest
  BY DEF Init, Room, Known, WritesInBuffer, LeftIsRest
<1> QED
  BY <1>3, <1>4 DEF Inv

\* What an item leaves behind.
LEMMA NextItemKeeps ==
  ASSUME TypeOK, pc \in {"item", "room"}, NextItem
  PROVE  /\ todo' \in Seq(Items)
         /\ pc' \in {"top", "end"}
         /\ pc' = "top" => todo' # <<>>
BY HeadTailProperties DEF TypeOK, NextItem

LEMMA NextInv == Inv /\ [Next]_vars => Inv'
<1> SUFFICES ASSUME Inv, [Next]_vars PROVE Inv'
  OBVIOUS
<1> USE ExpandAssumption
<1>1. CASE Call
  <2>1. todo' \in Seq(Items) /\ todo' # <<>>
    BY <1>1, InputsAreStrings DEF Call
  <2> QED
    BY <1>1, <2>1 DEF Call, Inv, TypeOK, Room, Known, WritesInBuffer, LeftIsRest
<1>2. CASE HasRoom
  BY <1>2 DEF HasRoom, Inv, TypeOK, Room, Known, WritesInBuffer, LeftIsRest, buffer, result
<1>3. ASSUME ReallocFails PROVE Inv'
  BY <1>3 DEF ReallocFails, Return, Inv, TypeOK, Room, Known, WritesInBuffer, LeftIsRest
<1>4. CASE MakeRoom
  <2>1. CASE GrowBuffer /\ pc' = "item" /\ UNCHANGED <<off, top, todo, result>>
    BY <1>4, <2>1
    DEF MakeRoom, GrowBuffer, Inv, TypeOK, Room, Known, WritesInBuffer, LeftIsRest, result
  <2> QED
    BY <1>3, <1>4, <2>1 DEF MakeRoom
<1>5. CASE CopyChar
  <2>1. todo' \in Seq(Items) /\ pc' \in {"top", "end"} /\ (pc' = "top" => todo' # <<>>)
    BY <1>5, NextItemKeeps DEF CopyChar, Inv
  <2>2. left >= 2 /\ left' = left - 1 /\ off' = off + 1
    BY <1>5 DEF CopyChar, Inv, Room
  <2>3. top' = IF off + 1 > top THEN off + 1 ELSE top
    BY <1>5 DEF CopyChar, Wrote
  <2>4. UNCHANGED <<alloc, exe_string_len, ret, failed, calls>>
    BY <1>5 DEF CopyChar, result
  <2>5. pc \notin {"idle"}
    BY <1>5 DEF CopyChar
  <2> QED
    BY <2>1, <2>2, <2>3, <2>4, <2>5
    DEF Inv, TypeOK, Room, Known, WritesInBuffer, LeftIsRest
<1>6. CASE NotClosed
  BY <1>6
  DEF NotClosed, Return, Inv, TypeOK, Room, Known, WritesInBuffer, LeftIsRest, buffer
<1>7. CASE GetValue
  BY <1>7
  DEF GetValue, Inv, TypeOK, Room, Known, WritesInBuffer, LeftIsRest, buffer, result
<1>12. CASE EmptyPath
  BY <1>12
  DEF EmptyPath, Inv, TypeOK, Room, Known, WritesInBuffer, LeftIsRest, buffer, result
<1>8. CASE MakeRoomForValue
  <2>1. CASE GrowBuffer /\ UNCHANGED <<off, top, todo, pc, result>>
    BY <1>8, <2>1
    DEF MakeRoomForValue, GrowBuffer, Inv, TypeOK, Room, Known, WritesInBuffer,
        LeftIsRest, result
  <2> QED
    BY <1>3, <1>8, <2>1 DEF MakeRoomForValue
<1>9. CASE CopyValue
  <2> DEFINE len == Head(todo).len
  <2>1. todo' \in Seq(Items) /\ pc' \in {"top", "end"} /\ (pc' = "top" => todo' # <<>>)
    BY <1>9, NextItemKeeps DEF CopyValue, Inv
  <2>2. len \in Nat
    BY <1>9, HeadTailProperties, ItemLength DEF CopyValue, Inv, TypeOK
  <2>3. len + 1 <= left /\ left' = left - len /\ off' = off + len
    BY <1>9 DEF CopyValue, Fits
  <2>4. top' = IF off + len + 1 > top THEN off + len + 1 ELSE top
    BY <1>9 DEF CopyValue, Wrote
  <2>5. UNCHANGED <<alloc, exe_string_len, ret, failed, calls>>
    BY <1>9 DEF CopyValue, result
  <2>6. pc \notin {"idle"}
    BY <1>9 DEF CopyValue
  <2> HIDE DEF len
  <2> QED
    BY <2>1, <2>2, <2>3, <2>4, <2>5, <2>6
    DEF Inv, TypeOK, Room, Known, WritesInBuffer, LeftIsRest
<1>10. CASE Terminate
  BY <1>10
  DEF Terminate, Return, Wrote, Inv, TypeOK, Room, Known, WritesInBuffer, LeftIsRest, buffer
<1>11. CASE UNCHANGED vars
  BY <1>11 DEF vars, Inv, TypeOK, Room, Known, WritesInBuffer, LeftIsRest
<1> QED
  BY <1>1, <1>2, <1>4, <1>5, <1>6, <1>7, <1>8, <1>9, <1>10, <1>11, <1>12 DEF Next, Done

LEMMA Invariant == Spec => []Inv
BY InitInv, NextInv, PTL DEF Spec

\* For every string, every value and every history of calls, expand_string
\* writes nothing behind its buffer as long as memory lasts.
THEOREM StaysInBuffer == Spec => []WritesInBuffer
<1>1. Inv => WritesInBuffer
  BY DEF Inv
<1> QED
  BY <1>1, Invariant, PTL

\* The code's count of the bytes left is exact.
THEOREM CountIsExact == Spec => []LeftIsRest
<1>1. Inv => LeftIsRest
  BY DEF Inv
<1> QED
  BY <1>1, Invariant, PTL

-----------------------------------------------------------------------------
(* To expand_string, char2val and the action are nothing but its callers.  *)

LEMMA ExpandRefined == AtSpec => Spec
<1>1. AtInit => Init
  BY DEF AtInit
<1>2. [AtNext]_atVars => [Next]_vars
  <2> SUFFICES ASSUME [AtNext]_atVars PROVE [Next]_vars
    OBVIOUS
  <2>1. CASE UNCHANGED expand
    BY <2>1 DEF expand, vars
  <2>2. CASE ExpandHelp \/ ExpandCommand
    BY <2>2 DEF ExpandHelp, ExpandCommand, Next
  <2>3. CASE ExpandStep
    BY <2>3 DEF ExpandStep, Next
  <2>4. CASE UNCHANGED atVars
    BY <2>1, <2>4 DEF atVars
  <2> QED
    BY <2>1, <2>2, <2>3, <2>4
    DEF AtNext, Char2Val, NotAValue, ValueOfWrongType, TakeFirst, TakeNext, Unexpected,
        ReadSeparator, OneLine, SeveralLines, AddLine, FreeVal, Over
<1> QED
  BY <1>1, <1>2, PTL DEF AtSpec, Spec

\* Called for help texts and commands as execute_list calls it, expand_string
\* writes nothing behind its buffer.
THEOREM ActionsStayInBuffer == AtSpec => []WritesInBuffer
BY ExpandRefined, StaysInBuffer, PTL

\* Nor does its count of the bytes left go wrong.
THEOREM ActionsCountExactly == AtSpec => []LeftIsRest
BY ExpandRefined, CountIsExact, PTL

-----------------------------------------------------------------------------
(* Room in a list of values. *)

\* The only multiple of M between 0 and M - 1 is 0.
LEMMA SmallMultiple ==
  ASSUME NEW M \in Nat \ {0}, NEW k \in Int, 0 <= M * k, M * k < M
  PROVE  k = 0
<1>1. ASSUME k >= 1 PROVE FALSE
  <2>1. M * k = M + M * (k - 1)
    BY SMT
  <2>2. M * (k - 1) >= 0
    BY <1>1, SMT
  <2> QED
    BY <2>1, <2>2, SMT
<1>2. ASSUME k <= -1 PROVE FALSE
  <2>1. M * k = M * (k + 1) - M
    BY SMT
  <2>2. M * (k + 1) <= 0
    BY <1>2, SMT
  <2> QED
    BY <2>1, <2>2, SMT
<1> QED
  BY <1>1, <1>2, SMT

Steps(room) == \E q \in Nat : room = MULTI_ALLOC * q

\* A list that is as long as its room is found to be full.
LEMMA FullIsFound ==
  ASSUME NEW n \in Nat, Steps(n)
  PROVE  Full(n)
<1>1. MULTI_ALLOC \in Nat \ {0}
  BY AtValueAssumption
<1>2. PICK q \in Nat : n = MULTI_ALLOC * q
  BY DEF Steps
<1> DEFINE p == n \div MULTI_ALLOC
<1>3. p \in Int /\ n = MULTI_ALLOC * p + (n % MULTI_ALLOC)
      /\ 0 <= n % MULTI_ALLOC /\ n % MULTI_ALLOC < MULTI_ALLOC
  BY <1>1, SMT
<1> HIDE DEF p
<1>4. n % MULTI_ALLOC = MULTI_ALLOC * (q - p)
  BY <1>1, <1>2, <1>3, SMT
<1>5. q - p = 0
  <2>1. q - p \in Int /\ 0 <= MULTI_ALLOC * (q - p) /\ MULTI_ALLOC * (q - p) < MULTI_ALLOC
    BY <1>3, <1>4, SMT
  <2> QED
    BY <1>1, <2>1, SmallMultiple
<1> QED
  BY <1>1, <1>4, <1>5, SMT DEF Full

\* A full list grows by whole steps.
LEMMA GrowsBySteps ==
  ASSUME NEW n \in Nat, Full(n)
  PROVE  Steps(n + MULTI_ALLOC) /\ n + MULTI_ALLOC \in Nat
<1>1. MULTI_ALLOC \in Nat \ {0}
  BY AtValueAssumption
<1> DEFINE p == n \div MULTI_ALLOC
<1>2. p \in Int /\ n = MULTI_ALLOC * p + (n % MULTI_ALLOC) /\ p >= 0
  BY <1>1, SMT
<1> HIDE DEF p
<1>3. n = MULTI_ALLOC * p
  BY <1>1, <1>2, SMT DEF Full
<1>4. n + MULTI_ALLOC = MULTI_ALLOC * (p + 1) /\ p + 1 \in Nat
  BY <1>1, <1>2, <1>3, SMT
<1> QED
  BY <1>1, <1>4 DEF Steps

\* The room char2val_text makes is enough for the lines.
LEMMA RoomForLines ==
  ASSUME NEW n \in Nat
  PROVE  /\ ((n + MULTI_ALLOC - 1) \div MULTI_ALLOC) * MULTI_ALLOC \in Nat
         /\ n <= ((n + MULTI_ALLOC - 1) \div MULTI_ALLOC) * MULTI_ALLOC
<1>1. MULTI_ALLOC \in Nat \ {0}
  BY AtValueAssumption
<1> DEFINE a == n + MULTI_ALLOC - 1
           p == a \div MULTI_ALLOC
<1>2. a \in Nat
  BY <1>1, SMT
<1> HIDE DEF a
<1>3. p \in Int /\ a = p * MULTI_ALLOC + (a % MULTI_ALLOC) /\ a % MULTI_ALLOC < MULTI_ALLOC
      /\ a % MULTI_ALLOC \in Nat
  BY <1>1, <1>2, SMT
<1>4. p * MULTI_ALLOC \in Int
  BY <1>1, <1>3, SMT
<1> HIDE DEF p
<1>5. n <= p * MULTI_ALLOC
  BY <1>1, <1>3, <1>4, SMT DEF a
<1>6. p * MULTI_ALLOC \in Nat
  BY <1>4, <1>5, SMT
<1> QED
  BY <1>5, <1>6 DEF p, a

\* A text has at least one line.
LEMMA LinecntType == ASSUME NEW S, value \in Seq(S) PROVE Linecnt \in Nat
<1> DEFINE N == {i \in DOMAIN value : value[i] = "nl"}
<1>1. IsFiniteSet(N)
  <2>1. Len(value) \in Nat /\ DOMAIN value = 1..Len(value)
    OBVIOUS
  <2>2. IsFiniteSet(1..Len(value))
    BY <2>1, FS_Interval
  <2>3. N \subseteq 1..Len(value)
    BY <2>1
  <2> HIDE DEF N
  <2> QED
    BY <2>2, <2>3, FS_Subset
<1>2. Cardinality(N) \in Nat
  BY <1>1, FS_CardinalityType
<1>3. Linecnt = IF Cardinality(N) = 0 \/ Last(value) # "nl" THEN Cardinality(N) + 1 ELSE Cardinality(N)
  BY DEF Linecnt
<1> HIDE DEF N
<1> QED
  BY <1>2, <1>3

-----------------------------------------------------------------------------
(* The lexer. *)

\* Only "::" is a value that something may follow.
LEMMA LexedValue ==
  ASSUME NEW in, NEW line, Lex(in, line).token = "VALUE"
  PROVE  /\ Lex(in, line).piece \in {"::", "number", "true"}
         /\ Lex(in, line).piece # "::" => Lex(in, line).rest = <<>>
<1> DEFINE k == SelectInSeq(in, LAMBDA p : p # "blank")
           rest == SubSeq(in, k + 1, Len(in))
           whole == line /\ k = 1 /\ rest = <<"nul">>
<1>1. Lex(in, line) =
        CASE k = 0 -> [token |-> "end", piece |-> "nul", rest |-> <<>>, bol |-> line]
        [] k # 0 /\ in[k] = "nl" -> [token |-> "EOL", piece |-> "nl", rest |-> rest, bol |-> TRUE]
        [] k # 0 /\ in[k] = "::" ->
             [token |-> "VALUE", piece |-> "::", rest |-> IF whole THEN <<>> ELSE rest, bol |-> FALSE]
        [] k # 0 /\ in[k] \in {"number", "true"} /\ whole ->
             [token |-> "VALUE", piece |-> in[k], rest |-> <<>>, bol |-> FALSE]
        [] OTHER ->
             [token |-> "SYNTAX_ERROR", piece |-> "?", rest |-> Characters(in[k]) \o rest, bol |-> FALSE]
  BY Zenon DEF Lex
<1> HIDE DEF k, rest, whole
<1> QED
  BY <1>1

\* Where the text has ended there is no token.
LEMMA LexEnd == ASSUME NEW line PROVE Lex(<<>>, line).token = "end"
<1> DEFINE k == SelectInSeq(<<>>, LAMBDA p : p # "blank")
<1>1. k = 0
  BY DEF SelectInSeq
<1>2. k = 0 => Lex(<<>>, line) = [token |-> "end", piece |-> "nul", rest |-> <<>>, bol |-> line]
  BY DEF Lex
<1> QED
  BY <1>1, <1>2

\* A token that is a value makes one block.
LEMMA OneToken ==
  ASSUME NEW t, Lexed(<<t>>), made \in Nat
  PROVE  /\ made' = made + (IF t.token = "VALUE" THEN 1 ELSE 0)
         /\ t.token = "VALUE" => cli_value'.val = made'
         /\ input' = t.rest
<1> DEFINE values == {i \in DOMAIN <<t>> : <<t>>[i].token = "VALUE"}
<1>1. values = IF t.token = "VALUE" THEN {1} ELSE {}
  OBVIOUS
<1>2. Cardinality({1}) = 1 /\ Cardinality({}) = 0
  BY FS_Singleton, FS_EmptySet
<1>3. /\ made' = made + Cardinality(values)
      /\ values # {} => cli_value' = make_val_value(<<t>>[Max(values)], made')
      /\ input' = Last(<<t>>).rest
  BY DEF Lexed
<1>4. Last(<<t>>) = t
  BY DEF Last
<1> HIDE DEF values
<1> QED
  BY <1>1, <1>2, <1>3, <1>4 DEF make_val_value

\* Of two tokens the last value is the lexer's.
LEMMA TwoTokens ==
  ASSUME NEW t, NEW u, Lexed(<<t, u>>), made \in Nat
  PROVE  /\ made' \in Nat /\ made' >= made
         /\ t.token = "VALUE" \/ u.token = "VALUE" => cli_value'.val = made' /\ made' > made
         /\ t.token = "VALUE" /\ u.token # "VALUE" => made' = made + 1
         /\ made' <= made + 2
         /\ t.token # "VALUE" \/ u.token # "VALUE" => made' <= made + 1
<1> DEFINE values == {i \in DOMAIN <<t, u>> : <<t, u>>[i].token = "VALUE"}
<1>1. values = (IF t.token = "VALUE" THEN {1} ELSE {}) \cup (IF u.token = "VALUE" THEN {2} ELSE {})
  OBVIOUS
<1>2. Cardinality({1}) = 1 /\ Cardinality({2}) = 1 /\ Cardinality({}) = 0
  BY FS_Singleton, FS_EmptySet
<1>3. Cardinality({1, 2}) = 2
  <2>1. IsFiniteSet({1})
    BY FS_Singleton
  <2>2. 2 \notin {1}
    OBVIOUS
  <2>3. Cardinality({1} \cup {2}) = Cardinality({1}) + 1
    BY <2>1, <2>2, FS_AddElement
  <2>4. {1} \cup {2} = {1, 2}
    OBVIOUS
  <2> QED
    BY <1>2, <2>3, <2>4
<1>4. /\ made' = made + Cardinality(values)
      /\ values # {} => cli_value' = make_val_value(<<t, u>>[Max(values)], made')
  BY DEF Lexed
<1>5. values \in {{}, {1}, {2}, {1, 2}}
  BY <1>1
<1> HIDE DEF values
<1>6. values # {} => cli_value'.val = made'
  BY <1>4 DEF make_val_value
<1>7. Cardinality(values) \in Nat /\ (values # {} => Cardinality(values) > 0)
      /\ (values = {1} => Cardinality(values) = 1)
  BY <1>2, <1>3, <1>5
<1>8. t.token = "VALUE" \/ u.token = "VALUE" => values # {}
  BY <1>1
<1>9. t.token = "VALUE" /\ u.token # "VALUE" => values = {1}
  BY <1>1
<1>10. Cardinality(values) <= 2
  BY <1>2, <1>3, <1>5
<1>11. t.token # "VALUE" \/ u.token # "VALUE" => values # {1, 2}
  BY <1>1
<1>12. values # {1, 2} => Cardinality(values) <= 1
  BY <1>2, <1>5
<1> QED
  BY <1>4, <1>6, <1>7, <1>8, <1>9, <1>10, <1>11, <1>12

-----------------------------------------------------------------------------
(* The strings of a value. *)

IsVal(v) ==
  v = [type |-> v.type, val |-> v.val, text |-> v.text, free_me |-> v.free_me,
       vals |-> v.vals, types |-> v.types, texts |-> v.texts, room |-> v.room, troom |-> v.troom]

Pieces == {"::", "number", "true", "nl", "blank", "?"}

\* The blocks made so far and the lists they are in.
MemType ==
  /\ made \in Nat /\ live \subseteq 1..made /\ misfreed = FALSE
  /\ value \in Seq(Pieces)
  /\ IsVal(val) /\ val.vals \in Seq(Nat) /\ val.val \in Nat
  /\ val.room \in Nat /\ val.troom \in Nat

\* Where the value is complete or grows.
Reading == {"value", "separator"}
Whole == {"separator", "lines", "help accepted", "accepted", "commands"}

\* Where the text is refused and the help text is printed.
Reporting == {"help refused", "reported"}

\* Nothing else is allocated than the strings of the value, and one other where
\* a message was printed.
HoldsBlocks ==
  /\ at \in Reading \cup Whole \cup Reporting =>
       Blocks(val) \subseteq live /\ (~oom => live = Blocks(val))
  /\ at = "refused" => Blocks(val) \subseteq live /\ (~oom => AtMostOneMore)
  /\ at \in Whole \/ (at = "value" /\ ~IsFirst) => val.free_me
  /\ at \in {"char2val", "text"} => live = {}
  /\ at = "text" => val = Single(NullVal)

\* A list is in its room, which grows by whole steps or is made for all lines.
InRoom ==
  /\ Len(val.vals) <= val.room /\ Len(val.vals) <= val.troom
  /\ at \in Reading => Steps(val.room) /\ Steps(val.troom)
  /\ at = "lines" => Len(val.vals) < Linecnt /\ Linecnt <= val.room /\ Linecnt <= val.troom

\* After the first value there is more to read only if a "::" was accepted.
MoreIsAddress ==
  /\ at = "separator" => ~IsFirst /\ (input = <<>> \/ ~WrongType("IPV6"))
  /\ at = "value" /\ ~IsFirst => ~WrongType("IPV6")

\* The inductive invariant.
MemInv == MemType /\ HoldsBlocks /\ InRoom /\ MoreIsAddress

LEMMA AppendBlock ==
  ASSUME NEW s \in Seq(Nat), NEW x \in Nat
  PROVE  /\ Append(s, x) \in Seq(Nat) /\ Len(Append(s, x)) = Len(s) + 1
         /\ ToSet(Append(s, x)) = ToSet(s) \cup {x}
<1> DEFINE a == Append(s, x)
<1>1. /\ a \in Seq(Nat) /\ Len(a) = Len(s) + 1 /\ Len(s) \in Nat
      /\ a[Len(s) + 1] = x /\ \A i \in 1..Len(s) : a[i] = s[i]
  BY AppendProperties
<1>2. DOMAIN a = 1..(Len(s) + 1) /\ DOMAIN s = 1..Len(s)
  BY <1>1
<1> HIDE DEF a
<1>3. ToSet(a) \subseteq ToSet(s) \cup {x}
  BY <1>1, <1>2 DEF ToSet
<1>4. ToSet(s) \subseteq ToSet(a) /\ x \in ToSet(a)
  BY <1>1, <1>2 DEF ToSet
<1> QED
  BY <1>1, <1>3, <1>4 DEF a

\* A list takes a string over and stays in its room: where it is found full it
\* has grown, and where it is not there was room.
LEMMA AddedVal ==
  ASSUME NEW v, IsVal(v), v.vals \in Seq(Nat), v.val \in Nat, v.room \in Nat, v.troom \in Nat,
         v.val # 0 \/ v.vals # <<>>, Steps(v.room), Steps(v.troom),
         Len(v.vals) <= v.room, Len(v.vals) <= v.troom,
         NEW c, c.val \in Nat \ {0}, NEW w, w = add_val(v, c)
  PROVE  /\ IsVal(w) /\ w.vals \in Seq(Nat) /\ w.val \in Nat /\ w.room \in Nat /\ w.troom \in Nat
         /\ w.vals # <<>> /\ Steps(w.room) /\ Steps(w.troom) /\ w.free_me = v.free_me
         /\ Len(w.vals) <= w.room /\ Len(w.vals) <= w.troom
         /\ Blocks(w) = Blocks(v) \cup {c.val}
<1> DEFINE n == Len(v.vals)
           list == IF v.vals # <<>> THEN v
                   ELSE [v EXCEPT !.vals = <<v.val>>, !.types = <<v.type>>, !.texts = <<v.text>>, !.val = 0]
           grown == IF Full(n) THEN [list EXCEPT !.room = n + MULTI_ALLOC, !.troom = n + MULTI_ALLOC]
                    ELSE list
<1>1. w = [grown EXCEPT !.vals = Append(@, c.val), !.types = Append(@, c.type),
                        !.texts = Append(@, c.text)]
  BY DEF add_val
<1>2. n \in Nat /\ MULTI_ALLOC \in Nat /\ MULTI_ALLOC >= 2 /\ (v.vals = <<>> <=> n = 0)
  BY AtValueAssumption, EmptySeq
<1>3. /\ IsVal(list) /\ list.room = v.room /\ list.troom = v.troom /\ list.free_me = v.free_me
      /\ v.vals # <<>> => list.vals = v.vals /\ list.val = v.val
      /\ v.vals = <<>> => list.vals = <<v.val>> /\ list.val = 0
  BY DEF IsVal
<1>4. list.vals \in Seq(Nat) /\ list.val \in Nat /\ Blocks(list) = Blocks(v)
      /\ Len(list.vals) = IF n = 0 THEN 1 ELSE n
  <2>1. CASE v.vals # <<>>
    BY <1>2, <1>3, <2>1 DEF Blocks
  <2>2. CASE v.vals = <<>>
    BY <1>2, <1>3, <2>2 DEF Blocks, ToSet
  <2> QED
    BY <2>1, <2>2
<1> HIDE DEF list
<1>5. /\ IsVal(grown) /\ grown.vals = list.vals /\ grown.val = list.val
      /\ grown.free_me = list.free_me
      /\ Full(n) => grown.room = n + MULTI_ALLOC /\ grown.troom = n + MULTI_ALLOC
      /\ ~Full(n) => grown.room = v.room /\ grown.troom = v.troom
  BY <1>3 DEF IsVal
<1> HIDE DEF grown
<1>6. /\ IsVal(w) /\ w.vals = Append(list.vals, c.val) /\ w.val = list.val
      /\ w.room = grown.room /\ w.troom = grown.troom /\ w.free_me = v.free_me
  BY <1>1, <1>3, <1>5 DEF IsVal
<1>7. /\ w.vals \in Seq(Nat) /\ Len(w.vals) = Len(list.vals) + 1
      /\ ToSet(w.vals) = ToSet(list.vals) \cup {c.val}
  BY <1>4, <1>6, AppendBlock
<1>8. Blocks(w) = Blocks(v) \cup {c.val}
  BY <1>4, <1>6, <1>7 DEF Blocks
<1>9. w.vals # <<>>
  BY <1>2, <1>4, <1>7
<1>10. CASE Full(n)
  <2>1. Steps(n + MULTI_ALLOC)
    BY <1>2, <1>10, GrowsBySteps
  <2>2. Len(w.vals) <= n + MULTI_ALLOC /\ n + MULTI_ALLOC \in Nat
    BY <1>2, <1>4, <1>7
  <2> QED
    BY <1>4, <1>5, <1>6, <1>7, <1>8, <1>9, <1>10, <2>1, <2>2
<1>11. CASE ~Full(n)
  <2>1. ~Steps(n)
    BY <1>2, <1>11, FullIsFound
  <2>2. n # v.room /\ n # v.troom
    BY <2>1
  <2>3. n # 0
    BY <2>1, <1>2 DEF Steps
  <2>4. Len(w.vals) = n + 1
    BY <1>4, <1>7, <2>3
  <2>5. n + 1 <= v.room /\ n + 1 <= v.troom
    BY <1>2, <2>2
  <2>6. Len(w.vals) <= v.room /\ Len(w.vals) <= v.troom
    BY <2>4, <2>5
  <2> QED
    BY <1>4, <1>5, <1>6, <1>7, <1>8, <1>9, <1>11, <2>6
<1> QED
  BY <1>10, <1>11

\* A value without a list.
LEMMA SingleVal ==
  ASSUME NEW v, v.val \in Nat
  PROVE  /\ IsVal(Single(v)) /\ Single(v).vals = <<>> /\ Single(v).vals \in Seq(Nat)
         /\ Single(v).val = v.val /\ Single(v).free_me = v.free_me
         /\ Single(v).room = 0 /\ Single(v).troom = 0
         /\ Len(Single(v).vals) = 0 /\ Steps(0)
         /\ Blocks(Single(v)) = {v.val} \ {0}
<1>1. Single(v) = [type |-> v.type, val |-> v.val, text |-> v.text, free_me |-> v.free_me,
                   vals |-> <<>>, types |-> <<>>, texts |-> <<>>, room |-> 0, troom |-> 0]
  BY DEF Single
<1>2. Steps(0)
  BY AtValueAssumption DEF Steps
<1>3. ToSet(<<>>) = {}
  BY DEF ToSet
<1> QED
  BY <1>1, <1>2, <1>3 DEF IsVal, Blocks

LEMMA NoVal ==
  /\ NullVal.val = 0 /\ NullVal.val \in Nat
  /\ Blocks(Single(NullVal)) = {}
<1>1. NullVal.val = 0
  BY DEF NullVal
<1> QED
  BY <1>1, SingleVal

LEMMA TextIsSeq == ASSUME NEW t \in Texts PROVE t \in Seq(Pieces)
BY AtValueAssumption DEF Pieces

LEMMA MemInit == AtInit => MemInv
<1> SUFFICES ASSUME AtInit PROVE MemInv
  OBVIOUS
<1> DEFINE v == Single(NullVal)
<1>1. /\ at = "char2val" /\ value \in Texts /\ val = v
      /\ live = {} /\ made = 0 /\ misfreed = FALSE
  BY DEF AtInit
<1>2. IsVal(v) /\ v.vals \in Seq(Nat) /\ v.val = 0 /\ v.room = 0 /\ v.troom = 0 /\ Len(v.vals) = 0
  BY NoVal, SingleVal
<1> HIDE DEF v
<1> QED
  BY <1>1, <1>2, TextIsSeq DEF MemInv, MemType, HoldsBlocks, InRoom, MoreIsAddress, Reading, Whole, Reporting

-----------------------------------------------------------------------------
(* The steps of char2val. *)

LEMMA Char2ValInv == ASSUME MemInv, Char2Val PROVE MemInv'
<1> DEFINE v == Single(NullVal)
<1>1. /\ at' \in {"text", "value"} /\ at = "char2val" /\ val' = v
      /\ UNCHANGED <<arguments, memory>>
  BY DEF Char2Val
<1>2. UNCHANGED <<value, live, made, misfreed, oom>>
  BY <1>1 DEF arguments, memory
<1>3. /\ IsVal(v) /\ v.vals \in Seq(Nat) /\ v.val = 0 /\ v.room = 0 /\ v.troom = 0
      /\ Len(v.vals) = 0 /\ Steps(0) /\ v.vals = <<>> /\ Blocks(v) = {}
  BY NoVal, SingleVal
<1>4. IsFirst'
  BY <1>1, <1>3 DEF IsFirst
<1>5. val' = Single(NullVal)
  BY <1>1
<1> HIDE DEF v
<1>6. MemType' /\ InRoom' /\ MoreIsAddress'
  BY <1>1, <1>2, <1>3, <1>4 DEF MemInv, MemType, InRoom, MoreIsAddress, Reading
<1>7. HoldsBlocks'
  BY <1>1, <1>2, <1>3, <1>4, <1>5 DEF MemInv, MemType, HoldsBlocks, Reading, Whole, Reporting
<1> QED
  BY <1>6, <1>7 DEF MemInv

LEMMA MoreBlocks ==
  ASSUME NEW m \in Nat, NEW n \in Nat, n >= m, NEW S, S \subseteq 1..m
  PROVE  S \subseteq 1..n
OBVIOUS

\* A step that makes blocks and frees one of them, or none.
LEMMA Freed ==
  ASSUME MemType, NEW blocks, Free(blocks), made' \in Nat, made' >= made,
         blocks \subseteq live \cup (made + 1)..made'
  PROVE  /\ live' = (live \cup (made + 1)..made') \ blocks
         /\ live' \subseteq 1..made' /\ misfreed' = FALSE
<1>1. live' = (live \cup (made + 1)..made') \ blocks
  BY Zenon DEF Free, New
<1>2. misfreed' = FALSE
  BY Zenon DEF Free, New, MemType
<1>3. live' \subseteq 1..made'
  BY <1>1 DEF MemType
<1> QED
  BY <1>1, <1>2, <1>3

\* What is allocated if it is one string more than those of the value.
LEMMA OneOther ==
  ASSUME UNCHANGED val, made' \in Nat, NEW b \in 0..made', live' \subseteq Blocks(val) \cup {b}
  PROVE  AtMostOneMore'
BY DEF AtMostOneMore, Blocks

\* Where char2val refuses the text the value is out of use.
LEMMA RefusedInv ==
  ASSUME MemInv, at' \in {"refused", "help refused"}, UNCHANGED <<value, val, oom>>,
         made' \in Nat, live' \subseteq 1..made', misfreed' = FALSE,
         Blocks(val) \subseteq live', ~oom => AtMostOneMore',
         at' = "help refused" /\ ~oom => live' = Blocks(val)
  PROVE  MemInv'
<1>1. MemType'
  BY DEF MemInv, MemType
<1>2. HoldsBlocks' /\ InRoom' /\ MoreIsAddress'
  BY DEF MemInv, HoldsBlocks, InRoom, MoreIsAddress, Reading, Whole, Reporting
<1> QED
  BY <1>1, <1>2 DEF MemInv

LEMMA NotAValueInv == ASSUME MemInv, NotAValue PROVE MemInv'
<1> DEFINE t == Lex(input, bol)
           u == Lex(t.rest, t.bol)
<1>1. /\ at = "value" /\ t.token # "VALUE" /\ Report(t, "refused", FALSE)
      /\ UNCHANGED <<arguments, val, oom>>
  BY DEF NotAValue
<1> HIDE DEF t
<1>2. Lexed(IF def.help THEN <<t>> ELSE <<t, u>>)
      /\ Free({}) /\ at' = IF def.help THEN Helping["refused"] ELSE "refused"
  BY <1>1 DEF Report
<1>3. made \in Nat
  BY DEF MemInv, MemType
<1> HIDE DEF u
<1>4. made' \in Nat /\ made' >= made
  BY <1>2, <1>3, OneToken, TwoTokens
<1>5. /\ live' = (live \cup (made + 1)..made') \ {}
      /\ live' \subseteq 1..made' /\ misfreed' = FALSE
  BY <1>2, <1>4, Freed DEF MemInv
<1>6. /\ at' \in {"refused", "help refused"}
      /\ at' = "help refused" => def.help
  BY <1>2 DEF Helping
<1>7. UNCHANGED <<value, val, oom>>
  BY <1>1 DEF arguments
<1>8. Blocks(val) \subseteq live /\ (~oom => live = Blocks(val))
  BY <1>1 DEF MemInv, HoldsBlocks, Reading
<1>9. made' <= made + 1 /\ (def.help => made' = made)
  BY <1>1, <1>2, <1>3, OneToken, TwoTokens
<1>10. live' \subseteq live \cup {made'} /\ (def.help => live' = live)
  BY <1>3, <1>4, <1>5, <1>9
<1>11. ~oom => AtMostOneMore'
  BY <1>4, <1>7, <1>8, <1>10, OneOther
<1>12. Blocks(val) \subseteq live' /\ (at' = "help refused" /\ ~oom => live' = Blocks(val))
  BY <1>5, <1>6, <1>8, <1>10
<1> QED
  BY <1>4, <1>5, <1>6, <1>7, <1>11, <1>12, RefusedInv

\* Where the value is neither changed nor freed it is held as before.
LEMMA HeldInv ==
  ASSUME MemInv, at \in Reading, UNCHANGED <<value, def, val, oom, live>>, made' \in Nat, made' >= made,
         misfreed' = FALSE, at' \in Reading \cup {"accepted", "help accepted"},
         ~IsFirst,
         at' = "separator" => input' = <<>> \/ ~WrongType("IPV6"),
         at' = "value" => ~WrongType("IPV6")
  PROVE  MemInv'
<1>1. MemType'
  <2>1. made \in Nat /\ live' \subseteq 1..made
    BY DEF MemInv, MemType
  <2>2. live' \subseteq 1..made'
    BY <2>1, MoreBlocks
  <2> QED
    BY <2>2 DEF MemInv, MemType, IsVal
<1>2. HoldsBlocks'
  <2>1. /\ Blocks(val)' = Blocks(val) /\ (IsFirst' <=> IsFirst)
    BY DEF Blocks, IsFirst
  <2>2. val.free_me /\ Blocks(val) \subseteq live /\ (~oom => live = Blocks(val))
    BY DEF MemInv, HoldsBlocks, Reading, Whole, Reporting
  <2> QED
    BY <2>1, <2>2 DEF HoldsBlocks, Reading, Whole, Reporting
<1>3. InRoom'
  BY DEF MemInv, InRoom, Reading
<1>4. MoreIsAddress'
  BY DEF MoreIsAddress, WrongType, IsFirst
<1> QED
  BY <1>1, <1>2, <1>3, <1>4 DEF MemInv

\* A value that something follows is "::", so a value of a wrong type behind
\* the first ends the text.
LEMMA ValueOfWrongTypeInv == ASSUME MemInv, ValueOfWrongType PROVE MemInv'
<1> DEFINE t == Lex(input, bol)
           u == Lex(t.rest, t.bol)
<1>1. /\ at = "value" /\ t.token = "VALUE" /\ WrongType(TypeOf[t.piece])
      /\ Report(t, IF IsFirst THEN "refused" ELSE "accepted", TRUE)
      /\ UNCHANGED <<arguments, val, oom>>
  BY DEF ValueOfWrongType
<1>2. t.piece \in {"::", "number", "true"} /\ (t.piece # "::" => t.rest = <<>>)
  BY <1>1, LexedValue
<1>3. ~IsFirst => u.token = "end"
  <2> SUFFICES ASSUME ~IsFirst PROVE u.token = "end"
    OBVIOUS
  <2>1. ~WrongType("IPV6")
    BY <1>1 DEF MemInv, MoreIsAddress
  <2>2. TypeOf["::"] = "IPV6"
    BY DEF TypeOf
  <2>3. t.rest = <<>>
    BY <1>1, <1>2, <2>1, <2>2
  <2> QED
    BY <2>3, LexEnd
<1> HIDE DEF t
<1>4. Lexed(IF def.help THEN <<t>> ELSE <<t, u>>)
      /\ Free({cli_value'.val})
      /\ (IsFirst => at' = IF def.help THEN "help refused" ELSE "refused")
      /\ (~IsFirst => at' \in {"accepted", "help accepted"})
  BY <1>1 DEF Report, Helping
<1>5. made \in Nat
  BY DEF MemInv, MemType
<1> HIDE DEF u
<1>6. /\ made' \in Nat /\ made' > made /\ cli_value'.val = made'
      /\ ~IsFirst \/ def.help => made' = made + 1
      /\ made' <= made + 2
  <2>1. CASE def.help
    <3>1. Lexed(<<t>>)
      BY <1>4, <2>1
    <3>2. made' = made + 1 /\ cli_value'.val = made'
      BY <1>1, <1>5, <3>1, OneToken
    <3> QED
      BY <1>5, <3>2
  <2>2. CASE ~def.help
    <3>1. Lexed(<<t, u>>)
      BY <1>4, <2>2
    <3>2. /\ made' \in Nat /\ made' > made /\ cli_value'.val = made'
          /\ u.token # "VALUE" => made' = made + 1
          /\ made' <= made + 2
      BY <1>1, <1>5, <3>1, TwoTokens
    <3> QED
      BY <1>3, <2>2, <3>2
  <2> QED
    BY <2>1, <2>2
<1>7. {made'} \subseteq live \cup (made + 1)..made'
  BY <1>5, <1>6
<1>8. /\ live' = (live \cup (made + 1)..made') \ {made'}
      /\ live' \subseteq 1..made' /\ misfreed' = FALSE
  <2>1. Free({made'}) /\ MemType
    BY <1>4, <1>6, Zenon DEF MemInv
  <2>2. made' >= made
    BY <1>5, <1>6
  <2> QED
    BY <1>6, <1>7, <2>1, <2>2, Freed
<1>9. UNCHANGED <<value, def, val, oom>>
  BY <1>1 DEF arguments
<1>10. CASE IsFirst
  <2>1. Blocks(val) \subseteq live /\ (~oom => live = Blocks(val))
    BY <1>1 DEF MemInv, HoldsBlocks, Reading
  <2>2. made' \notin live /\ made + 1 \in 0..made'
    BY <1>5, <1>6 DEF MemInv, MemType
  <2>3. live \subseteq live' /\ live' \subseteq live \cup {made + 1}
    BY <1>5, <1>6, <1>8, <2>2
  <2>4. ~oom => AtMostOneMore'
    BY <1>6, <1>9, <2>1, <2>2, <2>3, OneOther
  <2>5. def.help => live' = live
    BY <1>5, <1>6, <1>8, <2>2
  <2>6. at' \in {"refused", "help refused"} /\ (at' = "help refused" => def.help)
    BY <1>4, <1>10
  <2>7. Blocks(val) \subseteq live' /\ (at' = "help refused" /\ ~oom => live' = Blocks(val))
    BY <2>1, <2>3, <2>5, <2>6
  <2> QED
    BY <1>6, <1>8, <1>9, <2>4, <2>6, <2>7, RefusedInv
<1>11. CASE ~IsFirst
  <2>1. live' = live
    <3>1. (made + 1)..made' = {made'} /\ made' \notin live
      BY <1>5, <1>6, <1>11 DEF MemInv, MemType
    <3> QED
      BY <1>8, <3>1
  <2>2. at' \in {"accepted", "help accepted"}
    BY <1>4, <1>11, Zenon
  <2>3. /\ at \in Reading /\ at' \in Reading \cup {"accepted", "help accepted"}
        /\ at' # "separator" /\ at' # "value"
    BY <1>1, <2>2 DEF Reading
  <2>4. made' >= made
    BY <1>5, <1>6
  <2> QED
    BY <1>6, <1>8, <1>9, <1>11, <2>1, <2>3, <2>4, HeldInv
<1> QED
  BY <1>10, <1>11

\* make_val_value's block is a new one.
LEMMA MadeValue ==
  ASSUME NEW t, NEW n
  PROVE  make_val_value(t, n).val = n /\ make_val_value(t, n).free_me = TRUE
BY DEF make_val_value

\* What is read next after a value is taken.
LEMMA AfterValue ==
  ASSUME NEW in, NEW line, Lex(in, line).token = "VALUE", ~WrongType(TypeOf[Lex(in, line).piece])
  PROVE  Lex(in, line).rest = <<>> \/ ~WrongType("IPV6")
<1>1. TypeOf["::"] = "IPV6"
  BY DEF TypeOf
<1> QED
  BY <1>1, LexedValue

LEMMA TakeFirstInv == ASSUME MemInv, TakeFirst PROVE MemInv'
<1> DEFINE t == Lex(input, bol)
           c == make_val_value(t, made')
<1>1. /\ at = "value" /\ IsFirst /\ at' = "separator" /\ t.token = "VALUE"
      /\ ~WrongType(TypeOf[t.piece]) /\ input' = t.rest /\ made' = made + 1
      /\ val' = Single(c) /\ Free({}) /\ UNCHANGED <<arguments, oom>>
  BY DEF TakeFirst
<1>2. input' = <<>> \/ ~WrongType("IPV6")
  BY <1>1, AfterValue
<1>3. c.val = made' /\ c.free_me = TRUE
  BY MadeValue
<1>4. made \in Nat /\ MemType
  BY DEF MemInv, MemType
<1> HIDE DEF c, t
<1>5. made' \in Nat /\ made' >= made /\ made' # 0
  BY <1>1, <1>4
<1>6. /\ IsVal(val') /\ val'.vals = <<>> /\ val'.vals \in Seq(Nat) /\ val'.val = made'
      /\ val'.free_me = TRUE /\ val'.room = 0 /\ val'.troom = 0 /\ Len(val'.vals) = 0
      /\ Steps(0) /\ Blocks(val') = {made'}
  BY <1>1, <1>3, <1>5, SingleVal
<1>7. /\ live' = (live \cup (made + 1)..made') \ {}
      /\ live' \subseteq 1..made' /\ misfreed' = FALSE
  BY <1>1, <1>4, <1>5, Freed
<1>8. UNCHANGED <<def, value, oom>>
  BY <1>1 DEF arguments
<1>9. ~IsFirst'
  BY <1>5, <1>6 DEF IsFirst
<1>10. Blocks(val) = {}
  BY <1>1 DEF IsFirst, Blocks, ToSet
<1>11. (made + 1)..made' = {made'}
  BY <1>1, <1>4
<1>12. MemType'
  BY <1>4, <1>5, <1>6, <1>7, <1>8 DEF MemType
<1>13. HoldsBlocks'
  <2>1. Blocks(val') \subseteq live' /\ (~oom' => live' = Blocks(val'))
    BY <1>1, <1>6, <1>7, <1>8, <1>10, <1>11 DEF MemInv, HoldsBlocks, Reading
  <2> QED
    BY <1>1, <1>6, <2>1 DEF HoldsBlocks, Reading, Whole, Reporting
<1>14. InRoom'
  BY <1>1, <1>6 DEF InRoom, Reading
<1>15. MoreIsAddress'
  BY <1>1, <1>2, <1>8, <1>9 DEF MoreIsAddress, WrongType
<1> QED
  BY <1>12, <1>13, <1>14, <1>15 DEF MemInv

LEMMA TakeNextInv == ASSUME MemInv, TakeNext PROVE MemInv'
<1> DEFINE t == Lex(input, bol)
<1>1. /\ at = "value" /\ ~IsFirst /\ at' = "separator" /\ t.token = "VALUE"
      /\ ~WrongType(TypeOf[t.piece]) /\ Lexed(<<t>>)
      /\ Free({}) /\ UNCHANGED arguments
      /\ (val' = add_val(val, cli_value') /\ oom' = oom) \/ AddFails(val)
  BY DEF TakeNext
<1>2. t.rest = <<>> \/ ~WrongType("IPV6")
  BY <1>1, AfterValue
<1> HIDE DEF t
<1>3. made \in Nat /\ MemType
  BY DEF MemInv, MemType
<1>4. input' = t.rest /\ made' = made + 1 /\ cli_value'.val = made'
  BY <1>1, <1>3, OneToken
<1>5. made' \in Nat \ {0} /\ made' >= made /\ (made + 1)..made' = {made'}
  BY <1>3, <1>4
<1>6. /\ live' = (live \cup {made'}) \ {}
      /\ live' \subseteq 1..made' /\ misfreed' = FALSE
  <2>1. /\ live' = (live \cup (made + 1)..made') \ {}
        /\ live' \subseteq 1..made' /\ misfreed' = FALSE
    BY <1>1, <1>3, <1>5, Freed
  <2> QED
    BY <1>5, <2>1
<1>7. UNCHANGED <<def, value>>
  BY <1>1 DEF arguments
<1>8. /\ IsVal(val) /\ val.vals \in Seq(Nat) /\ val.val \in Nat /\ val.room \in Nat
      /\ val.troom \in Nat /\ (val.val # 0 \/ val.vals # <<>>) /\ Steps(val.room)
      /\ Steps(val.troom) /\ Len(val.vals) <= val.room /\ Len(val.vals) <= val.troom
      /\ Blocks(val) \subseteq live /\ (~oom => live = Blocks(val)) /\ val.free_me
  BY <1>1, <1>3 DEF MemInv, MemType, InRoom, HoldsBlocks, IsFirst, Reading
<1>9. \/ /\ Blocks(val') = Blocks(val) \cup {made'} /\ oom' = oom
      \/ Blocks(val') = Blocks(val) /\ oom' = TRUE
  <2>1. CASE val' = add_val(val, cli_value') /\ oom' = oom
    BY <1>4, <1>5, <1>8, <2>1, AddedVal
  <2>2. CASE AddFails(val)
    BY <1>8, <2>2 DEF AddFails, Blocks, IsVal
  <2> QED
    BY <1>1, <2>1, <2>2
<1>10. /\ IsVal(val') /\ val'.vals \in Seq(Nat) /\ val'.val \in Nat /\ val'.room \in Nat
       /\ val'.troom \in Nat /\ (val'.val # 0 \/ val'.vals # <<>>) /\ Steps(val'.room)
       /\ Steps(val'.troom) /\ Len(val'.vals) <= val'.room /\ Len(val'.vals) <= val'.troom
       /\ val'.free_me
  <2>1. CASE val' = add_val(val, cli_value') /\ oom' = oom
    BY <1>4, <1>5, <1>8, <2>1, AddedVal
  <2>2. CASE AddFails(val)
    <3> DEFINE n == Len(val.vals)
    <3>1. Full(n) /\ n \in Nat
      BY <1>8, <2>2 DEF AddFails
    <3>2. Steps(n + MULTI_ALLOC) /\ n + MULTI_ALLOC \in Nat /\ n <= n + MULTI_ALLOC
      BY <3>1, GrowsBySteps, AtValueAssumption
    <3>3. /\ IsVal(val') /\ val'.vals = val.vals /\ val'.val = val.val
          /\ val'.troom = val.troom /\ val'.free_me = val.free_me
          /\ (val'.room = val.room \/ val'.room = n + MULTI_ALLOC)
      BY <1>8, <2>2 DEF AddFails, IsVal
    <3> QED
      BY <1>8, <3>2, <3>3
  <2> QED
    BY <1>1, <2>1, <2>2
<1>11. MemType'
  BY <1>3, <1>5, <1>6, <1>7, <1>10 DEF MemType
<1>12. HoldsBlocks'
  <2>1. Blocks(val') \subseteq live' /\ (~oom' => live' = Blocks(val'))
    BY <1>6, <1>8, <1>9
  <2> QED
    BY <1>1, <1>10, <2>1 DEF HoldsBlocks, Reading, Whole, Reporting
<1>13. InRoom'
  BY <1>1, <1>10 DEF InRoom, Reading
<1>14. MoreIsAddress'
  BY <1>1, <1>2, <1>4, <1>7, <1>10 DEF MoreIsAddress, WrongType, IsFirst
<1> QED
  BY <1>11, <1>12, <1>13, <1>14 DEF MemInv

LEMMA UnexpectedInv == ASSUME MemInv, Unexpected PROVE MemInv'
<1> DEFINE t == Lex(input, bol)
<1>1. /\ at = "value" /\ ~IsFirst /\ at' = "separator" /\ t.token = "VALUE"
      /\ ~WrongType(TypeOf[t.piece]) /\ Lexed(<<t>>)
      /\ Free({made'}) /\ UNCHANGED <<arguments, val, oom>>
  BY DEF Unexpected
<1>2. t.rest = <<>> \/ ~WrongType("IPV6")
  BY <1>1, AfterValue
<1> HIDE DEF t
<1>3. made \in Nat /\ MemType /\ made + 1 \notin live
  BY DEF MemInv, MemType
<1>4. input' = t.rest /\ made' = made + 1
  BY <1>1, <1>3, OneToken
<1>5. made' \in Nat /\ made' >= made /\ (made + 1)..made' = {made'}
  BY <1>3, <1>4
<1>6. live' = live /\ misfreed' = FALSE
  <2>1. {made'} \subseteq live \cup (made + 1)..made'
    BY <1>5
  <2>2. live' = (live \cup (made + 1)..made') \ {made'} /\ misfreed' = FALSE
    BY <1>1, <1>3, <1>5, <2>1, Freed
  <2> QED
    BY <1>3, <1>4, <1>5, <2>2
<1>7. UNCHANGED <<def, value, val, oom, live>>
  BY <1>1, <1>6 DEF arguments
<1>8. at \in Reading /\ at' \in Reading \cup {"accepted", "help accepted"} /\ at' # "value"
  BY <1>1 DEF Reading
<1>9. at' = "separator" => input' = <<>> \/ ~WrongType("IPV6")
  BY <1>2, <1>4
<1> QED
  BY <1>1, <1>5, <1>6, <1>7, <1>8, <1>9, HeldInv

LEMMA ReadSeparatorInv == ASSUME MemInv, ReadSeparator PROVE MemInv'
<1> DEFINE t == Lex(input, bol)
           u == Lex(t.rest, t.bol)
           ts == IF t.token \in {"end", "EOL"} THEN <<t>> ELSE <<t, u>>
<1>1. at = "separator" /\ Lexed(ts) /\ UNCHANGED <<arguments, val, oom>>
  BY DEF ReadSeparator
<1>2. (CASE t.token = "end" -> at' = "accepted" /\ Free({})
        [] t.token = "EOL" -> at' = "value" /\ Free({})
        [] OTHER -> /\ at' = "refused"
                    /\ Free(IF Last(ts).token = "VALUE" THEN {cli_value'.val} ELSE {}))
  BY Zenon DEF ReadSeparator
<1>3. input = <<>> => t.token = "end"
  BY LexEnd
<1> HIDE DEF t, u
<1>4. made \in Nat /\ MemType
  BY DEF MemInv, MemType
<1>5. UNCHANGED <<def, value, val, oom>>
  BY <1>1 DEF arguments
<1>6. CASE t.token \in {"end", "EOL"}
  <2>1. Lexed(<<t>>) /\ t.token # "VALUE"
    BY <1>1, <1>6
  <2>2. made' = made /\ made' >= made
    BY <1>4, <2>1, OneToken
  <2>3. Free({})
    BY <1>2, <1>6
  <2>4. {} \subseteq live \cup (made + 1)..made' /\ made' \in Nat
    BY <1>4, <2>2
  <2>5. live' = (live \cup (made + 1)..made') \ {} /\ misfreed' = FALSE
    BY <1>4, <2>2, <2>3, <2>4, Freed
  <2>6. live' = live
    BY <1>4, <2>2, <2>5
  <2>7. at' = (IF t.token = "end" THEN "accepted" ELSE "value")
    BY <1>2, <1>6
  <2>8. ~IsFirst /\ (at' = "value" => ~WrongType("IPV6"))
    BY <1>1, <1>3, <2>7 DEF MemInv, MoreIsAddress
  <2>9. at \in Reading /\ at' \in Reading \cup {"accepted", "help accepted"} /\ at' # "separator"
    BY <1>1, <2>7 DEF Reading
  <2>10. UNCHANGED <<value, def, val, oom, live>>
    BY <1>5, <2>6
  <2> QED
    BY <2>2, <2>4, <2>5, <2>8, <2>9, <2>10, HeldInv
<1>7. CASE t.token \notin {"end", "EOL"}
  <2>1. Lexed(<<t, u>>)
    BY <1>1, <1>7
  <2>2. /\ made' \in Nat /\ made' >= made
        /\ u.token = "VALUE" => cli_value'.val = made' /\ made' > made
        /\ made' <= made + 2 /\ (u.token # "VALUE" => made' <= made + 1)
    BY <1>4, <2>1, TwoTokens
  <2> DEFINE blocks == IF u.token = "VALUE" THEN {cli_value'.val} ELSE {}
  <2>3. Last(<<t, u>>) = u
    BY DEF Last
  <2>4. at' = "refused" /\ Free(blocks)
    BY <1>2, <1>7, <2>3
  <2>5. blocks \subseteq live \cup (made + 1)..made'
    BY <1>4, <2>2
  <2> HIDE DEF blocks
  <2>6. /\ live' = (live \cup (made + 1)..made') \ blocks
        /\ live' \subseteq 1..made' /\ misfreed' = FALSE
    BY <1>4, <2>2, <2>4, <2>5, Freed
  <2>7. blocks = (IF u.token = "VALUE" THEN {made'} ELSE {}) /\ live \subseteq 1..made
    BY <1>4, <2>2 DEF blocks, MemType
  <2>8. live \subseteq live' /\ live' \subseteq live \cup {made + 1}
    BY <1>4, <2>2, <2>6, <2>7
  <2>9. Blocks(val) \subseteq live /\ (~oom => live = Blocks(val))
    BY <1>1 DEF MemInv, HoldsBlocks, Reading
  <2>10. ~oom => AtMostOneMore'
    <3>1. CASE made' = made
      <4>1. live' \subseteq live \cup {0} /\ 0 \in 0..made'
        BY <1>4, <2>2, <2>6, <3>1
      <4> QED
        BY <1>5, <2>2, <2>9, <4>1, OneOther
    <3>2. CASE made' # made
      <4>1. made + 1 \in 0..made'
        BY <1>4, <2>2, <3>2
      <4> QED
        BY <1>5, <2>2, <2>8, <2>9, <4>1, OneOther
    <3> QED
      BY <3>1, <3>2
  <2>11. Blocks(val) \subseteq live'
    BY <2>8, <2>9
  <2> QED
    BY <1>5, <2>2, <2>4, <2>6, <2>10, <2>11, RefusedInv
<1> QED
  BY <1>6, <1>7

-----------------------------------------------------------------------------
(* The steps of char2val_text. *)

LEMMA OneLineInv == ASSUME MemInv, OneLine PROVE MemInv'
<1> DEFINE c == [type |-> "TEXT", val |-> made', text |-> Line, free_me |-> TRUE]
<1>1. /\ at = "text" /\ at' = "accepted" /\ made' = made + 1 /\ Free({})
      /\ val' = Single(c) /\ UNCHANGED <<arguments, oom>>
  BY DEF OneLine
<1>2. c.val = made' /\ c.free_me = TRUE
  OBVIOUS
<1> HIDE DEF c
<1>3. made \in Nat /\ MemType /\ live = {}
  BY <1>1 DEF MemInv, MemType, HoldsBlocks
<1>4. made' \in Nat /\ made' >= made /\ made' # 0 /\ (made + 1)..made' = {made'}
  BY <1>1, <1>3
<1>5. /\ IsVal(val') /\ val'.vals \in Seq(Nat) /\ val'.val = made'
      /\ val'.free_me = TRUE /\ val'.room = 0 /\ val'.troom = 0 /\ Len(val'.vals) = 0
      /\ Blocks(val') = {made'}
  BY <1>1, <1>2, <1>4, SingleVal
<1>6. /\ live' = (live \cup (made + 1)..made') \ {}
      /\ live' \subseteq 1..made' /\ misfreed' = FALSE
  BY <1>1, <1>3, <1>4, Freed
<1>7. live' = {made'}
  BY <1>3, <1>4, <1>6
<1>8. UNCHANGED value
  BY <1>1 DEF arguments
<1>9. MemType'
  BY <1>3, <1>4, <1>5, <1>6, <1>8 DEF MemType
<1>10. HoldsBlocks'
  BY <1>1, <1>5, <1>7 DEF HoldsBlocks, Reading, Whole, Reporting
<1>11. InRoom' /\ MoreIsAddress'
  BY <1>1, <1>5 DEF InRoom, MoreIsAddress, Reading
<1> QED
  BY <1>9, <1>10, <1>11 DEF MemInv

LEMMA SeveralLinesInv == ASSUME MemInv, SeveralLines PROVE MemInv'
<1> DEFINE room == ((Linecnt + MULTI_ALLOC - 1) \div MULTI_ALLOC) * MULTI_ALLOC
<1>1. /\ at = "text" /\ Linecnt > 1 /\ UNCHANGED <<arguments, memory>>
      /\ \/ /\ at' = "lines"
            /\ val' = [val EXCEPT !.type = "TEXT", !.free_me = TRUE, !.room = room, !.troom = room]
         \/ at' = "refused" /\ val' = [val EXCEPT !.type = "TEXT", !.free_me = TRUE]
  BY DEF SeveralLines
<1>2. Linecnt \in Nat
  BY LinecntType DEF MemInv, MemType
<1>3. room \in Nat /\ Linecnt <= room
  BY <1>2, RoomForLines
<1> HIDE DEF room
<1>4. val = Single(NullVal) /\ live = {}
  BY <1>1 DEF MemInv, HoldsBlocks
<1>5. /\ IsVal(val) /\ val.vals \in Seq(Nat) /\ val.val = 0 /\ val.room = 0 /\ val.troom = 0
      /\ Len(val.vals) = 0 /\ Blocks(val) = {}
  BY <1>4, NoVal, SingleVal
<1>6. /\ IsVal(val') /\ val'.vals = val.vals /\ val'.val = 0 /\ val'.free_me = TRUE
      /\ \/ at' = "lines" /\ val'.room = room /\ val'.troom = room
         \/ at' = "refused" /\ val'.room = 0 /\ val'.troom = 0
  BY <1>1, <1>5 DEF IsVal
<1>7. UNCHANGED <<value, live, made, misfreed, oom>>
  BY <1>1 DEF arguments, memory
<1>8. Linecnt' = Linecnt
  BY <1>7 DEF Linecnt
<1>9. Blocks(val') = {}
  BY <1>5, <1>6 DEF Blocks
<1>10. MemType'
  BY <1>3, <1>5, <1>6, <1>7 DEF MemInv, MemType
<1>11. HoldsBlocks'
  <2>1. AtMostOneMore'
    BY <1>4, <1>7 DEF AtMostOneMore, MemInv, MemType
  <2> QED
    BY <1>4, <1>6, <1>7, <1>9, <2>1 DEF HoldsBlocks, Reading, Whole, Reporting
<1>12. InRoom'
  BY <1>1, <1>2, <1>3, <1>5, <1>6, <1>8 DEF InRoom, Reading
<1>13. MoreIsAddress'
  BY <1>6 DEF MoreIsAddress
<1> QED
  BY <1>10, <1>11, <1>12, <1>13 DEF MemInv

LEMMA AddLineInv == ASSUME MemInv, AddLine PROVE MemInv'
<1>1. /\ at = "lines" /\ made' = made + 1 /\ Free({})
      /\ val' = [val EXCEPT !.vals = Append(@, made'), !.types = Append(@, "ERROR"),
                            !.texts = Append(@, Line)]
      /\ UNCHANGED <<arguments, oom>>
  BY DEF AddLine
<1>2. at' = CASE Len(val'.vals) = Linecnt -> "accepted"
              [] Len(val'.vals) # Linecnt /\ input[LineLen + 1] = "nul" -> "aborted"
              [] OTHER -> "lines"
  BY Zenon DEF AddLine
<1>3. /\ at' \in {"accepted", "aborted", "lines"}
      /\ at' = "lines" => Len(val'.vals) # Linecnt
  BY <1>2
<1>4. made \in Nat /\ MemType
  BY DEF MemInv, MemType
<1>5. made' \in Nat /\ made' >= made /\ made' # 0 /\ (made + 1)..made' = {made'}
  BY <1>1, <1>4
<1>6. /\ live' = (live \cup (made + 1)..made') \ {}
      /\ live' \subseteq 1..made' /\ misfreed' = FALSE
  BY <1>1, <1>4, <1>5, Freed
<1>7. /\ IsVal(val') /\ val'.vals = Append(val.vals, made') /\ val'.val = val.val
      /\ val'.room = val.room /\ val'.troom = val.troom /\ val'.free_me = val.free_me
  BY <1>1, <1>4 DEF MemType, IsVal
<1>8. /\ val.vals \in Seq(Nat) /\ val.val \in Nat /\ val.room \in Nat /\ val.troom \in Nat
      /\ Len(val.vals) \in Nat /\ Len(val.vals) < Linecnt
      /\ Linecnt <= val.room /\ Linecnt <= val.troom
      /\ Blocks(val) \subseteq live /\ (~oom => live = Blocks(val)) /\ val.free_me
  BY <1>1, <1>4 DEF MemInv, MemType, InRoom, HoldsBlocks, Whole, Reporting
<1>9. /\ val'.vals \in Seq(Nat) /\ Len(val'.vals) = Len(val.vals) + 1
      /\ ToSet(val'.vals) = ToSet(val.vals) \cup {made'}
  BY <1>5, <1>7, <1>8, AppendBlock
<1>10. Blocks(val') = Blocks(val) \cup {made'}
  BY <1>7, <1>9 DEF Blocks
<1>11. UNCHANGED <<value, oom>>
  BY <1>1 DEF arguments
<1>12. Linecnt' = Linecnt /\ Linecnt \in Nat
  BY <1>4, <1>11, LinecntType DEF Linecnt, MemType
<1>13. MemType'
  BY <1>4, <1>5, <1>6, <1>7, <1>8, <1>9, <1>11 DEF MemType
<1>14. HoldsBlocks'
  <2>1. Blocks(val') \subseteq live' /\ (~oom' => live' = Blocks(val'))
    BY <1>5, <1>6, <1>8, <1>10, <1>11
  <2> QED
    BY <1>3, <1>7, <1>8, <2>1 DEF HoldsBlocks, Reading, Whole, Reporting
<1>15. InRoom'
  BY <1>3, <1>7, <1>8, <1>9, <1>12 DEF InRoom, Reading
<1>16. MoreIsAddress'
  BY <1>3 DEF MoreIsAddress
<1> QED
  BY <1>13, <1>14, <1>15, <1>16 DEF MemInv

-----------------------------------------------------------------------------
(* The action and its end. *)

LEMMA ExpandInv == ASSUME MemInv, ExpandHelp \/ ExpandCommand PROVE MemInv'
<1>1. /\ \/ at' = "reported" /\ at = "help refused"
         \/ at' = "commands" /\ at \in {"help accepted", "accepted", "commands"}
      /\ value' = <<>> /\ UNCHANGED <<val, memory>>
  BY DEF ExpandHelp, ExpandCommand, Returned
<1>2. UNCHANGED <<val, live, made, misfreed, oom>>
  BY <1>1 DEF memory
<1>3. Blocks(val') = Blocks(val)
  BY <1>2
<1>4. MemType'
  <2>1. value' \in Seq(Pieces)
    BY <1>1, EmptySeq, Zenon
  <2> QED
    BY <1>2, <2>1 DEF MemInv, MemType
<1>5. HoldsBlocks'
  BY <1>1, <1>2, <1>3 DEF MemInv, HoldsBlocks, Reading, Whole, Reporting
<1>6. InRoom' /\ MoreIsAddress'
  BY <1>1, <1>2 DEF MemInv, InRoom, MoreIsAddress, Reading
<1> QED
  BY <1>4, <1>5, <1>6 DEF MemInv

LEMMA UnchangedInv ==
  ASSUME MemInv, UNCHANGED <<at, arguments, lexer, val, memory>>
  PROVE  MemInv'
<1>1. UNCHANGED <<at, def, value, input, val, live, made, misfreed, oom>>
  BY DEF arguments, lexer, memory
<1>2. MemType'
  BY <1>1 DEF MemInv, MemType
<1>3. HoldsBlocks'
  <2>1. /\ (Blocks(val))' = Blocks(val) /\ (IsFirst' <=> IsFirst)
        /\ AtMostOneMore' <=> AtMostOneMore
    BY <1>1 DEF Blocks, IsFirst, AtMostOneMore
  <2> QED
    BY <1>1, <2>1 DEF MemInv, HoldsBlocks
<1>4. InRoom'
  BY <1>1 DEF MemInv, InRoom, Linecnt
<1>5. MoreIsAddress'
  BY <1>1 DEF MemInv, MoreIsAddress, WrongType, IsFirst
<1> QED
  BY <1>2, <1>3, <1>4, <1>5 DEF MemInv

\* free_val finds every string of the value alive and frees it.
LEMMA FreeValStep ==
  ASSUME MemInv, FreeVal
  PROVE  MemInv' /\ StringsAccountedFor'
<1>1. /\ at \in {"accepted", "commands"} /\ at' = "done" /\ made' = made
      /\ val.free_me => Free(Blocks(val))
      /\ val' = [val EXCEPT !.free_me = FALSE] /\ UNCHANGED <<arguments, oom>>
  BY DEF FreeVal
<1>2. Free(Blocks(val)) /\ Blocks(val) \subseteq live /\ (~oom => live = Blocks(val))
  BY <1>1 DEF MemInv, HoldsBlocks, Whole, Reporting
<1>3. made \in Nat /\ MemType
  BY DEF MemInv, MemType
<1> DEFINE blocks == Blocks(val)
<1>4. blocks \subseteq live \cup (made + 1)..made' /\ made' \in Nat /\ made' >= made /\ Free(blocks)
  BY <1>1, <1>2, <1>3
<1> HIDE DEF blocks
<1>5. /\ live' = (live \cup (made + 1)..made') \ blocks
      /\ live' \subseteq 1..made' /\ misfreed' = FALSE
  BY <1>3, <1>4, Freed
<1>6. ~oom => live' = {}
  <2>1. (made + 1)..made' = {}
    BY <1>1, <1>3
  <2> QED
    BY <1>2, <1>5, <2>1 DEF blocks
<1>7. /\ IsVal(val') /\ val'.vals = val.vals /\ val'.val = val.val
      /\ val'.room = val.room /\ val'.troom = val.troom
  BY <1>1, <1>3 DEF MemType, IsVal
<1>8. UNCHANGED <<value, oom>>
  BY <1>1 DEF arguments
<1>9. MemType'
  BY <1>3, <1>4, <1>5, <1>7, <1>8 DEF MemType
<1>10. HoldsBlocks' /\ MoreIsAddress'
  BY <1>1 DEF HoldsBlocks, MoreIsAddress, Reading, Whole, Reporting
<1>11. InRoom'
  BY <1>1, <1>7 DEF MemInv, InRoom, Reading
<1>12. StringsAccountedFor'
  BY <1>1, <1>6, <1>8 DEF StringsAccountedFor
<1> QED
  BY <1>9, <1>10, <1>11, <1>12 DEF MemInv

LEMMA MemNext == ASSUME MemInv, [AtNext]_atVars PROVE MemInv'
<1>1. CASE Over \/ UNCHANGED atVars
  <2>1. UNCHANGED <<at, arguments, lexer, val, memory>>
    BY <1>1 DEF Over, atVars
  <2> QED
    BY <2>1, UnchangedInv
<1>2. CASE ExpandStep
  BY <1>2, UnchangedInv DEF ExpandStep
<1> QED
  BY <1>1, <1>2, Char2ValInv, NotAValueInv, ValueOfWrongTypeInv, TakeFirstInv, TakeNextInv,
     UnexpectedInv, ReadSeparatorInv, OneLineInv, SeveralLinesInv, AddLineInv, ExpandInv,
     FreeValStep
  DEF AtNext

LEMMA MemInvariant == AtSpec => []MemInv
BY MemInit, MemNext, PTL DEF AtSpec

\* For every type of node, every text and every outcome of the allocations, no
\* string of a value is freed twice or before its action is over, and no list
\* of values is longer than either of its arrays.
THEOREM ValuesAreSafe == AtSpec => []MemorySafe
<1>1. MemInv => MemorySafe
  BY DEF MemInv, MemType, HoldsBlocks, InRoom, MemorySafe, Reading, Whole
<1> QED
  BY <1>1, MemInvariant, PTL

\* Whatever the type, the text and the outcome of the allocations, as long as no
\* list failed to grow: after free_val nothing of a value is left; after a
\* refusal the strings of the values taken before it are left, which
\* execute_list does not free, and at most one more string.
THEOREM StringsAreAccountedFor == AtSpec => []StringsAccountedFor
<1>1. AtInit => StringsAccountedFor
  BY DEF AtInit, StringsAccountedFor
<1>2. MemInv /\ StringsAccountedFor /\ [AtNext]_atVars => StringsAccountedFor'
  <2> SUFFICES ASSUME MemInv, StringsAccountedFor, [AtNext]_atVars PROVE StringsAccountedFor'
    OBVIOUS
  <2>1. CASE FreeVal
    BY <2>1, FreeValStep
  <2>2. CASE at' = "done" /\ UNCHANGED <<at, memory>>
    BY <2>2 DEF StringsAccountedFor, memory
  <2>3. CASE at' # "done"
    <3>1. MemInv'
      BY MemNext
    <3> QED
      BY <2>3, <3>1 DEF StringsAccountedFor, MemInv, HoldsBlocks, Reporting
  <2>4. at' # "done" \/ UNCHANGED <<at, memory>> \/ FreeVal
    BY DEF AtNext, atVars, Char2Val, NotAValue, ValueOfWrongType, TakeFirst, TakeNext, Unexpected,
        ReadSeparator, OneLine, SeveralLines, AddLine, ExpandHelp, ExpandCommand, ExpandStep,
        Over, Report, Helping
  <2> QED
    BY <2>1, <2>2, <2>3, <2>4
<1> QED
  BY <1>1, <1>2, MemInvariant, PTL DEF AtSpec

-----------------------------------------------------------------------------
(***************************************************************************)
(* The lines of a text.                                                    *)
(***************************************************************************)

\* A number is found by its rank.
LEMMA NthIs ==
  ASSUME NEW S, S \subseteq Nat, IsFiniteSet(S), NEW i \in S, NEW n \in Nat, Rank(S, i) = n
  PROVE  Nth(S, n + 1) = i
<1> DEFINE B(j) == {m \in S : m < j}
<1>1. \A j : IsFiniteSet(B(j)) /\ Cardinality(B(j)) \in Nat
  <2> TAKE j
  <2>1. B(j) \subseteq S
    OBVIOUS
  <2> HIDE DEF B
  <2> QED
    BY <2>1, FS_Subset, FS_CardinalityType
<1>2. \A j \in S, k \in S : j < k => B(j) # B(k) /\ B(j) \subseteq B(k)
  <2> TAKE j \in S, k \in S
  <2> HAVE j < k
  <2>1. j \in Nat /\ k \in Nat
    OBVIOUS
  <2>2. j \in B(k) /\ j \notin B(j)
    BY <2>1
  <2>3. ASSUME NEW m \in S, m < j PROVE m < k
    <3>1. m \in Nat
      OBVIOUS
    <3> QED
      BY <2>1, <2>3, <3>1
  <2> QED
    BY <2>2, <2>3
<1> HIDE DEF B
<1>3. \A j \in S, k \in S : j < k => Cardinality(B(j)) # Cardinality(B(k))
  <2> TAKE j \in S, k \in S
  <2> HAVE j < k
  <2>1. IsFiniteSet(B(k)) /\ B(j) \subseteq B(k) /\ B(j) # B(k)
    BY <1>1, <1>2
  <2> QED
    BY <2>1, FS_Subset
<1>4. \A j \in S : Rank(S, j) = Cardinality(B(j))
  BY DEF Rank, B
<1>5. \A j \in S : Rank(S, j) = n => j = i
  <2> TAKE j \in S
  <2> HAVE Rank(S, j) = n
  <2>1. ~(j < i) /\ ~(i < j)
    BY <1>3, <1>4
  <2>2. i \in Nat /\ j \in Nat
    OBVIOUS
  <2> QED
    BY <2>1, <2>2
<1>6. n + 1 - 1 = n
  OBVIOUS
<1>7. Nth(S, n + 1) = CHOOSE j \in S : Rank(S, j) = n
  BY <1>6 DEF Nth
<1> QED
  BY <1>5, <1>7

LEMMA BeginsAre ==
  ASSUME value \in Seq(Pieces)
  PROVE  /\ Len(value) \in Nat /\ DOMAIN value = 1..Len(value)
         /\ Begins \subseteq 0..Len(value) /\ Begins \subseteq Nat /\ 0 \in Begins
         /\ \A i \in 1..Len(value) : i \in Begins <=> value[i] = "nl"
         /\ IsFiniteSet(Begins) /\ Lines \in Nat
         /\ \A i : Rank(Begins, i) \in Nat
<1>1. Len(value) \in Nat /\ DOMAIN value = 1..Len(value)
  OBVIOUS
<1>2. /\ Begins \subseteq 0..Len(value) /\ Begins \subseteq Nat /\ 0 \in Begins
      /\ \A i \in 1..Len(value) : i \in Begins <=> value[i] = "nl"
  BY <1>1 DEF Begins
<1>3. IsFiniteSet(0..Len(value))
  BY <1>1, FS_Interval
<1>4. IsFiniteSet(Begins)
  BY <1>2, <1>3, FS_Subset
<1>5. Lines \in Nat
  BY <1>4, FS_CardinalityType DEF Lines
<1>6. \A i : Rank(Begins, i) \in Nat
  <2> TAKE i
  <2>1. PICK B : B = {j \in Begins : j < i}
    OBVIOUS
  <2>2. B \subseteq Begins
    BY <2>1
  <2>3. IsFiniteSet(B)
    BY <1>4, <2>2, FS_Subset
  <2>4. Cardinality(B) \in Nat
    BY <2>3, FS_CardinalityType
  <2> QED
    BY <2>1, <2>4 DEF Rank
<1> QED
  BY <1>1, <1>2, <1>4, <1>5, <1>6

\* The line after the one from b to a newline at e.
LEMMA NextBegin ==
  ASSUME value \in Seq(Pieces), NEW b \in Begins, NEW e \in b + 1..Len(value), IsEnd(b, e)
  PROVE  e \in Begins /\ Rank(Begins, e) = Rank(Begins, b) + 1
<1>1. /\ Len(value) \in Nat /\ Begins \subseteq 0..Len(value)
      /\ \A i \in 1..Len(value) : i \in Begins <=> value[i] = "nl"
      /\ IsFiniteSet(Begins)
  BY BeginsAre
<1>2. b \in Nat /\ e \in 1..Len(value) /\ e # Len(value) + 1 /\ b < e
  BY <1>1
<1>3. e \in Begins
  BY <1>1, <1>2 DEF IsEnd
<1>4. PICK B, E : B = {j \in Begins : j < b} /\ E = {j \in Begins : j < e}
  OBVIOUS
<1>5. \A j \in Begins : j < e <=> j < b \/ j = b
  <2> TAKE j \in Begins
  <2>1. j \in 0..Len(value)
    BY <1>1
  <2>2. ASSUME b < j, j < e PROVE FALSE
    <3>1. j \in b + 1..e - 1 /\ j \in 1..Len(value)
      BY <1>1, <1>2, <2>1, <2>2
    <3> QED
      BY <1>1, <3>1 DEF IsEnd
  <2> QED
    BY <1>2, <2>1, <2>2
<1>6. E = B \cup {b} /\ b \notin B
  <2>1. ~(b < b)
    BY <1>2
  <2> QED
    BY <1>4, <1>5, <2>1, Zenon
<1>7. IsFiniteSet(B)
  <2>1. B \subseteq Begins
    BY <1>4
  <2> QED
    BY <1>1, <2>1, FS_Subset
<1>8. Cardinality(E) = Cardinality(B) + 1
  BY <1>6, <1>7, FS_AddElement
<1> QED
  BY <1>3, <1>4, <1>8 DEF Rank

\* The line from b to the end of the text is the last one.
LEMMA LastBegin ==
  ASSUME value \in Seq(Pieces), NEW b \in Begins, IsEnd(b, Len(value) + 1)
  PROVE  Lines = Rank(Begins, b) + 1
<1>1. /\ Len(value) \in Nat /\ Begins \subseteq 0..Len(value)
      /\ \A i \in 1..Len(value) : i \in Begins <=> value[i] = "nl"
      /\ IsFiniteSet(Begins)
  BY BeginsAre
<1>2. b \in Nat /\ b <= Len(value)
  BY <1>1
<1>3. PICK B : B = {j \in Begins : j < b}
  OBVIOUS
<1>4. \A j \in Begins : j < b \/ j = b
  <2> TAKE j \in Begins
  <2>1. j \in 0..Len(value)
    BY <1>1
  <2>2. ASSUME b < j PROVE FALSE
    <3>1. j \in b + 1..(Len(value) + 1) - 1 /\ j \in 1..Len(value)
      BY <1>1, <1>2, <2>1, <2>2
    <3> QED
      BY <1>1, <3>1 DEF IsEnd
  <2> QED
    BY <1>2, <2>1, <2>2
<1>5. Begins = B \cup {b} /\ b \notin B
  <2>1. ~(b < b)
    BY <1>2
  <2> QED
    BY <1>3, <1>4, <2>1, Zenon
<1>6. IsFiniteSet(B)
  <2>1. B \subseteq Begins
    BY <1>3
  <2> QED
    BY <1>1, <2>1, FS_Subset
<1>7. Cardinality(Begins) = Cardinality(B) + 1
  BY <1>5, <1>6, FS_AddElement
<1> QED
  BY <1>3, <1>7 DEF Rank, Lines

\* A line, by where it begins and ends.
IsLine(line, b, e) ==
  /\ line \in Seq(Pieces) /\ Len(line) = e - b - 1
  /\ DOMAIN line = 1..e - b - 1
  /\ \A i \in 1..e - b - 1 : line[i] = value[b + i]

LEMMA LineIs ==
  ASSUME value \in Seq(Pieces), NEW b \in Begins, NEW e \in b + 1..Len(value) + 1, IsEnd(b, e)
  PROVE  /\ LineFrom(b) = SubSeq(value, b + 1, e - 1)
         /\ IsLine(LineFrom(b), b, e)
<1>1. Len(value) \in Nat /\ b \in Nat
  BY BeginsAre
<1>2. \A f \in b + 1..Len(value) + 1 : IsEnd(b, f) => f = e
  <2> TAKE f \in b + 1..Len(value) + 1
  <2> HAVE IsEnd(b, f)
  <2>1. ASSUME f < e PROVE FALSE
    <3>1. f \in b + 1..e - 1 /\ f # Len(value) + 1
      BY <1>1, <2>1
    <3> QED
      BY <3>1 DEF IsEnd
  <2>2. ASSUME e < f PROVE FALSE
    <3>1. e \in b + 1..f - 1 /\ e # Len(value) + 1
      BY <1>1, <2>2
    <3> QED
      BY <3>1 DEF IsEnd
  <2> QED
    BY <1>1, <2>1, <2>2
<1>3. LineFrom(b) = SubSeq(value, b + 1, e - 1)
  <2>1. (CHOOSE f \in b + 1..Len(value) + 1 : IsEnd(b, f)) = e
    BY <1>2
  <2> QED
    BY <2>1 DEF LineFrom
<1>4. PICK l : l = SubSeq(value, b + 1, e - 1)
  OBVIOUS
<1>5. \A i \in b + 1..e - 1 : value[i] \in Pieces
  BY <1>1
<1>6. /\ l \in Seq(Pieces)
      /\ Len(l) = IF b + 1 <= e - 1 THEN (e - 1) - (b + 1) + 1 ELSE 0
      /\ \A i \in 1..(e - 1) - (b + 1) + 1 : l[i] = value[b + 1 + i - 1]
  BY <1>1, <1>4, <1>5, SubSeqProperties
<1>7. Len(l) = e - b - 1 /\ \A i \in 1..e - b - 1 : l[i] = value[b + i]
  BY <1>1, <1>6
<1>8. DOMAIN l = 1..e - b - 1
  BY <1>6, <1>7, LenProperties
<1> QED
  BY <1>3, <1>4, <1>6, <1>7, <1>8 DEF IsLine

\* The line at a beginning has the number of that beginning.
LEMMA LineAt ==
  ASSUME value \in Seq(Pieces), NEW b \in Begins, NEW e \in b + 1..Len(value) + 1, IsEnd(b, e)
  PROVE  IsLine(NthLine(Rank(Begins, b) + 1), b, e)
<1>1. PICK n \in Nat : n = Rank(Begins, b)
  BY BeginsAre
<1>2. Nth(Begins, n + 1) = b
  BY <1>1, BeginsAre, NthIs
<1>3. NthLine(n + 1) = LineFrom(b)
  BY <1>2 DEF NthLine
<1> QED
  BY <1>1, <1>3, LineIs

-----------------------------------------------------------------------------
(* What the lexer has not read.                                            *)

Ended == Append(value, "nul")
Letters == Pieces \cup {"nul"}

\* The text behind piece p.
Behind(p) == SubSeq(Ended, p + 1, Len(value) + 1)

LEMMA EndedIs ==
  ASSUME value \in Seq(Pieces)
  PROVE  /\ Ended \in Seq(Letters) /\ Len(Ended) = Len(value) + 1
         /\ \A i \in 1..Len(value) : Ended[i] = value[i] /\ Ended[i] # "nul"
         /\ Ended[Len(value) + 1] = "nul"
<1>1. value \in Seq(Letters) /\ "nul" \in Letters /\ Len(value) \in Nat
  BY SeqMonotonic DEF Letters
<1>2. /\ Ended \in Seq(Letters) /\ Len(Ended) = Len(value) + 1
      /\ \A i \in 1..Len(value) : Ended[i] = value[i]
      /\ Ended[Len(value) + 1] = "nul"
  BY <1>1, AppendProperties DEF Ended
<1>3. \A i \in 1..Len(value) : value[i] # "nul"
  BY DEF Pieces
<1> QED
  BY <1>2, <1>3

LEMMA BehindIs ==
  ASSUME value \in Seq(Pieces), NEW p \in 0..Len(value) + 1
  PROVE  /\ Behind(p) \in Seq(Letters) /\ Len(Behind(p)) = Len(value) + 1 - p
         /\ \A i \in 1..Len(value) + 1 - p : Behind(p)[i] = Ended[p + i]
         /\ \A k \in 0..Len(value) + 1 - p : SubSeq(Behind(p), k + 1, Len(Behind(p))) = Behind(p + k)
         /\ Behind(p) = <<>> <=> p = Len(value) + 1
<1>1. PICK n \in Nat : n = Len(value)
  OBVIOUS
<1>2. PICK E : E = Ended
  OBVIOUS
<1>3. E \in Seq(Letters) /\ Len(E) = n + 1
  BY <1>1, <1>2, EndedIs
<1>4. ASSUME NEW q \in 0..n + 1
      PROVE  /\ Behind(q) \in Seq(Letters) /\ Len(Behind(q)) = n + 1 - q
             /\ \A i \in 1..n + 1 - q : Behind(q)[i] = E[q + i]
  <2>1. \A i \in q + 1..n + 1 : E[i] \in Letters
    BY <1>3
  <2>2. PICK l : l = SubSeq(E, q + 1, n + 1)
    OBVIOUS
  <2>3. /\ l \in Seq(Letters)
        /\ Len(l) = IF q + 1 <= n + 1 THEN (n + 1) - (q + 1) + 1 ELSE 0
        /\ \A i \in 1..(n + 1) - (q + 1) + 1 : l[i] = E[q + 1 + i - 1]
    BY <2>1, <2>2, SubSeqProperties
  <2>4. Len(l) = n + 1 - q /\ \A i \in 1..n + 1 - q : l[i] = E[q + i]
    BY <2>3
  <2>5. l = Behind(q)
    BY <1>1, <1>2, <2>2 DEF Behind
  <2> QED
    BY <2>3, <2>4, <2>5
<1>5. PICK B : B = Behind(p)
  OBVIOUS
<1>6. /\ B \in Seq(Letters) /\ Len(B) = n + 1 - p
      /\ \A i \in 1..n + 1 - p : B[i] = E[p + i]
  BY <1>1, <1>4, <1>5
<1>7. ASSUME NEW k \in 0..n + 1 - p PROVE SubSeq(B, k + 1, Len(B)) = Behind(p + k)
  <2>1. PICK m \in Nat : m = n + 1 - p
    BY <1>1
  <2>2. PICK C, D : C = SubSeq(B, k + 1, m) /\ D = Behind(p + k)
    OBVIOUS
  <2>3. p + k \in 0..n + 1 /\ n + 1 - (p + k) = m - k
    BY <1>1, <2>1
  <2>4. /\ D \in Seq(Letters) /\ Len(D) = m - k
        /\ \A i \in 1..m - k : D[i] = E[(p + k) + i]
    BY <1>4, <2>2, <2>3
  <2>5. \A i \in k + 1..m : B[i] \in Letters
    BY <1>6, <2>1
  <2>6. /\ C \in Seq(Letters) /\ Len(C) = IF k + 1 <= m THEN m - (k + 1) + 1 ELSE 0
        /\ \A i \in 1..m - (k + 1) + 1 : C[i] = B[k + 1 + i - 1]
    <3>1. k + 1 \in Int /\ m \in Int
      BY <1>1
    <3> QED
      BY <2>2, <2>5, <3>1, SubSeqProperties
  <2>7. Len(C) = m - k
    BY <2>1, <2>6
  <2>8. ASSUME NEW i \in 1..m - k PROVE C[i] = D[i]
    <3>1. PICK j \in 1..m : j = k + i /\ k + 1 + i - 1 = j /\ p + j = (p + k) + i
      BY <1>1, <2>1
    <3>2. C[i] = B[j] /\ B[j] = E[p + j]
      BY <1>6, <2>1, <2>6, <3>1
    <3>3. D[i] = E[(p + k) + i]
      BY <2>4
    <3> QED
      BY <3>1, <3>2, <3>3
  <2>9. C = D
    BY <2>4, <2>6, <2>7, <2>8, SeqEqual
  <2> QED
    BY <1>6, <2>1, <2>2, <2>9
<1>8. B = <<>> <=> p = n + 1
  <2>1. B = <<>> <=> Len(B) = 0
    BY <1>6, EmptySeq
  <2> QED
    BY <1>1, <1>6, <2>1
<1> QED
  BY <1>1, <1>2, <1>5, <1>6, <1>7, <1>8

\* A set of natural numbers that is not empty has a least element.
LEMMA MinIs ==
  ASSUME NEW S, S \subseteq Nat, S # {}
  PROVE  Min(S) \in S /\ \A i \in S : Min(S) <= i
<1> DEFINE R == OpToRel(<, Nat)
<1>1. IsWellFoundedOn(R, Nat)
  BY NatLessThanWellFounded, Zenon
<1>2. \A i, j \in Nat : j < i => <<j, i>> \in R
  BY DEF OpToRel
<1> HIDE DEF R
<1>3. PICK x \in S : \A j \in S : <<j, x>> \notin R
  BY <1>1, WFMin
<1>4. ASSUME NEW j \in S PROVE x <= j
  <2>1. x \in Nat /\ j \in Nat
    OBVIOUS
  <2>2. ~(j < x)
    BY <1>2, <1>3, <2>1
  <2> QED
    BY <2>1, <2>2
<1>5. \E i \in S : \A j \in S : i <= j
  BY <1>4
<1> QED
  BY <1>5 DEF Min

\* The token at piece k, the first behind p that is not blank.
IsToken(t, p, k, line) ==
  LET whole == line /\ k = p + 1 /\ k = Len(value)
  IN  /\ Ended[k] = "nl" => t.token = "EOL" /\ t.rest = Behind(k) /\ t.bol = TRUE
      /\ Ended[k] = "::" =>
           /\ t.token = "VALUE" /\ t.piece = "::" /\ t.bol = FALSE
           /\ t.rest = IF whole THEN <<>> ELSE Behind(k)
      /\ Ended[k] \in {"number", "true"} /\ whole =>
           /\ t.token = "VALUE" /\ t.piece = Ended[k] /\ t.rest = <<>>
      /\ Ended[k] \in {"number", "true"} /\ ~whole => t.token = "SYNTAX_ERROR"
      /\ Ended[k] \in {"?", "nul"} => t.token = "SYNTAX_ERROR"

\* Blanks up to piece k.
Skips(p, k) == Ended[k] # "blank" /\ \A j \in p + 1..k - 1 : Ended[j] = "blank"

LEMMA LexBehind ==
  ASSUME value \in Seq(Pieces), NEW p \in 0..Len(value), NEW line
  PROVE  \E k \in p + 1..Len(value) + 1 : Skips(p, k) /\ IsToken(Lex(Behind(p), line), p, k, line)
<1>1. PICK n \in Nat : n = Len(value)
  OBVIOUS
<1>2. PICK in : in = Behind(p)
  OBVIOUS
<1>3. /\ in \in Seq(Letters) /\ Len(in) = n + 1 - p
      /\ \A i \in 1..n + 1 - p : in[i] = Ended[p + i]
      /\ \A i \in 0..n + 1 - p : SubSeq(in, i + 1, Len(in)) = Behind(p + i)
  <2>1. p \in 0..Len(value) + 1
    OBVIOUS
  <2> QED
    BY <1>1, <1>2, <2>1, BehindIs
<1>4. Ended[n + 1] = "nul"
  BY <1>1, EndedIs
<1>5. PICK I : I = {i \in 1..Len(in) : in[i] # "blank"}
  OBVIOUS
<1>6. I \subseteq Nat /\ I # {}
  <2>1. n + 1 - p \in 1..n + 1 - p /\ p + (n + 1 - p) = n + 1
    BY <1>1
  <2>2. in[n + 1 - p] = "nul"
    BY <1>3, <1>4, <2>1
  <2>3. n + 1 - p \in I
    BY <1>3, <1>5, <2>1, <2>2
  <2> QED
    BY <1>5, <2>3
<1>7. PICK m : m = SelectInSeq(in, LAMBDA x : x # "blank")
  OBVIOUS
<1>8. m = Min(I)
  BY <1>5, <1>6, <1>7 DEF SelectInSeq
<1>9. m \in I /\ \A i \in I : m <= i
  BY <1>6, <1>8, MinIs
<1>10. m \in 1..n + 1 - p /\ in[m] # "blank" /\ \A i \in 1..m - 1 : in[i] = "blank"
  <2>1. m \in 1..n + 1 - p /\ in[m] # "blank"
    BY <1>3, <1>5, <1>9
  <2>2. ASSUME NEW i \in 1..m - 1 PROVE in[i] = "blank"
    <3>1. i \notin I /\ i \in 1..Len(in)
      BY <1>3, <1>9, <2>1
    <3> QED
      BY <1>5, <3>1
  <2> QED
    BY <2>1, <2>2
<1>11. PICK k \in p + 1..n + 1 : k = p + m
  BY <1>1, <1>10
<1>12. in[m] = Ended[k]
  BY <1>3, <1>10, <1>11
<1>13. Skips(p, k)
  <2>1. ASSUME NEW j \in p + 1..k - 1 PROVE Ended[j] = "blank"
    <3>1. PICK i \in 1..m - 1 : j = p + i
      <4>1. j - p \in 1..m - 1 /\ j = p + (j - p)
        BY <1>10, <1>11
      <4> QED
        BY <4>1
    <3>2. i \in 1..n + 1 - p
      BY <1>10
    <3>3. in[i] = Ended[p + i]
      BY <1>3, <3>2
    <3> QED
      BY <1>10, <3>1, <3>3
  <2> QED
    BY <1>10, <1>12, <2>1 DEF Skips
<1>14. PICK rest : rest = SubSeq(in, m + 1, Len(in))
  OBVIOUS
<1>15. rest = Behind(k)
  <2>1. m \in 0..n + 1 - p
    BY <1>10
  <2> QED
    BY <1>3, <1>11, <1>14, <2>1
<1>16. rest = <<"nul">> <=> k = n
  <2>0. k \in 0..Len(value) + 1
    BY <1>1
  <2>1. /\ rest \in Seq(Letters) /\ Len(rest) = n + 1 - k
        /\ \A i \in 1..n + 1 - k : rest[i] = Ended[k + i]
    BY <1>1, <1>15, <2>0, BehindIs
  <2>2. ASSUME rest = <<"nul">> PROVE k = n
    <3>1. Len(rest) = 1
      BY <2>2
    <3>2. k \in Nat
      BY <1>1, <2>0
    <3>3. n + 1 - k = 1
      BY <2>1, <3>1, Zenon
    <3> QED
      BY <3>2, <3>3
  <2>3. ASSUME k = n PROVE rest = <<"nul">>
    <3>1. Len(rest) = 1 /\ rest[1] = "nul"
      BY <1>4, <2>1, <2>3
    <3>2. <<"nul">> \in Seq(Letters) /\ Len(<<"nul">>) = 1 /\ <<"nul">>[1] = "nul"
      BY DEF Letters
    <3>3. PICK w : w = <<"nul">>
      OBVIOUS
    <3>4. \A i \in 1..Len(rest) : rest[i] = w[i]
      BY <3>1, <3>2, <3>3
    <3>5. rest = w
      BY <2>1, <3>1, <3>2, <3>3, <3>4, SeqEqual
    <3> QED
      BY <3>3, <3>5
  <2> QED
    BY <2>2, <2>3
<1>17. m = 1 <=> k = p + 1
  BY <1>10, <1>11
<1>18. PICK t : t = Lex(in, line)
  OBVIOUS
<1>19. t =
        CASE m = 0 -> [token |-> "end", piece |-> "nul", rest |-> <<>>, bol |-> line]
        [] m # 0 /\ in[m] = "nl" -> [token |-> "EOL", piece |-> "nl", rest |-> rest, bol |-> TRUE]
        [] m # 0 /\ in[m] = "::" ->
             [token |-> "VALUE", piece |-> "::",
              rest |-> IF line /\ m = 1 /\ rest = <<"nul">> THEN <<>> ELSE rest, bol |-> FALSE]
        [] m # 0 /\ in[m] \in {"number", "true"} /\ line /\ m = 1 /\ rest = <<"nul">> ->
             [token |-> "VALUE", piece |-> in[m], rest |-> <<>>, bol |-> FALSE]
        [] OTHER ->
             [token |-> "SYNTAX_ERROR", piece |-> "?", rest |-> Characters(in[m]) \o rest, bol |-> FALSE]
  BY <1>7, <1>14, <1>18, Zenon DEF Lex
<1>20. m # 0
  BY <1>10
<1>21. PICK x : x = Ended[k]
  OBVIOUS
<1>22. PICK whole \in BOOLEAN : whole <=> line /\ k = p + 1 /\ k = n
  OBVIOUS
<1>23. t =
        CASE x = "nl" -> [token |-> "EOL", piece |-> "nl", rest |-> Behind(k), bol |-> TRUE]
        [] x = "::" ->
             [token |-> "VALUE", piece |-> "::", rest |-> IF whole THEN <<>> ELSE Behind(k), bol |-> FALSE]
        [] x \in {"number", "true"} /\ whole ->
             [token |-> "VALUE", piece |-> x, rest |-> <<>>, bol |-> FALSE]
        [] OTHER ->
             [token |-> "SYNTAX_ERROR", piece |-> "?", rest |-> Characters(x) \o Behind(k), bol |-> FALSE]
  BY <1>12, <1>15, <1>16, <1>17, <1>19, <1>20, <1>21, <1>22
<1>24. IsToken(t, p, k, line)
  <2>1. x = "nl" => t.token = "EOL" /\ t.rest = Behind(k) /\ t.bol = TRUE
    BY <1>23
  <2>2. x = "::" => /\ t.token = "VALUE" /\ t.piece = "::" /\ t.bol = FALSE
                    /\ t.rest = IF whole THEN <<>> ELSE Behind(k)
    BY <1>23
  <2>3. x \in {"number", "true"} /\ whole => t.token = "VALUE" /\ t.piece = x /\ t.rest = <<>>
    BY <1>23
  <2>4. x \in {"number", "true"} /\ ~whole => t.token = "SYNTAX_ERROR"
    BY <1>23
  <2>5. x \in {"?", "nul"} => t.token = "SYNTAX_ERROR"
    BY <1>23
  <2> QED
    BY <1>1, <1>21, <1>22, <2>1, <2>2, <2>3, <2>4, <2>5 DEF IsToken
<1> QED
  BY <1>1, <1>2, <1>13, <1>18, <1>24

-----------------------------------------------------------------------------
(* The inductive invariant.                                                *)

\* The lines in front of the one that begins at b.
SoFar(b) == \A n \in 1..Rank(Begins, b) : HoldsAddress(NthLine(n))

\* A value of c addresses.
Addresses(c) == [i \in 1..c |-> <<"::">>]

\* What char2val makes of a text that is not refused.
Expected == IF def.multi THEN Suitable ELSE <<Suitable[1]>>
Complete == WellFormed /\ (~oom => Held = Expected)

\* As many addresses are held as there were lines, unless the node takes one.
HoldsLines(c) == ~oom => Held = Addresses(IF def.multi THEN c ELSE 1)

\* A line begins at b.
AtBegin(b) ==
  /\ b \in Begins /\ input = Behind(b) /\ bol = TRUE
  /\ SoFar(b)
  /\ IsFirst <=> b = 0
  /\ b # 0 => Suits("IPV6") /\ HoldsLines(Rank(Begins, b))

\* The line that begins at b has a "::" at k.
AtAddress(b, k) ==
  /\ b \in Begins /\ k \in b + 1..Len(value) /\ input = Behind(k)
  /\ Skips(b, k) /\ Ended[k] = "::" /\ ~(k = b + 1 /\ k = Len(value))
  /\ SoFar(b)
  /\ Suits("IPV6") /\ HoldsLines(Rank(Begins, b) + 1)

\* The lines of a text are copied up to b.
AtCopy(b) ==
  /\ b \in Begins /\ input = Behind(b)
  /\ Len(val.vals) = Rank(Begins, b)
  /\ val.texts = [n \in 1..Rank(Begins, b) |-> NthLine(n)]

TextInv ==
  /\ at = "value" => ~Textual /\ \E b : AtBegin(b)
  /\ at = "separator" => ~Textual /\ ((input = <<>> /\ Complete) \/ \E b, k : AtAddress(b, k))
  /\ at = "text" => Textual /\ input = Behind(0)
  /\ at = "lines" => Textual /\ \E b : AtCopy(b)
  /\ AcceptsMeaning

\* What is said of the text alone.
LEMMA TextFixed ==
  ASSUME UNCHANGED <<def, value>>
  PROVE  /\ Begins' = Begins /\ Ended' = Ended /\ Lines' = Lines /\ Len(value)' = Len(value)
         /\ \A p : Behind(p)' = Behind(p)
         /\ \A n : NthLine(n)' = NthLine(n)
         /\ \A p, k : Skips(p, k)' <=> Skips(p, k)
         /\ \A b : SoFar(b)' <=> SoFar(b)
         /\ \A t : Suits(t)' <=> Suits(t)
         /\ Textual' <=> Textual
         /\ WellFormed' <=> WellFormed
         /\ \A n : ValueOf(n)' = ValueOf(n)
         /\ Suitable' = Suitable
         /\ Expected' = Expected
         /\ TextLines' = TextLines
         /\ Linecnt' = Linecnt
<1>1. Begins' = Begins /\ Ended' = Ended /\ Len(value)' = Len(value)
  BY DEF Begins, Ended
<1>2. Lines' = Lines
  BY <1>1 DEF Lines
<1>3. \A p : Behind(p)' = Behind(p)
  BY <1>1 DEF Behind
<1>4. \A b : LineFrom(b)' = LineFrom(b)
  BY DEF LineFrom, IsEnd
<1>5. \A n : NthLine(n)' = NthLine(n)
  BY <1>1, <1>4 DEF NthLine
<1>6. \A p, k : Skips(p, k)' <=> Skips(p, k)
  BY <1>1 DEF Skips
<1>7. \A b : SoFar(b)' <=> SoFar(b)
  BY <1>1, <1>5 DEF SoFar
<1>8. \A t : Suits(t)' <=> Suits(t)
  BY DEF Suits
<1>9. Textual' <=> Textual
  BY DEF Textual
<1>10. WellFormed' <=> WellFormed
  BY <1>2, <1>5 DEF WellFormed
<1>11. \A n : ValueOf(n)' = ValueOf(n)
  BY <1>5 DEF ValueOf
<1>12. Suitable' = Suitable
  BY <1>2, <1>8, <1>11 DEF Suitable
<1>13. Expected' = Expected
  BY <1>12 DEF Expected
<1>14. TextLines' = TextLines
  BY <1>2, <1>5 DEF TextLines, LineSeq
<1>15. Linecnt' = Linecnt
  BY DEF Linecnt
<1> QED
  BY <1>1, <1>2, <1>3, <1>5, <1>6, <1>7, <1>8, <1>9, <1>10, <1>11, <1>12, <1>13, <1>14, <1>15

\* Every line has an end.
LEMMA EndExists ==
  ASSUME value \in Seq(Pieces), NEW b \in Begins
  PROVE  \E e \in b + 1..Len(value) + 1 : IsEnd(b, e)
<1>1. PICK n \in Nat : n = Len(value)
  OBVIOUS
<1>2. b \in 0..n
  BY <1>1, BeginsAre
<1>3. PICK S : S = {e \in b + 1..n + 1 : e = n + 1 \/ value[e] = "nl"}
  OBVIOUS
<1>4. S \subseteq Nat /\ n + 1 \in S
  BY <1>2, <1>3
<1>5. PICK e \in S : \A i \in S : e <= i
  <2>1. Min(S) \in S /\ \A i \in S : Min(S) <= i
    BY <1>4, MinIs
  <2> QED
    BY <2>1
<1>6. e \in b + 1..n + 1 /\ (e = n + 1 \/ value[e] = "nl")
  BY <1>3
<1>7. ASSUME NEW i \in b + 1..e - 1 PROVE value[i] # "nl"
  <2>1. i \in b + 1..n + 1 /\ ~(e <= i)
    BY <1>1, <1>2, <1>6
  <2>2. i \notin S
    BY <1>5, <2>1
  <2> QED
    BY <1>3, <2>1, <2>2
<1> QED
  BY <1>1, <1>6, <1>7 DEF IsEnd

\* The number of a line is at most the number of lines; the first is number 1.
LEMMA RankIs ==
  ASSUME value \in Seq(Pieces), NEW b \in Begins
  PROVE  Rank(Begins, b) \in Nat /\ Rank(Begins, b) < Lines /\ (Rank(Begins, b) = 0 <=> b = 0)
<1>1. /\ IsFiniteSet(Begins) /\ Begins \subseteq Nat /\ Lines \in Nat /\ 0 \in Begins
      /\ Rank(Begins, b) \in Nat
  BY BeginsAre
<1>2. PICK B : B = {j \in Begins : j < b}
  OBVIOUS
<1>3. b \in Nat /\ ~(b < b)
  BY <1>1
<1>4. B \subseteq Begins /\ b \notin B
  BY <1>2, <1>3
<1>5. B # Begins
  BY <1>4
<1>6. IsFiniteSet(B) /\ Cardinality(B) < Cardinality(Begins)
  <2>1. /\ IsFiniteSet(B) /\ Cardinality(B) <= Cardinality(Begins)
        /\ Cardinality(B) = Cardinality(Begins) => B = Begins
    BY <1>1, <1>4, FS_Subset
  <2>2. Cardinality(B) \in Nat /\ Cardinality(Begins) \in Nat
    BY <1>1, <2>1, FS_CardinalityType
  <2> QED
    BY <1>5, <2>1, <2>2
<1>7. Rank(Begins, b) = Cardinality(B)
  BY <1>2 DEF Rank
<1>8. Cardinality(B) = 0 <=> B = {}
  BY <1>6, FS_EmptySet
<1>9. B = {} <=> b = 0
  <2>1. ASSUME b = 0 PROVE B = {}
    <3>1. \A j \in Begins : ~(j < b)
      BY <1>1, <2>1
    <3> QED
      BY <1>2, <3>1
  <2>2. ASSUME b # 0 PROVE 0 \in B
    <3>1. 0 < b
      BY <1>3, <2>2
    <3> QED
      BY <1>1, <1>2, <3>1
  <2> QED
    BY <2>1, <2>2
<1> QED
  BY <1>1, <1>6, <1>7, <1>8, <1>9 DEF Lines

-----------------------------------------------------------------------------
(* Well-formed lines by their pieces.                                      *)

Values == {"::", "number", "true"}

IsAddress(b, i, e) ==
  /\ i \in b + 1..e - 1 /\ value[i] = "::"
  /\ \A j \in b + 1..e - 1 : j # i => value[j] = "blank"

LEMMA AddressLine ==
  ASSUME value \in Seq(Pieces), NEW b \in Begins, NEW e \in b + 1..Len(value) + 1, IsEnd(b, e)
  PROVE  HoldsAddress(NthLine(Rank(Begins, b) + 1)) <=> \E i : IsAddress(b, i, e)
<1>1. PICK l : l = NthLine(Rank(Begins, b) + 1)
  OBVIOUS
<1>2. PICK m \in Nat : m = e - b - 1 /\ b \in Nat /\ e = b + m + 1
  <2>1. b \in Nat /\ Len(value) \in Nat
    BY BeginsAre
  <2>2. e - b - 1 \in Nat /\ e = b + (e - b - 1) + 1
    BY <2>1
  <2> QED
    BY <2>1, <2>2
<1>3. DOMAIN l = 1..m /\ \A i \in 1..m : l[i] = value[b + i]
  BY <1>1, <1>2, LineAt DEF IsLine
<1>4. ASSUME NEW i \in 1..m, l[i] = "::", \A j \in 1..m \ {i} : l[j] = "blank"
      PROVE  IsAddress(b, b + i, e)
  <2>1. b + i \in b + 1..e - 1 /\ value[b + i] = "::"
    BY <1>2, <1>3, <1>4
  <2>2. ASSUME NEW j \in b + 1..e - 1, j # b + i PROVE value[j] = "blank"
    <3>1. PICK h \in 1..m : j = b + h
      <4>1. j - b \in 1..m /\ j = b + (j - b)
        BY <1>2
      <4> QED
        BY <4>1
    <3>2. h \in 1..m \ {i}
      BY <2>2, <3>1
    <3> QED
      BY <1>3, <1>4, <3>1, <3>2
  <2> QED
    BY <2>1, <2>2 DEF IsAddress
<1>5. ASSUME NEW i, IsAddress(b, i, e)
      PROVE  \E h \in 1..m : l[h] = "::" /\ \A j \in 1..m \ {h} : l[j] = "blank"
  <2>1. i \in b + 1..e - 1 /\ value[i] = "::" /\ \A j \in b + 1..e - 1 : j # i => value[j] = "blank"
    BY <1>5 DEF IsAddress
  <2>2. PICK h \in 1..m : i = b + h
    <3>1. i - b \in 1..m /\ i = b + (i - b)
      BY <1>2, <2>1
    <3> QED
      BY <3>1
  <2>3. ASSUME NEW j \in 1..m \ {h} PROVE l[j] = "blank"
    <3>1. b + j \in b + 1..e - 1 /\ b + j # i
      BY <1>2, <2>2
    <3> QED
      BY <1>3, <2>1, <3>1
  <2> QED
    BY <1>3, <2>1, <2>2, <2>3
<1>6. HoldsAddress(l) <=> \E i \in 1..m : l[i] = "::" /\ \A j \in 1..m \ {i} : l[j] = "blank"
  BY <1>3 DEF HoldsAddress
<1> QED
  BY <1>1, <1>4, <1>5, <1>6

\* The last line of a well-formed text.
LEMMA LastLine ==
  ASSUME value \in Seq(Pieces), NEW b \in Begins, IsEnd(b, Len(value) + 1), NEW p
  PROVE  NthLine(Lines) = <<p>> <=> b + 1 = Len(value) /\ value[Len(value)] = p
<1>1. PICK n \in Nat : n = Len(value)
  OBVIOUS
<1>2. b \in 0..n
  BY <1>1, BeginsAre
<1>3. PICK l : l = NthLine(Lines)
  OBVIOUS
<1>4. Len(value) + 1 \in b + 1..Len(value) + 1
  BY <1>1, <1>2
<1>5. IsLine(l, b, n + 1)
  <2>1. IsLine(NthLine(Rank(Begins, b) + 1), b, Len(value) + 1)
    BY <1>4, LineAt
  <2>2. Rank(Begins, b) + 1 = Lines
    BY LastBegin
  <2> QED
    BY <1>1, <1>3, <2>1, <2>2, Zenon
<1>6. l \in Seq(Pieces) /\ Len(l) = (n + 1) - b - 1 /\ \A i \in 1..(n + 1) - b - 1 : l[i] = value[b + i]
  BY <1>5 DEF IsLine
<1>7. PICK m \in Nat : m = (n + 1) - b - 1 /\ n = b + m
  <2>1. (n + 1) - b - 1 \in Nat /\ n = b + ((n + 1) - b - 1)
    BY <1>1, <1>2
  <2> QED
    BY <2>1
<1>8. ASSUME l = <<p>> PROVE b + 1 = n /\ value[n] = p
  <2>1. Len(l) = 1 /\ l[1] = p
    BY <1>8
  <2>2. m = 1
    BY <1>6, <1>7, <2>1
  <2> QED
    BY <1>2, <1>6, <1>7, <2>1, <2>2
<1>9. ASSUME b + 1 = n, value[n] = p PROVE l = <<p>>
  <2>1. m = 1
    BY <1>2, <1>7, <1>9
  <2>2. Len(l) = 1 /\ l[1] = p
    <3>1. Len(l) = m /\ \A i \in 1..m : l[i] = value[b + i]
      BY <1>6, <1>7, Zenon
    <3>2. Len(l) = 1 /\ l[1] = value[b + 1]
      BY <2>1, <3>1
    <3> QED
      BY <1>9, <3>2
  <2>3. p \in Pieces
    BY <1>1, <1>2, <1>9
  <2>4. PICK w : w = <<p>>
    OBVIOUS
  <2>5. w \in Seq(Pieces) /\ Len(w) = 1 /\ w[1] = p
    BY <2>3, <2>4
  <2>6. \A i \in 1..Len(l) : l[i] = w[i]
    BY <2>2, <2>5
  <2>7. l = w
    BY <1>6, <2>2, <2>5, <2>6, SeqEqual
  <2> QED
    BY <2>4, <2>7
<1> QED
  BY <1>1, <1>3, <1>8, <1>9

\* A text is well-formed if the lines so far are and its last is a value.
LEMMA IsWellFormed ==
  ASSUME value \in Seq(Pieces), NEW b \in Begins, IsEnd(b, Len(value) + 1), SoFar(b),
         b + 1 = Len(value), value[Len(value)] \in Values
  PROVE  WellFormed
<1>1. NthLine(Lines) = <<value[Len(value)]>>
  BY LastLine
<1>2. Lines - 1 = Rank(Begins, b)
  <2>1. Rank(Begins, b) \in Nat /\ Lines = Rank(Begins, b) + 1
    BY BeginsAre, LastBegin
  <2> QED
    BY <2>1
<1>3. \A n \in 1..Lines - 1 : HoldsAddress(NthLine(n))
  BY <1>2 DEF SoFar
<1> QED
  BY <1>1, <1>3 DEF WellFormed, Values

\* The line at b is the last one and a value, or an address at k.
IsLast(b) == b + 1 = Len(value) /\ value[Len(value)] \in Values /\ IsEnd(b, Len(value) + 1)
IsOther(b, k) == \E e \in k + 1..Len(value) : IsEnd(b, e) /\ IsAddress(b, k, e)

\* The first piece of a line of a well-formed text.
LEMMA FirstPiece ==
  ASSUME value \in Seq(Pieces), WellFormed, NEW b \in Begins,
         NEW k \in b + 1..Len(value) + 1, Skips(b, k)
  PROVE  \/ IsLast(b) /\ k = b + 1
         \/ IsOther(b, k)
<1>1. PICK n \in Nat : n = Len(value)
  OBVIOUS
<1>2. b \in 0..n /\ b \in Nat /\ k \in Nat
  BY <1>1, BeginsAre
<1>3. PICK e \in b + 1..n + 1 : IsEnd(b, e)
  BY <1>1, EndExists
<1>4. \A i \in 1..n : Ended[i] = value[i]
  BY <1>1, EndedIs
<1>5. CASE e = n + 1
  <2>1. PICK p \in Values : NthLine(Lines) = <<p>>
    BY DEF WellFormed, Values
  <2>2. b + 1 = n /\ value[n] = p
    BY <1>1, <1>3, <1>5, <2>1, LastLine
  <2>3. IsLast(b)
    BY <1>1, <1>3, <1>5, <2>1, <2>2 DEF IsLast
  <2>4. Ended[n] # "blank"
    BY <1>2, <1>4, <2>1, <2>2 DEF Values
  <2>5. k = b + 1
    <3>1. ASSUME k > b + 1 PROVE FALSE
      <4>1. n \in b + 1..k - 1
        BY <1>2, <2>2, <3>1
      <4> QED
        BY <2>4, <4>1 DEF Skips
    <3> QED
      BY <1>1, <1>2, <3>1
  <2> QED
    BY <2>3, <2>5
<1>6. CASE e # n + 1
  <2>1. e \in b + 1..Len(value) /\ e \in b + 1..Len(value) + 1
    BY <1>1, <1>2, <1>3, <1>6
  <2>2. e \in Begins /\ Rank(Begins, e) = Rank(Begins, b) + 1
    BY <1>3, <2>1, NextBegin
  <2>3. Rank(Begins, b) \in Nat /\ Rank(Begins, e) < Lines /\ Lines \in Nat
    BY <2>2, BeginsAre, RankIs
  <2>4. Rank(Begins, b) + 1 \in 1..Lines - 1
    BY <2>2, <2>3
  <2>5. HoldsAddress(NthLine(Rank(Begins, b) + 1))
    BY <2>4 DEF WellFormed
  <2>6. PICK i : IsAddress(b, i, e)
    BY <1>3, <2>1, <2>5, AddressLine
  <2>7. i \in b + 1..e - 1 /\ value[i] = "::" /\ \A j \in b + 1..e - 1 : j # i => value[j] = "blank"
    BY <2>6 DEF IsAddress
  <2>8. i \in 1..n /\ i < e /\ e <= n
    BY <1>1, <1>2, <2>1, <2>7
  <2>9. ~(i < k)
    <3>1. ASSUME i < k PROVE FALSE
      <4>1. i \in b + 1..k - 1
        BY <1>1, <1>2, <2>7, <2>8, <3>1
      <4>2. Ended[i] = "blank"
        BY <4>1 DEF Skips
      <4> QED
        BY <1>4, <2>7, <2>8, <4>2
    <3> QED
      BY <3>1
  <2>10. ~(k < i)
    <3>1. ASSUME k < i PROVE FALSE
      <4>1. k \in b + 1..e - 1 /\ k # i /\ k \in 1..n
        BY <1>1, <1>2, <2>7, <2>8, <3>1
      <4>2. Ended[k] = "blank"
        BY <1>4, <2>7, <4>1
      <4> QED
        BY <4>2 DEF Skips
    <3> QED
      BY <3>1
  <2>11. k = i
    BY <1>1, <1>2, <2>8, <2>9, <2>10
  <2>12. e \in k + 1..Len(value)
    BY <1>1, <1>2, <2>8, <2>11
  <2> QED
    BY <1>3, <2>6, <2>11, <2>12 DEF IsOther
<1> QED
  BY <1>5, <1>6

\* The value of a line that holds an address.
LEMMA ValueOfAddress == ASSUME NEW n, HoldsAddress(NthLine(n)) PROVE ValueOf(n) = "::"
<1>1. PICK l : l = NthLine(n)
  OBVIOUS
<1>2. PICK i \in DOMAIN l : l[i] = "::" /\ \A j \in DOMAIN l \ {i} : l[j] = "blank"
  BY <1>1 DEF HoldsAddress
<1>3. \A p \in Values : (\E j \in DOMAIN l : l[j] = p) <=> p = "::"
  BY <1>2 DEF Values
<1>4. ValueOf(n) = CHOOSE p \in Values : \E j \in DOMAIN l : l[j] = p
  BY <1>1 DEF ValueOf, Values
<1>5. "::" \in Values
  BY DEF Values
<1> QED
  BY <1>3, <1>4, <1>5

\* The value of a line that is one.
LEMMA ValueOfLast == ASSUME NEW n, NEW p \in Values, NthLine(n) = <<p>> PROVE ValueOf(n) = p
<1>1. PICK l : l = NthLine(n)
  OBVIOUS
<1>2. DOMAIN l = {1} /\ l[1] = p
  <2>1. DOMAIN l = 1..1 /\ l[1] = p
    BY <1>1
  <2> QED
    BY <2>1
<1>3. \A q \in Values : (\E j \in DOMAIN l : l[j] = q) <=> q = p
  BY <1>2
<1>4. ValueOf(n) = CHOOSE q \in Values : \E j \in DOMAIN l : l[j] = q
  BY <1>1 DEF ValueOf, Values
<1> QED
  BY <1>3, <1>4

\* Of a well-formed text the value of a line is its first piece.
LEMMA ValueIs ==
  ASSUME value \in Seq(Pieces), WellFormed, NEW b \in Begins,
         NEW k \in b + 1..Len(value) + 1, Skips(b, k)
  PROVE  ValueOf(Rank(Begins, b) + 1) = Ended[k]
<1>1. PICK n \in Nat : n = Len(value) /\ b \in 0..n /\ b \in Nat
  BY BeginsAre
<1>2. \A i \in 1..n : Ended[i] = value[i]
  BY <1>1, EndedIs
<1>3. CASE IsLast(b) /\ k = b + 1
  <2>1. b + 1 = n /\ value[n] \in Values /\ IsEnd(b, Len(value) + 1)
    BY <1>1, <1>3 DEF IsLast
  <2>2. NthLine(Lines) = <<value[n]>>
    BY <1>1, <2>1, LastLine
  <2>3. Lines = Rank(Begins, b) + 1
    BY <2>1, LastBegin
  <2>4. Ended[k] = value[n]
    BY <1>1, <1>2, <1>3, <2>1
  <2> QED
    BY <2>1, <2>2, <2>3, <2>4, ValueOfLast
<1>4. CASE IsOther(b, k)
  <2>1. PICK e \in k + 1..Len(value) : IsEnd(b, e) /\ IsAddress(b, k, e)
    BY <1>4 DEF IsOther
  <2>2. e \in b + 1..Len(value) + 1
    BY <1>1
  <2>3. HoldsAddress(NthLine(Rank(Begins, b) + 1))
    BY <2>1, <2>2, AddressLine
  <2>4. k \in b + 1..e - 1 /\ value[k] = "::"
    BY <2>1 DEF IsAddress
  <2>5. k \in 1..n
    BY <1>1, <2>1
  <2> QED
    BY <1>2, <2>3, <2>4, <2>5, ValueOfAddress
<1> QED
  BY <1>3, <1>4, FirstPiece

-----------------------------------------------------------------------------
(* What a well-formed text should give.                                    *)

LEMMA NthOfInterval == ASSUME NEW m \in Nat, NEW k \in 1..m PROVE Nth(1..m, k) = k
<1>1. PICK j \in Nat : k = j + 1
  <2>1. k - 1 \in Nat /\ k = (k - 1) + 1
    OBVIOUS
  <2> QED
    BY <2>1
<1>2. PICK S : S = 1..m
  OBVIOUS
<1>3. S \subseteq Nat /\ k \in S /\ IsFiniteSet(S)
  BY <1>2, FS_Interval
<1>4. {i \in S : i < k} = 1..j
  BY <1>1, <1>2
<1>5. Cardinality(1..j) = j
  <2>1. Cardinality(1..j) = IF 1 > j THEN 0 ELSE j - 1 + 1
    BY <1>1, FS_Interval
  <2> QED
    BY <1>1, <2>1
<1>6. Rank(S, k) = j
  BY <1>4, <1>5 DEF Rank
<1>7. Nth(S, j + 1) = k
  BY <1>1, <1>3, <1>6, NthIs
<1> QED
  BY <1>1, <1>2, <1>7

LEMMA SuitableUpTo ==
  ASSUME NEW m \in Nat, {n \in 1..Lines : Suits(TypeOf[ValueOf(n)])} = 1..m
  PROVE  Suitable = [k \in 1..m |-> <<ValueOf(k)>>]
<1>1. PICK L : L = {n \in 1..Lines : Suits(TypeOf[ValueOf(n)])}
  OBVIOUS
<1>2. Suitable = [k \in 1..Cardinality(L) |-> <<ValueOf(Nth(L, k))>>]
  BY <1>1 DEF Suitable
<1>3. L = 1..m
  BY <1>1
<1>4. Cardinality(L) = m
  <2>1. Cardinality(1..m) = IF 1 > m THEN 0 ELSE m - 1 + 1
    BY FS_Interval
  <2> QED
    BY <1>3, <2>1
<1>5. \A k \in 1..m : Nth(L, k) = k
  BY <1>3, NthOfInterval
<1> QED
  BY <1>2, <1>4, <1>5

LEMMA AddressesAre ==
  ASSUME NEW c \in Nat
  PROVE  /\ Addresses(c) \in Seq(Seq(Pieces)) /\ Len(Addresses(c)) = c
         /\ \A i \in 1..c : Addresses(c)[i] = <<"::">>
<1>1. <<"::">> \in Seq(Pieces)
  BY DEF Pieces
<1>2. PICK a : a = <<"::">>
  OBVIOUS
<1>3. PICK f : f = [i \in 1..c |-> a]
  OBVIOUS
<1>4. f \in [1..c -> Seq(Pieces)]
  BY <1>1, <1>2, <1>3
<1>5. f \in Seq(Seq(Pieces)) /\ Len(f) = c
  BY <1>4, SeqDef
<1> QED
  BY <1>2, <1>3, <1>5 DEF Addresses

\* One address, or any other value, more.
LEMMA OneMore ==
  ASSUME NEW c \in Nat, NEW p \in Pieces, NEW f,
         f = [k \in 1..c + 1 |-> <<IF k = c + 1 THEN p ELSE "::">>]
  PROVE  f = Append(Addresses(c), <<p>>)
<1>1. PICK w : w = <<p>>
  OBVIOUS
<1>2. w \in Seq(Pieces) /\ <<"::">> \in Seq(Pieces)
  BY <1>1 DEF Pieces
<1>3. PICK A : A = Addresses(c)
  OBVIOUS
<1>4. A \in Seq(Seq(Pieces)) /\ Len(A) = c /\ \A i \in 1..c : A[i] = <<"::">>
  BY <1>3, AddressesAre
<1>5. PICK g : g = Append(A, w)
  OBVIOUS
<1>6. /\ g \in Seq(Seq(Pieces)) /\ Len(g) = c + 1
      /\ \A i \in 1..c : g[i] = A[i]
      /\ g[c + 1] = w
  BY <1>2, <1>4, <1>5, AppendProperties
<1>7. \A k \in 1..c + 1 : f[k] = IF k = c + 1 THEN w ELSE <<"::">>
  BY <1>1
<1>8. f \in [1..c + 1 -> Seq(Pieces)]
  BY <1>2, <1>7
<1>9. f \in Seq(Seq(Pieces)) /\ Len(f) = c + 1
  BY <1>8, SeqDef
<1>10. \A k \in 1..Len(f) : f[k] = g[k]
  <2> TAKE k \in 1..Len(f)
  <2>1. k \in 1..c + 1 /\ (k = c + 1 \/ k \in 1..c)
    BY <1>9
  <2>2. CASE k = c + 1
    BY <1>6, <1>7, <2>1, <2>2
  <2>3. CASE k \in 1..c
    <3>1. k # c + 1
      BY <2>3
    <3> QED
      BY <1>4, <1>6, <1>7, <2>1, <2>3, <3>1
  <2> QED
    BY <2>1, <2>2, <2>3
<1>11. f = g
  BY <1>6, <1>9, <1>10, SeqEqual
<1> QED
  BY <1>1, <1>3, <1>5, <1>11

LEMMA MoreAddresses ==
  ASSUME NEW c \in Nat
  PROVE  Addresses(c + 1) = Append(Addresses(c), <<"::">>)
<1>1. "::" \in Pieces
  BY DEF Pieces
<1>2. Addresses(c + 1) = [k \in 1..c + 1 |-> <<IF k = c + 1 THEN "::" ELSE "::">>]
  BY DEF Addresses
<1> QED
  BY <1>1, <1>2, OneMore

LEMMA SuitableIs ==
  ASSUME value \in Seq(Pieces), NEW b \in Begins, IsLast(b), SoFar(b), b # 0 => Suits("IPV6"),
         NEW p, p = value[Len(value)], NEW r, r = Rank(Begins, b)
  PROVE  /\ Lines = r + 1
         /\ Suits(TypeOf[p]) => Suitable = Append(Addresses(r), <<p>>)
         /\ ~Suits(TypeOf[p]) => Suitable = Addresses(r)
<1>1. b + 1 = Len(value) /\ p \in Values /\ IsEnd(b, Len(value) + 1)
  BY DEF IsLast
<1>2. Lines = r + 1 /\ r \in Nat /\ (r = 0 <=> b = 0)
  BY <1>1, LastBegin, RankIs
<1>3. \A n \in 1..r : ValueOf(n) = "::"
  BY ValueOfAddress DEF SoFar
<1>4. ValueOf(r + 1) = p
  <2>1. NthLine(Lines) = <<p>>
    BY <1>1, LastLine
  <2> QED
    BY <1>1, <1>2, <2>1, ValueOfLast
<1>5. \A n \in 1..r : Suits(TypeOf[ValueOf(n)])
  <2> TAKE n \in 1..r
  <2>1. r # 0
    BY <1>2
  <2>2. TypeOf[ValueOf(n)] = "IPV6"
    BY <1>3 DEF TypeOf
  <2> QED
    BY <1>2, <2>1, <2>2
<1>6. \A n : n \in 1..r + 1 <=> n \in 1..r \/ n = r + 1
  BY <1>2
<1>7. ASSUME Suits(TypeOf[p]) PROVE Suitable = Append(Addresses(r), <<p>>)
  <2>1. {n \in 1..Lines : Suits(TypeOf[ValueOf(n)])} = 1..r + 1
    BY <1>2, <1>4, <1>5, <1>6, <1>7
  <2>2. Suitable = [k \in 1..r + 1 |-> <<ValueOf(k)>>]
    BY <1>2, <2>1, SuitableUpTo
  <2>3. \A k \in 1..r + 1 : ValueOf(k) = IF k = r + 1 THEN p ELSE "::"
    BY <1>3, <1>4, <1>6
  <2>4. Suitable = [k \in 1..r + 1 |-> <<IF k = r + 1 THEN p ELSE "::">>]
    BY <2>2, <2>3
  <2>5. p \in Pieces
    BY <1>1 DEF Values, Pieces
  <2>6. PICK f : f = Suitable
    OBVIOUS
  <2>7. f = Append(Addresses(r), <<p>>)
    <3>1. f = [k \in 1..r + 1 |-> <<IF k = r + 1 THEN p ELSE "::">>]
      BY <2>4, <2>6, Zenon
    <3>2. r \in Nat
      BY <1>2
    <3> QED
      BY <2>5, <3>1, <3>2, OneMore, Zenon
  <2> QED
    BY <2>6, <2>7
<1>8. ASSUME ~Suits(TypeOf[p]) PROVE Suitable = Addresses(r)
  <2>1. r + 1 \notin 1..r
    BY <1>2
  <2>2. {n \in 1..Lines : Suits(TypeOf[ValueOf(n)])} = 1..r
    BY <1>2, <1>4, <1>5, <1>6, <1>8, <2>1
  <2>3. Suitable = [k \in 1..r |-> <<ValueOf(k)>>]
    BY <1>2, <2>2, SuitableUpTo
  <2> QED
    BY <1>3, <2>3 DEF Addresses
<1> QED
  BY <1>2, <1>7, <1>8

-----------------------------------------------------------------------------
(* The lines char2val_text copies.                                         *)

\* What the loop finds at the beginning of a line.
LineRead(b, e) ==
  /\ e \in b + 1..Len(value) + 1 /\ IsEnd(b, e)
  /\ Line = NthLine(Rank(Begins, b) + 1)
  /\ input[LineLen + 1] = Ended[e]
  /\ SubSeq(input, LineLen + 2, Len(input)) = Behind(e)

LEMMA LineBehind ==
  ASSUME value \in Seq(Pieces), NEW b \in Begins, input = Behind(b)
  PROVE  \E e : LineRead(b, e)
<1>1. PICK n \in Nat : n = Len(value)
  OBVIOUS
<1>2. b \in 0..n /\ b \in 0..Len(value) + 1
  BY <1>1, BeginsAre
<1>3. PICK e \in b + 1..n + 1 : IsEnd(b, e)
  BY <1>1, EndExists
<1>4. PICK m \in 1..n + 1 - b : e = b + m
  <2>1. e - b \in 1..n + 1 - b /\ e = b + (e - b)
    BY <1>2
  <2> QED
    BY <2>1
<1>5. /\ input \in Seq(Letters) /\ Len(input) = n + 1 - b
      /\ \A i \in 1..n + 1 - b : input[i] = Ended[b + i]
      /\ \A k \in 0..n + 1 - b : SubSeq(input, k + 1, Len(input)) = Behind(b + k)
  BY <1>1, <1>2, BehindIs
<1>6. Ended[n + 1] = "nul" /\ \A i \in 1..n : Ended[i] = value[i] /\ Ended[i] # "nul"
  BY <1>1, EndedIs
<1>7. PICK I : I = {i \in 1..Len(input) : input[i] \in {"nl", "nul"}}
  OBVIOUS
<1>8. m \in I
  <2>1. Ended[e] \in {"nl", "nul"}
    <3>1. CASE e = n + 1
      BY <1>6, <3>1
    <3>2. CASE e # n + 1
      <4>1. e \in 1..n /\ value[e] = "nl"
        BY <1>1, <1>2, <1>3, <3>2 DEF IsEnd
      <4> QED
        BY <1>6, <4>1
    <3> QED
      BY <3>1, <3>2
  <2> QED
    BY <1>4, <1>5, <1>7, <2>1
<1>9. \A i \in I : m <= i
  <2> SUFFICES ASSUME NEW i \in I, i < m PROVE FALSE
    BY <1>4, <1>5, <1>7
  <2>1. i \in 1..n + 1 - b /\ input[i] \in {"nl", "nul"}
    BY <1>5, <1>7
  <2>2. b + i \in b + 1..e - 1 /\ b + i \in 1..n
    BY <1>2, <1>4, <2>1
  <2>3. value[b + i] # "nl"
    BY <1>3, <2>2 DEF IsEnd
  <2> QED
    BY <1>5, <1>6, <2>1, <2>2, <2>3
<1>10. Min(I) = m
  <2>1. I \subseteq Nat /\ I # {}
    BY <1>7, <1>8
  <2>2. Min(I) \in I /\ \A i \in I : Min(I) <= i
    BY <2>1, MinIs
  <2>3. PICK x : x = Min(I)
    OBVIOUS
  <2>4. x \in Nat /\ m \in Nat /\ x <= m /\ m <= x
    BY <1>2, <1>4, <1>8, <1>9, <2>1, <2>2, <2>3
  <2> QED
    BY <2>3, <2>4
<1>11. SelectInSeq(input, LAMBDA p : p \in {"nl", "nul"}) = m
  <2>1. I # {}
    BY <1>8
  <2> QED
    BY <1>7, <1>10, <2>1, Zenon DEF SelectInSeq
<1>12. LineLen = m - 1
  BY <1>11 DEF LineLen
<1>13. m \in Nat /\ m - 1 + 1 = m /\ m - 1 + 2 = m + 1 /\ m - 1 \in Nat /\ e - b - 1 = m - 1
  BY <1>2, <1>4
<1>14. input[LineLen + 1] = Ended[e]
  BY <1>4, <1>5, <1>12, <1>13
<1>15. SubSeq(input, LineLen + 2, Len(input)) = Behind(e)
  <2>1. m \in 0..n + 1 - b
    BY <1>4
  <2> QED
    BY <1>4, <1>5, <1>12, <1>13, <2>1
<1>16. Line = NthLine(Rank(Begins, b) + 1)
  <2>1. PICK L, N : L = Line /\ N = NthLine(Rank(Begins, b) + 1)
    OBVIOUS
  <2>2. IsLine(N, b, e)
    BY <1>1, <1>3, <2>1, LineAt
  <2>3. N \in Seq(Pieces) /\ Len(N) = m - 1 /\ \A i \in 1..m - 1 : N[i] = value[b + i]
    BY <1>13, <2>2 DEF IsLine
  <2>4. \A i \in 1..m - 1 : input[i] \in Pieces /\ input[i] = value[b + i]
    <3> TAKE i \in 1..m - 1
    <3>0. PICK h \in Nat : h = m - 1
      BY <1>13
    <3>1. i \in 1..n + 1 - b /\ b + i \in 1..n
      <4>1. i \in 1..h /\ h + 1 = m /\ m <= n + 1 - b /\ b \in Nat
        BY <1>2, <1>13, <3>0
      <4>2. i \in Nat /\ i >= 1 /\ i <= h
        BY <4>1
      <4> QED
        BY <4>1, <4>2
    <3>2. PICK j \in 1..n : j = b + i
      BY <3>1
    <3>3. value[j] \in Pieces /\ Ended[j] = value[j]
      BY <1>1, <1>6
    <3>4. input[i] = Ended[b + i]
      BY <1>5, <3>1
    <3> QED
      BY <3>2, <3>3, <3>4
  <2>5. L = SubSeq(input, 1, m - 1)
    BY <1>12, <2>1 DEF Line
  <2>6. /\ L \in Seq(Pieces) /\ Len(L) = IF 1 <= m - 1 THEN (m - 1) - 1 + 1 ELSE 0
        /\ \A i \in 1..(m - 1) - 1 + 1 : L[i] = input[1 + i - 1]
    BY <1>13, <2>4, <2>5, SubSeqProperties
  <2>7. Len(L) = m - 1 /\ \A i \in 1..m - 1 : L[i] = input[i]
    BY <1>13, <2>6
  <2>8. \A i \in 1..Len(L) : L[i] = N[i]
    BY <2>3, <2>4, <2>7
  <2>9. L = N
    BY <2>3, <2>6, <2>7, <2>8, SeqEqual
  <2> QED
    BY <2>1, <2>9
<1> QED
  BY <1>1, <1>3, <1>14, <1>15, <1>16 DEF LineRead

\* Some line is the last one.
LEMMA LastExists ==
  ASSUME value \in Seq(Pieces)
  PROVE  \E b \in Begins : IsEnd(b, Len(value) + 1)
<1>1. PICK n \in Nat : n = Len(value)
  OBVIOUS
<1>2. /\ Begins \subseteq 0..n /\ 0 \in Begins
      /\ \A i \in 1..n : i \in Begins <=> value[i] = "nl"
  BY <1>1, BeginsAre
<1>3. PICK S : S = {i \in 0..n : n - i \in Begins}
  OBVIOUS
<1>4. S \subseteq Nat /\ n \in S
  <2>1. n - n = 0
    BY <1>1
  <2> QED
    BY <1>2, <1>3, <2>1
<1>5. PICK x \in S : \A i \in S : x <= i
  <2>1. Min(S) \in S /\ \A i \in S : Min(S) <= i
    BY <1>4, MinIs
  <2> QED
    BY <2>1
<1>6. x \in 0..n /\ n - x \in Begins
  BY <1>3
<1>7. PICK b \in 0..n : b = n - x /\ b \in Begins
  BY <1>6
<1>8. ASSUME NEW i \in b + 1..(n + 1) - 1 PROVE value[i] # "nl"
  <2>1. i \in 1..n /\ n - i \in 0..n /\ n - (n - i) = i /\ ~(x <= n - i)
    BY <1>6, <1>7
  <2>2. n - i \notin S
    BY <1>5, <2>1
  <2>3. i \notin Begins
    BY <1>3, <2>1, <2>2
  <2> QED
    BY <1>2, <2>1, <2>3
<1> QED
  BY <1>1, <1>7, <1>8 DEF IsEnd

\* char2val_text counts every line but an empty one at the end.
LEMMA LinecntIs ==
  ASSUME value \in Seq(Pieces)
  PROVE  /\ Lines \in Nat /\ Lines >= 1
         /\ Linecnt = IF Lines > 1 /\ NthLine(Lines) = <<>> THEN Lines - 1 ELSE Lines
<1>1. PICK n \in Nat : n = Len(value) /\ DOMAIN value = 1..n
  OBVIOUS
<1>2. PICK N : N = {i \in DOMAIN value : value[i] = "nl"}
  OBVIOUS
<1>3. Begins = N \cup {0} /\ 0 \notin N
  BY <1>1, <1>2 DEF Begins
<1>4. N \subseteq Begins /\ IsFiniteSet(N)
  BY <1>3, BeginsAre, FS_Subset
<1>5. PICK c \in Nat : c = Cardinality(N)
  BY <1>4, FS_CardinalityType
<1>6. Lines = c + 1
  BY <1>3, <1>4, <1>5, FS_AddElement DEF Lines
<1>7. Linecnt = IF c = 0 \/ Last(value) # "nl" THEN c + 1 ELSE c
  BY <1>2, <1>5 DEF Linecnt
<1>8. PICK b \in Begins : IsEnd(b, n + 1)
  BY <1>1, LastExists
<1>9. b \in 0..n
  BY <1>1, BeginsAre
<1>10. PICK l : l = NthLine(Lines)
  OBVIOUS
<1>11. IsLine(l, b, n + 1)
  <2>1. Len(value) + 1 \in b + 1..Len(value) + 1 /\ Lines = Rank(Begins, b) + 1
    BY <1>1, <1>8, <1>9, LastBegin
  <2>2. IsLine(NthLine(Rank(Begins, b) + 1), b, Len(value) + 1)
    BY <1>1, <1>8, <2>1, LineAt
  <2> QED
    BY <1>1, <1>10, <2>1, <2>2, Zenon
<1>12. l \in Seq(Pieces) /\ Len(l) = (n + 1) - b - 1
  BY <1>11 DEF IsLine
<1>13. l = <<>> <=> b = n
  <2>1. l = <<>> <=> Len(l) = 0
    BY <1>12, EmptySeq
  <2> QED
    BY <1>9, <1>12, <2>1
<1>14. ASSUME c # 0 PROVE Last(value) = "nl" <=> b = n
  <2>1. N # {}
    BY <1>4, <1>5, <1>14, FS_EmptySet
  <2>2. n # 0
    BY <1>1, <1>2, <2>1
  <2>3. Last(value) = value[n] /\ n \in 1..n
    BY <1>1, <2>2 DEF Last
  <2>4. n \in Begins <=> value[n] = "nl"
    BY <1>1, <2>3, BeginsAre
  <2>5. ASSUME value[n] = "nl" PROVE b = n
    <3>1. ASSUME b # n PROVE FALSE
      <4>1. n \in b + 1..(n + 1) - 1
        BY <1>9, <3>1
      <4> QED
        BY <1>8, <2>5, <4>1 DEF IsEnd
    <3> QED
      BY <3>1
  <2> QED
    BY <2>3, <2>4, <2>5
<1>15. CASE c = 0
  BY <1>6, <1>7, <1>15
<1>16. CASE c # 0
  <2>1. Lines > 1
    BY <1>6, <1>16
  <2>2. Linecnt = IF b = n THEN c ELSE c + 1
    BY <1>7, <1>14, <1>16
  <2> QED
    BY <1>6, <1>10, <1>13, <2>1, <2>2
<1> QED
  BY <1>15, <1>16

LEMMA TextLinesIs ==
  ASSUME value \in Seq(Pieces)
  PROVE  TextLines = [n \in 1..Linecnt |-> NthLine(n)]
<1>1. PICK c \in Nat : c = Lines
  BY LinecntIs
<1>2. LineSeq = [n \in 1..c |-> NthLine(n)] /\ c >= 1
  BY <1>1, LinecntIs DEF LineSeq
<1>3. CASE Lines > 1 /\ NthLine(Lines) = <<>>
  <2>1. Linecnt = c - 1 /\ c - 1 \in Nat
    BY <1>1, <1>2, <1>3, LinecntIs
  <2>2. PICK s : s = LineSeq
    OBVIOUS
  <2>3. PICK T : T = {NthLine(n) : n \in 1..c}
    OBVIOUS
  <2>4. s \in [1..c -> T]
    BY <1>2, <2>2, <2>3
  <2>5. s \in Seq(T) /\ Len(s) = c
    BY <2>4, SeqDef
  <2>6. PICK f : f = SubSeq(s, 1, c - 1)
    OBVIOUS
  <2>7. \A i \in 1..c - 1 : s[i] \in T
    BY <2>5
  <2>8. /\ f \in Seq(T) /\ Len(f) = IF 1 <= c - 1 THEN (c - 1) - 1 + 1 ELSE 0
        /\ \A i \in 1..(c - 1) - 1 + 1 : f[i] = s[1 + i - 1]
    BY <2>1, <2>6, <2>7, SubSeqProperties
  <2>9. Len(f) = c - 1 /\ \A i \in 1..c - 1 : f[i] = s[i]
    BY <2>1, <2>8
  <2>10. DOMAIN f = 1..c - 1
    BY <2>8, <2>9, LenProperties
  <2>11. \A i \in 1..c - 1 : f[i] = NthLine(i)
    <3> TAKE i \in 1..c - 1
    <3>1. i \in 1..c
      OBVIOUS
    <3> QED
      BY <1>2, <2>2, <2>9, <3>1
  <2>12. f = [i \in 1..c - 1 |-> f[i]]
    <3>1. f \in [1..c - 1 -> T]
      BY <2>8, <2>9, <2>10, LenProperties
    <3> QED
      BY <3>1
  <2>13. f = [i \in 1..c - 1 |-> NthLine(i)]
    BY <2>11, <2>12
  <2>14. TextLines = f
    BY <1>3, <2>2, <2>5, <2>6 DEF TextLines, Front
  <2> QED
    BY <2>1, <2>13, <2>14
<1>4. CASE ~(Lines > 1 /\ NthLine(Lines) = <<>>)
  <2>1. Linecnt = c
    BY <1>1, <1>4, LinecntIs
  <2>2. TextLines = LineSeq
    BY <1>4 DEF TextLines
  <2> QED
    BY <1>2, <2>1, <2>2
<1> QED
  BY <1>3, <1>4

-----------------------------------------------------------------------------
(* The token at the beginning of a line.                                   *)

LEMMA BehindZero == ASSUME value \in Seq(Pieces) PROVE Behind(0) = Ended
<1>1. PICK n \in Nat : n = Len(value)
  OBVIOUS
<1>2. PICK E, B : E = Ended /\ B = Behind(0)
  OBVIOUS
<1>3. 0 \in 0..Len(value) + 1
  BY <1>1
<1>4. B \in Seq(Letters) /\ Len(B) = n + 1 - 0 /\ \A i \in 1..n + 1 - 0 : B[i] = E[0 + i]
  BY <1>1, <1>2, <1>3, BehindIs
<1>5. Len(B) = n + 1 /\ \A i \in 1..n + 1 : B[i] = E[i]
  BY <1>4
<1>6. E \in Seq(Letters) /\ Len(E) = n + 1
  BY <1>1, <1>2, EndedIs
<1>7. B = E
  BY <1>4, <1>5, <1>6, SeqEqual
<1> QED
  BY <1>2, <1>7

\* The value that is the last line.
TakesLast(t, b) == IsLast(b) /\ t.piece = value[Len(value)] /\ t.rest = <<>>

\* The "::" at k.
TakesAddress(t, b, k) ==
  /\ k \in b + 1..Len(value) /\ Skips(b, k) /\ Ended[k] = "::" /\ ~(k = b + 1 /\ k = Len(value))
  /\ t.piece = "::" /\ t.rest = Behind(k)

LEMMA ValueToken ==
  ASSUME value \in Seq(Pieces), NEW b \in Begins, NEW t, t = Lex(Behind(b), TRUE), t.token = "VALUE"
  PROVE  /\ TakesLast(t, b) \/ \E k : TakesAddress(t, b, k)
         /\ WellFormed => ValueOf(Rank(Begins, b) + 1) = t.piece
<1>1. PICK n \in Nat : n = Len(value)
  OBVIOUS
<1>2. b \in 0..n /\ b \in 0..Len(value)
  BY <1>1, BeginsAre
<1>3. PICK k \in b + 1..n + 1 : Skips(b, k) /\ IsToken(t, b, k, TRUE)
  BY <1>1, <1>2, LexBehind
<1>4. /\ Ended[n + 1] = "nul"
      /\ \A i \in 1..n : Ended[i] = value[i] /\ value[i] \in Pieces
  BY <1>1, EndedIs
<1>5. PICK x : x = Ended[k]
  OBVIOUS
<1>6. PICK whole \in BOOLEAN : whole <=> k = b + 1 /\ k = n
  OBVIOUS
<1>7. /\ x = "nl" => t.token = "EOL"
      /\ x = "::" => t.piece = "::" /\ t.rest = IF whole THEN <<>> ELSE Behind(k)
      /\ x \in {"number", "true"} /\ whole => t.piece = x /\ t.rest = <<>>
      /\ x \in {"number", "true"} /\ ~whole => t.token = "SYNTAX_ERROR"
      /\ x \in {"?", "nul"} => t.token = "SYNTAX_ERROR"
  BY <1>1, <1>3, <1>5, <1>6 DEF IsToken
<1>8. x # "blank"
  BY <1>3, <1>5 DEF Skips
<1>9. x # "nul"
  BY <1>7
<1>10. k \in 1..n /\ k \in b + 1..n
  <2>1. k # n + 1
    BY <1>4, <1>5, <1>9
  <2> QED
    BY <1>2, <2>1
<1>11. x = value[k] /\ x \in Pieces
  BY <1>4, <1>5, <1>10
<1>12. x \in Values /\ t.piece = x /\ (x # "::" => whole)
  BY <1>7, <1>8, <1>11 DEF Pieces, Values
<1>13. ASSUME whole PROVE TakesLast(t, b)
  <2>1. k = b + 1 /\ k = n
    BY <1>6, <1>13
  <2>2. t.rest = <<>>
    BY <1>7, <1>12, <1>13 DEF Values
  <2>3. \A i \in b + 1..(n + 1) - 1 : value[i] # "nl"
    <3> TAKE i \in b + 1..(n + 1) - 1
    <3>1. i = k
      BY <1>2, <2>1
    <3> QED
      BY <1>11, <1>12, <3>1 DEF Values
  <2>4. IsEnd(b, n + 1)
    BY <1>1, <2>3 DEF IsEnd
  <2> QED
    BY <1>1, <1>11, <1>12, <2>1, <2>2, <2>4 DEF TakesLast, IsLast
<1>14. ASSUME ~whole PROVE TakesAddress(t, b, k)
  <2>1. x = "::" /\ t.piece = "::" /\ t.rest = Behind(k)
    BY <1>7, <1>12, <1>14
  <2>2. ~(k = b + 1 /\ k = n)
    BY <1>6, <1>14
  <2> QED
    BY <1>1, <1>3, <1>5, <1>10, <2>1, <2>2 DEF TakesAddress
<1>15. WellFormed => ValueOf(Rank(Begins, b) + 1) = t.piece
  BY <1>1, <1>3, <1>5, <1>12, ValueIs
<1> QED
  BY <1>13, <1>14, <1>15

LEMMA OtherToken ==
  ASSUME value \in Seq(Pieces), NEW b \in Begins, NEW t, t = Lex(Behind(b), TRUE), t.token # "VALUE"
  PROVE  ~WellFormed
<1> SUFFICES ASSUME WellFormed PROVE FALSE
  OBVIOUS
<1>1. PICK n \in Nat : n = Len(value)
  OBVIOUS
<1>2. b \in 0..n /\ b \in 0..Len(value)
  BY <1>1, BeginsAre
<1>3. PICK k \in b + 1..n + 1 : Skips(b, k) /\ IsToken(t, b, k, TRUE)
  BY <1>1, <1>2, LexBehind
<1>4. \A i \in 1..n : Ended[i] = value[i]
  BY <1>1, EndedIs
<1>5. CASE IsLast(b) /\ k = b + 1
  <2>1. k = n /\ value[n] \in Values
    BY <1>1, <1>5 DEF IsLast
  <2>2. Ended[k] \in Values
    BY <1>2, <1>4, <2>1
  <2> QED
    BY <1>1, <1>3, <1>5, <2>1, <2>2 DEF IsToken, Values
<1>6. CASE IsOther(b, k)
  <2>1. PICK e \in k + 1..n : IsAddress(b, k, e)
    BY <1>1, <1>6 DEF IsOther
  <2>2. value[k] = "::" /\ k \in 1..n
    BY <1>2, <2>1 DEF IsAddress
  <2>3. Ended[k] = "::"
    BY <1>4, <2>2
  <2> QED
    BY <1>3, <2>3 DEF IsToken
<1> QED
  BY <1>1, <1>3, <1>5, <1>6, FirstPiece

\* Behind the "::" of a line: its end, or the text is not well-formed.
LEMMA SeparatorToken ==
  ASSUME value \in Seq(Pieces), NEW b \in Begins, NEW k \in b + 1..Len(value),
         Skips(b, k), Ended[k] = "::", ~(k = b + 1 /\ k = Len(value)), SoFar(b),
         NEW line, NEW t, t = Lex(Behind(k), line)
  PROVE  /\ t.token # "end"
         /\ t.token = "EOL" =>
              \E e \in Begins : /\ Rank(Begins, e) = Rank(Begins, b) + 1 /\ e # 0
                                /\ SoFar(e) /\ t.rest = Behind(e) /\ t.bol = TRUE
         /\ t.token # "EOL" => ~WellFormed
<1>1. PICK n \in Nat : n = Len(value)
  OBVIOUS
<1>2. b \in 0..n /\ b \in Nat /\ k \in 1..n /\ k \in b + 1..n /\ k \in 0..Len(value)
  BY <1>1, BeginsAre
<1>3. PICK h \in k + 1..n + 1 : Skips(k, h) /\ IsToken(t, k, h, line)
  BY <1>1, <1>2, LexBehind
<1>4. /\ Ended[n + 1] = "nul"
      /\ \A i \in 1..n : Ended[i] = value[i] /\ value[i] \in Pieces
  BY <1>1, EndedIs
<1>5. Ended[h] # "blank" /\ Ended[h] \in Letters
  <2>1. h = n + 1 \/ h \in 1..n
    BY <1>2
  <2> QED
    BY <1>3, <1>4, <2>1 DEF Skips, Letters
<1>6. t.token \in {"EOL", "VALUE", "SYNTAX_ERROR"}
  BY <1>3, <1>5 DEF IsToken, Letters, Pieces
<1>7. t.token = "EOL" <=> Ended[h] = "nl"
  BY <1>3, <1>5 DEF IsToken, Letters, Pieces
<1>8. value[k] = "::" /\ \A i \in b + 1..h - 1 : i # k => value[i] = "blank"
  <2>1. value[k] = "::"
    BY <1>2, <1>4
  <2>2. ASSUME NEW i \in b + 1..h - 1, i # k PROVE value[i] = "blank"
    <3>1. i \in 1..n
      BY <1>2
    <3>2. i \in b + 1..k - 1 \/ i \in k + 1..h - 1
      BY <1>2, <2>2
    <3>3. Ended[i] = "blank"
      BY <1>3, <3>2 DEF Skips
    <3> QED
      BY <1>4, <3>1, <3>3
  <2> QED
    BY <2>1, <2>2
<1>9. ASSUME t.token = "EOL"
      PROVE  \E e \in Begins : /\ Rank(Begins, e) = Rank(Begins, b) + 1 /\ e # 0
                               /\ SoFar(e) /\ t.rest = Behind(e) /\ t.bol = TRUE
  <2>1. Ended[h] = "nl" /\ h # n + 1
    BY <1>4, <1>7, <1>9
  <2>2. h \in 1..n /\ h \in b + 1..n /\ k \in b + 1..h - 1
    BY <1>2, <2>1
  <2>3. value[h] = "nl"
    BY <1>4, <2>1, <2>2
  <2>4. IsEnd(b, h)
    <3>1. \A i \in b + 1..h - 1 : value[i] # "nl"
      BY <1>8
    <3> QED
      BY <2>3, <3>1 DEF IsEnd
  <2>5. IsAddress(b, k, h)
    BY <1>8, <2>2 DEF IsAddress
  <2>6. h \in b + 1..Len(value) /\ h \in b + 1..Len(value) + 1
    BY <1>1, <1>2, <2>2
  <2>7. h \in Begins /\ Rank(Begins, h) = Rank(Begins, b) + 1 /\ Rank(Begins, b) \in Nat
    BY <2>4, <2>6, NextBegin, BeginsAre
  <2>8. HoldsAddress(NthLine(Rank(Begins, b) + 1))
    BY <2>4, <2>5, <2>6, AddressLine
  <2>9. SoFar(h)
    <3> SUFFICES ASSUME NEW i \in 1..Rank(Begins, h) PROVE HoldsAddress(NthLine(i))
      BY DEF SoFar
    <3>1. i \in 1..Rank(Begins, b) \/ i = Rank(Begins, b) + 1
      BY <2>7
    <3> QED
      BY <2>8, <3>1 DEF SoFar
  <2>10. t.rest = Behind(h) /\ t.bol = TRUE
    BY <1>3, <2>1 DEF IsToken
  <2>11. h # 0
    BY <2>2
  <2> QED
    BY <2>7, <2>9, <2>10, <2>11
<1>10. ASSUME WellFormed PROVE t.token = "EOL"
  <2>1. k \in b + 1..Len(value) + 1
    BY <1>1, <1>2
  <2>2. ~(IsLast(b) /\ k = b + 1)
    BY DEF IsLast
  <2>3. IsOther(b, k)
    BY <1>10, <2>1, <2>2, FirstPiece
  <2>4. PICK e \in k + 1..n : IsEnd(b, e) /\ IsAddress(b, k, e)
    BY <1>1, <2>3 DEF IsOther
  <2>5. e \in 1..n /\ e # n + 1
    BY <1>2
  <2>6. value[e] = "nl"
    BY <1>1, <2>4, <2>5 DEF IsEnd
  <2>7. ~(e < h)
    <3>1. ASSUME e < h PROVE FALSE
      <4>1. e \in b + 1..h - 1 /\ e # k
        BY <1>2, <3>1
      <4> QED
        BY <1>8, <2>6, <4>1
    <3> QED
      BY <3>1
  <2>8. ~(h < e)
    <3>1. ASSUME h < e PROVE FALSE
      <4>1. h \in b + 1..e - 1 /\ h # k /\ h \in 1..n
        BY <1>2, <2>5, <3>1
      <4>2. Ended[h] = "blank"
        BY <1>4, <2>4, <4>1 DEF IsAddress
      <4> QED
        BY <1>5, <4>2
    <3> QED
      BY <3>1
  <2>9. h = e
    BY <1>2, <2>5, <2>7, <2>8
  <2>10. Ended[h] = "nl"
    BY <1>4, <2>5, <2>6, <2>9
  <2> QED
    BY <1>7, <2>10
<1> QED
  BY <1>6, <1>9, <1>10

-----------------------------------------------------------------------------
(* Where a step may lead.                                                  *)

LEMMA AcceptedText ==
  ASSUME UNCHANGED <<def, value>>, at' \in {"accepted", "help accepted"}, ~Textual,
         WellFormed, ~oom' => Held' = Expected
  PROVE  TextInv'
<1>1. ~Textual' /\ WellFormed' /\ Expected' = Expected
  BY TextFixed
<1>2. AcceptsMeaning'
  BY <1>1 DEF AcceptsMeaning, Expected
<1> QED
  BY <1>2 DEF TextInv

LEMMA AcceptedLines ==
  ASSUME UNCHANGED <<def, value>>, at' = "accepted", Textual, Held' = TextLines
  PROVE  TextInv'
<1>1. Textual' /\ TextLines' = TextLines
  BY TextFixed
<1>2. AcceptsMeaning'
  BY <1>1 DEF AcceptsMeaning
<1> QED
  BY <1>2 DEF TextInv

LEMMA RefusedText ==
  ASSUME UNCHANGED <<def, value>>, at' \in {"refused", "help refused"},
         Textual \/ ~WellFormed \/ ~Suits(TypeOf[ValueOf(1)])
  PROVE  TextInv'
<1>1. /\ Textual' <=> Textual
      /\ WellFormed' <=> WellFormed
      /\ ValueOf(1)' = ValueOf(1)
      /\ \A x : Suits(x)' <=> Suits(x)
  BY TextFixed
<1>2. Suits(TypeOf[ValueOf(1)])' <=> Suits(TypeOf[ValueOf(1)])
  BY <1>1 DEF Suits
<1>3. AcceptsMeaning'
  BY <1>1, <1>2 DEF AcceptsMeaning
<1> QED
  BY <1>3 DEF TextInv

LEMMA LastText ==
  ASSUME UNCHANGED <<def, value>>, at' = "separator", ~Textual, input' = <<>>,
         WellFormed, ~oom' => Held' = Expected
  PROVE  TextInv'
<1>1. ~Textual' /\ WellFormed' /\ Expected' = Expected
  BY TextFixed
<1>2. Complete'
  BY <1>1 DEF Complete
<1>3. AcceptsMeaning'
  BY DEF AcceptsMeaning
<1> QED
  BY <1>1, <1>2, <1>3 DEF TextInv

LEMMA AddressText ==
  ASSUME value \in Seq(Pieces), UNCHANGED <<def, value>>, at' = "separator", ~Textual,
         NEW b \in Begins, NEW t, NEW k, TakesAddress(t, b, k), input' = t.rest,
         SoFar(b), Suits("IPV6"),
         ~oom' => Held' = Addresses(IF def.multi THEN Rank(Begins, b) + 1 ELSE 1)
  PROVE  TextInv'
<1>1. /\ k \in b + 1..Len(value) /\ Skips(b, k) /\ Ended[k] = "::"
      /\ ~(k = b + 1 /\ k = Len(value)) /\ input' = Behind(k)
  BY DEF TakesAddress
<1>2. /\ Begins' = Begins /\ Ended' = Ended /\ Len(value)' = Len(value) /\ Behind(k)' = Behind(k)
      /\ Skips(b, k)' /\ SoFar(b)' /\ Suits("IPV6")' /\ ~Textual'
  BY <1>1, TextFixed
<1>3. Rank(Begins, b)' = Rank(Begins, b)
  BY <1>2 DEF Rank
<1>4. HoldsLines(Rank(Begins, b) + 1)'
  BY <1>3 DEF HoldsLines
<1>5. AtAddress(b, k)'
  BY <1>1, <1>2, <1>4 DEF AtAddress
<1>6. AcceptsMeaning'
  BY DEF AcceptsMeaning
<1> QED
  BY <1>2, <1>5, <1>6 DEF TextInv

LEMMA OtherText ==
  ASSUME at' \notin {"value", "separator", "text", "lines", "accepted", "help accepted",
                     "refused", "help refused", "aborted"}
  PROVE  TextInv'
BY DEF TextInv, AcceptsMeaning

-----------------------------------------------------------------------------
(* What is held, and what should be.                                       *)

LEMMA SuitsIs == ASSUME NEW x PROVE WrongType(x) <=> ~Suits(x)
BY DEF WrongType, Suits

LEMMA FewAddresses == Addresses(0) = <<>> /\ Addresses(1) = <<<<"::">>>>
<1>1. Addresses(0) = <<>>
  <2>1. Addresses(0) \in Seq(Seq(Pieces)) /\ Len(Addresses(0)) = 0
    BY AddressesAre
  <2> QED
    BY <2>1, EmptySeq
<1>2. Addresses(1) = Append(<<>>, <<"::">>)
  <2>1. Addresses(0 + 1) = Append(Addresses(0), <<"::">>)
    BY MoreAddresses
  <2>2. 0 + 1 = 1
    OBVIOUS
  <2> QED
    BY <1>1, <2>1, <2>2, Zenon
<1>3. PICK x : x = <<"::">>
  OBVIOUS
<1>4. Append(<<>>, x) = <<x>>
  OBVIOUS
<1> QED
  BY <1>1, <1>2, <1>3, <1>4

LEMMA LastMeaning ==
  ASSUME value \in Seq(Pieces), NEW b \in Begins, SoFar(b), b # 0 => Suits("IPV6"),
         NEW t, TakesLast(t, b), NEW r, r = Rank(Begins, b)
  PROVE  /\ WellFormed /\ r \in Nat
         /\ Suits(TypeOf[t.piece]) => Suitable = Append(Addresses(r), <<t.piece>>)
         /\ ~Suits(TypeOf[t.piece]) => Suitable = Addresses(r)
<1>1. IsLast(b) /\ t.piece = value[Len(value)]
  BY DEF TakesLast
<1>2. WellFormed
  BY <1>1, IsWellFormed DEF IsLast
<1>3. r \in Nat
  BY RankIs
<1> QED
  BY <1>1, <1>2, <1>3, SuitableIs

\* A node of one value is given the first.
LEMMA FirstOnly ==
  ASSUME NEW r \in Nat, r # 0, NEW x, NEW s, s = Addresses(r) \/ s = Append(Addresses(r), <<x>>),
         x \in Pieces
  PROVE  <<s[1]>> = Addresses(1)
<1>1. PICK A : A = Addresses(r)
  OBVIOUS
<1>2. A \in Seq(Seq(Pieces)) /\ Len(A) = r /\ \A i \in 1..r : A[i] = <<"::">>
  BY <1>1, AddressesAre
<1>3. 1 \in 1..r
  OBVIOUS
<1>4. PICK w \in Seq(Pieces) : w = <<x>>
  <2>1. <<x>> \in Seq(Pieces)
    OBVIOUS
  <2> QED
    BY <2>1
<1>5. Append(A, w)[1] = A[1]
  BY <1>2, <1>3, AppendProperties
<1>6. s[1] = <<"::">>
  BY <1>1, <1>2, <1>3, <1>4, <1>5
<1> QED
  BY <1>6, FewAddresses

-----------------------------------------------------------------------------
(* The steps of char2val.                                                  *)

LEMMA Char2ValText == ASSUME MemInv, TextInv, Char2Val PROVE TextInv'
<1>1. /\ input' = Ended /\ bol' = TRUE /\ val' = Single(NullVal)
      /\ at' = IF Textual THEN "text" ELSE "value"
      /\ UNCHANGED <<def, value>>
  BY DEF Char2Val, Ended, Textual, arguments
<1>2. value \in Seq(Pieces)
  BY DEF MemInv, MemType
<1>3. input' = Behind(0)
  BY <1>1, <1>2, BehindZero
<1>4. Behind(0)' = Behind(0) /\ Begins' = Begins /\ (SoFar(0)' <=> SoFar(0)) /\ (Textual' <=> Textual)
  BY <1>1, TextFixed
<1>5. IsFirst'
  BY <1>1 DEF IsFirst, Single, NullVal
<1>6. 0 \in Begins /\ SoFar(0)
  <2>1. 0 \in Begins
    BY <1>2, BeginsAre
  <2>2. Rank(Begins, 0) = 0
    BY <1>2, <2>1, RankIs
  <2> QED
    BY <2>1, <2>2 DEF SoFar
<1>7. AtBegin(0)'
  BY <1>1, <1>3, <1>4, <1>5, <1>6 DEF AtBegin
<1>8. AcceptsMeaning'
  BY <1>1 DEF AcceptsMeaning
<1> QED
  BY <1>1, <1>3, <1>4, <1>7, <1>8 DEF TextInv

LEMMA NotAValueText == ASSUME MemInv, TextInv, NotAValue PROVE TextInv'
<1> DEFINE t == Lex(input, bol)
<1>1. /\ at = "value" /\ t.token # "VALUE" /\ Report(t, "refused", FALSE)
      /\ UNCHANGED <<def, value>>
  BY DEF NotAValue, arguments
<1>2. PICK b : AtBegin(b)
  BY <1>1 DEF TextInv
<1>3. b \in Begins /\ t = Lex(Behind(b), TRUE)
  BY <1>2 DEF AtBegin
<1> HIDE DEF t
<1>4. value \in Seq(Pieces)
  BY DEF MemInv, MemType
<1>5. ~WellFormed
  BY <1>1, <1>3, <1>4, OtherToken
<1>6. at' \in {"refused", "help refused"}
  BY <1>1 DEF Report, Helping
<1> QED
  BY <1>1, <1>5, <1>6, RefusedText

LEMMA ValueOfWrongTypeText == ASSUME MemInv, TextInv, ValueOfWrongType PROVE TextInv'
<1> DEFINE t == Lex(input, bol)
<1>1. /\ at = "value" /\ t.token = "VALUE" /\ WrongType(TypeOf[t.piece])
      /\ Report(t, IF IsFirst THEN "refused" ELSE "accepted", TRUE)
      /\ UNCHANGED <<def, value, val, oom>>
  BY DEF ValueOfWrongType, arguments
<1>2. ~Textual /\ \E b : AtBegin(b)
  BY <1>1 DEF TextInv
<1>3. PICK b : AtBegin(b)
  BY <1>2
<1>4. b \in Begins /\ t = Lex(Behind(b), TRUE) /\ SoFar(b) /\ (IsFirst <=> b = 0)
      /\ (b # 0 => Suits("IPV6") /\ HoldsLines(Rank(Begins, b)))
  BY <1>3 DEF AtBegin
<1> HIDE DEF t
<1>5. value \in Seq(Pieces)
  BY DEF MemInv, MemType
<1>6. ~Suits(TypeOf[t.piece])
  BY <1>1, SuitsIs
<1>7. /\ TakesLast(t, b) \/ \E k : TakesAddress(t, b, k)
      /\ WellFormed => ValueOf(Rank(Begins, b) + 1) = t.piece
  BY <1>1, <1>4, <1>5, ValueToken
<1>8. CASE IsFirst
  <2>1. at' \in {"refused", "help refused"}
    BY <1>1, <1>8 DEF Report, Helping
  <2>2. Rank(Begins, b) = 0
    BY <1>4, <1>5, <1>8, RankIs
  <2>3. ~WellFormed \/ ~Suits(TypeOf[ValueOf(1)])
    BY <1>6, <1>7, <2>2
  <2> QED
    BY <1>1, <2>1, <2>3, RefusedText
<1>9. CASE ~IsFirst
  <2>1. at' \in {"accepted", "help accepted"}
    BY <1>1, <1>9 DEF Report, Helping
  <2>2. Suits("IPV6") /\ HoldsLines(Rank(Begins, b)) /\ b # 0
    BY <1>4, <1>9
  <2>3. TakesLast(t, b)
    <3>1. TypeOf["::"] = "IPV6"
      BY DEF TypeOf
    <3> QED
      BY <1>6, <1>7, <2>2, <3>1 DEF TakesAddress
  <2>4. PICK r : r = Rank(Begins, b)
    OBVIOUS
  <2>5. WellFormed /\ r \in Nat /\ Suitable = Addresses(r)
    BY <1>4, <1>5, <1>6, <2>3, <2>4, LastMeaning
  <2>6. r # 0
    BY <1>4, <1>5, <2>2, <2>4, RankIs
  <2>7. "::" \in Pieces
    BY DEF Pieces
  <2>8. <<Suitable[1]>> = Addresses(1)
    BY <2>5, <2>6, <2>7, FirstOnly
  <2>9. Held' = Held
    BY <1>1 DEF Held
  <2>10. ~oom' => Held' = Expected
    BY <1>1, <2>2, <2>4, <2>5, <2>8, <2>9 DEF HoldsLines, Expected
  <2> QED
    BY <1>1, <1>2, <2>1, <2>5, <2>10, AcceptedText
<1> QED
  BY <1>8, <1>9

\* What the lexer leaves after a value.
LEMMA OneText ==
  ASSUME NEW t, Lexed(<<t>>), t.token = "VALUE"
  PROVE  cli_value'.text = <<t.piece>>
<1> DEFINE values == {i \in DOMAIN <<t>> : <<t>>[i].token = "VALUE"}
<1>1. values = {1}
  OBVIOUS
<1>2. cli_value' = IF values = {} THEN cli_value ELSE make_val_value(<<t>>[Max(values)], made')
  BY DEF Lexed
<1> HIDE DEF values
<1>3. Max(values) = 1
  BY <1>1 DEF Max
<1>4. cli_value' = make_val_value(t, made')
  BY <1>1, <1>2, <1>3
<1> QED
  BY <1>4 DEF make_val_value

\* add_val adds a text to those held.
LEMMA AddedText ==
  ASSUME NEW v, IsVal(v), NEW c, NEW w, w = add_val(v, c)
  PROVE  w.texts = Append(IF v.vals = <<>> THEN <<v.text>> ELSE v.texts, c.text)
<1> DEFINE n == Len(v.vals)
           list == IF v.vals # <<>> THEN v
                   ELSE [v EXCEPT !.vals = <<v.val>>, !.types = <<v.type>>, !.texts = <<v.text>>, !.val = 0]
           grown == IF Full(n) THEN [list EXCEPT !.room = n + MULTI_ALLOC, !.troom = n + MULTI_ALLOC]
                    ELSE list
<1>1. w = [grown EXCEPT !.vals = Append(@, c.val), !.types = Append(@, c.type),
                        !.texts = Append(@, c.text)]
  BY DEF add_val
<1>2. IsVal(list) /\ list.texts = IF v.vals = <<>> THEN <<v.text>> ELSE v.texts
  BY DEF IsVal
<1> HIDE DEF list
<1>3. IsVal(grown) /\ grown.texts = list.texts
  BY <1>2 DEF IsVal
<1> HIDE DEF grown
<1>4. w.texts = Append(grown.texts, c.text)
  BY <1>1, <1>3 DEF IsVal
<1> QED
  BY <1>2, <1>3, <1>4

LEMMA TakeFirstText == ASSUME MemInv, TextInv, TakeFirst PROVE TextInv'
<1> DEFINE t == Lex(input, bol)
           c == make_val_value(t, made')
<1>1. /\ at = "value" /\ IsFirst /\ at' = "separator" /\ t.token = "VALUE"
      /\ ~WrongType(TypeOf[t.piece]) /\ input' = t.rest
      /\ val' = Single(c) /\ UNCHANGED <<def, value>>
  BY DEF TakeFirst, arguments
<1>2. ~Textual /\ \E b : AtBegin(b)
  BY <1>1 DEF TextInv
<1>3. PICK b : AtBegin(b)
  BY <1>2
<1>4. b \in Begins /\ t = Lex(Behind(b), TRUE) /\ SoFar(b) /\ b = 0
  BY <1>1, <1>3 DEF AtBegin
<1>5. Held' = <<<<t.piece>>>>
  <2>1. c.text = <<t.piece>>
    BY DEF make_val_value
  <2> HIDE DEF c
  <2>2. val'.vals = <<>> /\ val'.text = <<t.piece>>
    BY <1>1, <2>1 DEF Single
  <2> QED
    BY <2>2 DEF Held
<1> HIDE DEF t, c
<1>6. value \in Seq(Pieces)
  BY DEF MemInv, MemType
<1>7. Suits(TypeOf[t.piece])
  BY <1>1, SuitsIs
<1>8. TakesLast(t, b) \/ \E k : TakesAddress(t, b, k)
  BY <1>1, <1>4, <1>6, ValueToken
<1>9. PICK r : r = Rank(Begins, b) /\ r = 0
  BY <1>4, <1>6, RankIs
<1>10. CASE TakesLast(t, b)
  <2>1. WellFormed /\ Suitable = Append(Addresses(r), <<t.piece>>)
    BY <1>4, <1>6, <1>7, <1>9, <1>10, LastMeaning
  <2>2. PICK x : x = <<t.piece>>
    OBVIOUS
  <2>3. Suitable = <<x>>
    <3>1. Append(<<>>, x) = <<x>>
      OBVIOUS
    <3> QED
      BY <1>9, <2>1, <2>2, <3>1, FewAddresses
  <2>4. Expected = <<x>>
    <3>1. Suitable[1] = x
      BY <2>3
    <3> QED
      BY <2>3, <3>1 DEF Expected
  <2>5. input' = <<>>
    BY <1>1, <1>10 DEF TakesLast
  <2> QED
    BY <1>1, <1>2, <1>5, <2>1, <2>2, <2>4, <2>5, LastText
<1>11. CASE \E k : TakesAddress(t, b, k)
  <2>1. PICK k : TakesAddress(t, b, k)
    BY <1>11
  <2>2. t.piece = "::"
    BY <2>1 DEF TakesAddress
  <2>3. Suits("IPV6")
    BY <1>7, <2>2 DEF TypeOf
  <2>4. Held' = Addresses(IF def.multi THEN Rank(Begins, b) + 1 ELSE 1)
    <3>1. Rank(Begins, b) + 1 = 1
      BY <1>9
    <3>2. Held' = Addresses(1)
      BY <1>5, <2>2, FewAddresses
    <3> QED
      BY <3>1, <3>2, Zenon
  <2> QED
    BY <1>1, <1>2, <1>4, <1>6, <2>1, <2>3, <2>4, AddressText
<1> QED
  BY <1>8, <1>10, <1>11

LEMMA TakeNextText == ASSUME MemInv, TextInv, TakeNext PROVE TextInv'
<1> DEFINE t == Lex(input, bol)
<1>1. /\ at = "value" /\ ~IsFirst /\ def.multi /\ at' = "separator" /\ t.token = "VALUE"
      /\ ~WrongType(TypeOf[t.piece]) /\ Lexed(<<t>>)
      /\ UNCHANGED <<def, value>>
      /\ (val' = add_val(val, cli_value') /\ oom' = oom) \/ AddFails(val)
  BY DEF TakeNext, arguments
<1>2. ~Textual /\ \E b : AtBegin(b)
  BY <1>1 DEF TextInv
<1>3. PICK b : AtBegin(b)
  BY <1>2
<1>4. b \in Begins /\ t = Lex(Behind(b), TRUE) /\ SoFar(b) /\ b # 0
      /\ Suits("IPV6") /\ HoldsLines(Rank(Begins, b))
  BY <1>1, <1>3 DEF AtBegin
<1> HIDE DEF t
<1>5. value \in Seq(Pieces) /\ made \in Nat
  BY DEF MemInv, MemType
<1>6. input' = t.rest /\ cli_value'.val = made' /\ made' = made + 1 /\ cli_value'.text = <<t.piece>>
  BY <1>1, <1>5, OneToken, OneText
<1>7. Suits(TypeOf[t.piece])
  BY <1>1, SuitsIs
<1>8. TakesLast(t, b) \/ \E k : TakesAddress(t, b, k)
  BY <1>1, <1>4, <1>5, ValueToken
<1>9. PICK r \in Nat : r = Rank(Begins, b)
  BY <1>5, BeginsAre
<1>10. ~oom' => Held' = Append(Addresses(r), <<t.piece>>)
  <2> SUFFICES ASSUME ~oom' PROVE Held' = Append(Addresses(r), <<t.piece>>)
    OBVIOUS
  <2>1. val' = add_val(val, cli_value') /\ oom' = oom
    BY <1>1 DEF AddFails
  <2>2. /\ IsVal(val) /\ val.vals \in Seq(Nat) /\ val.val \in Nat /\ val.room \in Nat
        /\ val.troom \in Nat /\ (val.val # 0 \/ val.vals # <<>>) /\ Steps(val.room)
        /\ Steps(val.troom) /\ Len(val.vals) <= val.room /\ Len(val.vals) <= val.troom
    BY <1>1 DEF MemInv, MemType, InRoom, IsFirst, Reading
  <2>3. val'.texts = Append(Held, <<t.piece>>)
    BY <1>6, <2>1, <2>2, AddedText DEF Held
  <2>4. val'.vals # <<>>
    <3>1. cli_value'.val \in Nat \ {0}
      BY <1>5, <1>6
    <3> QED
      BY <2>1, <2>2, <3>1, AddedVal
  <2>5. Held = Addresses(r)
    BY <1>1, <1>4, <1>9, <2>1 DEF HoldsLines
  <2> QED
    BY <2>3, <2>4, <2>5 DEF Held
<1>11. CASE TakesLast(t, b)
  <2>1. WellFormed /\ Suitable = Append(Addresses(r), <<t.piece>>)
    BY <1>4, <1>5, <1>7, <1>9, <1>11, LastMeaning
  <2>2. ~oom' => Held' = Expected
    BY <1>1, <1>10, <2>1 DEF Expected
  <2>3. input' = <<>>
    BY <1>6, <1>11 DEF TakesLast
  <2> QED
    BY <1>1, <1>2, <2>1, <2>2, <2>3, LastText
<1>12. CASE \E k : TakesAddress(t, b, k)
  <2>1. PICK k : TakesAddress(t, b, k)
    BY <1>12
  <2>2. t.piece = "::"
    BY <2>1 DEF TakesAddress
  <2>3. ~oom' => Held' = Addresses(r + 1)
    BY <1>10, <2>2, MoreAddresses
  <2>4. ~oom' => Held' = Addresses(IF def.multi THEN Rank(Begins, b) + 1 ELSE 1)
    BY <1>1, <1>9, <2>3
  <2> QED
    BY <1>1, <1>2, <1>4, <1>5, <1>6, <2>1, <2>4, AddressText
<1> QED
  BY <1>8, <1>11, <1>12

LEMMA UnexpectedText == ASSUME MemInv, TextInv, Unexpected PROVE TextInv'
<1> DEFINE t == Lex(input, bol)
<1>1. /\ at = "value" /\ ~IsFirst /\ ~def.multi /\ at' = "separator" /\ t.token = "VALUE"
      /\ ~WrongType(TypeOf[t.piece]) /\ Lexed(<<t>>)
      /\ UNCHANGED <<def, value, val, oom>>
  BY DEF Unexpected, arguments
<1>2. ~Textual /\ \E b : AtBegin(b)
  BY <1>1 DEF TextInv
<1>3. PICK b : AtBegin(b)
  BY <1>2
<1>4. b \in Begins /\ t = Lex(Behind(b), TRUE) /\ SoFar(b) /\ b # 0
      /\ Suits("IPV6") /\ HoldsLines(Rank(Begins, b))
  BY <1>1, <1>3 DEF AtBegin
<1>5. t.piece \in Pieces
  BY <1>1, LexedValue DEF Pieces
<1> HIDE DEF t
<1>6. value \in Seq(Pieces) /\ made \in Nat
  BY DEF MemInv, MemType
<1>7. input' = t.rest
  BY <1>1, <1>6, OneToken
<1>8. Suits(TypeOf[t.piece])
  BY <1>1, SuitsIs
<1>9. TakesLast(t, b) \/ \E k : TakesAddress(t, b, k)
  BY <1>1, <1>4, <1>6, ValueToken
<1>10. PICK r \in Nat : r = Rank(Begins, b) /\ r # 0
  BY <1>4, <1>6, RankIs
<1>11. ~oom' => Held' = Addresses(1)
  <2>1. Held' = Held
    BY <1>1 DEF Held
  <2> QED
    BY <1>1, <1>4, <2>1 DEF HoldsLines
<1>12. CASE TakesLast(t, b)
  <2>1. WellFormed /\ Suitable = Append(Addresses(r), <<t.piece>>)
    BY <1>4, <1>6, <1>8, <1>10, <1>12, LastMeaning
  <2>2. <<Suitable[1]>> = Addresses(1)
    BY <1>5, <1>10, <2>1, FirstOnly
  <2>3. ~oom' => Held' = Expected
    BY <1>1, <1>11, <2>2 DEF Expected
  <2>4. input' = <<>>
    BY <1>7, <1>12 DEF TakesLast
  <2> QED
    BY <1>1, <1>2, <2>1, <2>3, <2>4, LastText
<1>13. CASE \E k : TakesAddress(t, b, k)
  <2>1. PICK k : TakesAddress(t, b, k)
    BY <1>13
  <2>2. ~oom' => Held' = Addresses(IF def.multi THEN Rank(Begins, b) + 1 ELSE 1)
    BY <1>1, <1>11
  <2> QED
    BY <1>1, <1>2, <1>4, <1>6, <1>7, <2>1, <2>2, AddressText
<1> QED
  BY <1>9, <1>12, <1>13

LEMMA ReadSeparatorText == ASSUME MemInv, TextInv, ReadSeparator PROVE TextInv'
<1> DEFINE t == Lex(input, bol)
           u == Lex(t.rest, t.bol)
           ts == IF t.token \in {"end", "EOL"} THEN <<t>> ELSE <<t, u>>
<1>1. at = "separator" /\ Lexed(ts) /\ UNCHANGED <<def, value, val, oom>>
  BY DEF ReadSeparator, arguments
<1>2. (CASE t.token = "end" -> at' = "accepted" /\ Free({})
        [] t.token = "EOL" -> at' = "value" /\ Free({})
        [] OTHER -> /\ at' = "refused"
                    /\ Free(IF Last(ts).token = "VALUE" THEN {cli_value'.val} ELSE {}))
  BY Zenon DEF ReadSeparator
<1>3. input = <<>> => t.token = "end"
  BY LexEnd
<1>4. t = Lex(input, bol)
  OBVIOUS
<1>5. t.token = "EOL" => input' = t.rest /\ bol' = t.bol
  <2>1. t.token = "EOL" => Lexed(<<t>>)
    BY <1>1
  <2>2. Last(<<t>>) = t
    BY DEF Last
  <2> HIDE DEF t, u, ts
  <2> QED
    BY <2>1, <2>2 DEF Lexed
<1> HIDE DEF t, u, ts
<1>6. ~Textual /\ ((input = <<>> /\ Complete) \/ \E b, k : AtAddress(b, k))
  BY <1>1 DEF TextInv
<1>7. value \in Seq(Pieces) /\ ~IsFirst
  BY <1>1 DEF MemInv, MemType, MoreIsAddress
<1>8. Held' = Held /\ (IsFirst' <=> IsFirst)
  BY <1>1 DEF Held, IsFirst
<1>9. CASE input = <<>> /\ Complete
  <2>1. at' = "accepted"
    BY <1>2, <1>3, <1>9
  <2>2. WellFormed /\ (~oom' => Held' = Expected)
    BY <1>1, <1>8, <1>9 DEF Complete
  <2> QED
    BY <1>1, <1>6, <2>1, <2>2, AcceptedText
<1>10. CASE \E b, k : AtAddress(b, k)
  <2>1. PICK b, k : AtAddress(b, k)
    BY <1>10
  <2>2. /\ b \in Begins /\ k \in b + 1..Len(value) /\ input = Behind(k)
        /\ Skips(b, k) /\ Ended[k] = "::" /\ ~(k = b + 1 /\ k = Len(value))
        /\ SoFar(b) /\ Suits("IPV6") /\ HoldsLines(Rank(Begins, b) + 1)
    BY <2>1 DEF AtAddress
  <2>3. t = Lex(Behind(k), bol)
    BY <1>4, <2>2
  <2>4. /\ t.token # "end"
        /\ t.token = "EOL" =>
             \E e \in Begins : /\ Rank(Begins, e) = Rank(Begins, b) + 1 /\ e # 0
                               /\ SoFar(e) /\ t.rest = Behind(e) /\ t.bol = TRUE
        /\ t.token # "EOL" => ~WellFormed
    BY <1>7, <2>2, <2>3, SeparatorToken
  <2>5. CASE t.token = "EOL"
    <3>1. PICK e \in Begins : /\ Rank(Begins, e) = Rank(Begins, b) + 1 /\ e # 0
                              /\ SoFar(e) /\ t.rest = Behind(e) /\ t.bol = TRUE
      BY <2>4, <2>5
    <3>2. at' = "value" /\ input' = Behind(e) /\ bol' = TRUE
      BY <1>2, <1>5, <2>5, <3>1
    <3>3. /\ Begins' = Begins /\ Behind(e)' = Behind(e) /\ SoFar(e)' /\ Suits("IPV6")' /\ ~Textual'
      BY <1>1, <1>6, <2>2, <3>1, TextFixed
    <3>4. Rank(Begins, e)' = Rank(Begins, b) + 1
      BY <3>1, <3>3 DEF Rank
    <3>5. HoldsLines(Rank(Begins, e))'
      BY <1>1, <1>8, <2>2, <3>4 DEF HoldsLines
    <3>6. AtBegin(e)'
      BY <1>7, <1>8, <3>1, <3>2, <3>3, <3>5 DEF AtBegin
    <3>7. AcceptsMeaning'
      BY <3>2 DEF AcceptsMeaning
    <3> QED
      BY <3>2, <3>3, <3>6, <3>7 DEF TextInv
  <2>6. CASE t.token # "EOL"
    <3>1. at' = "refused" /\ ~WellFormed
      BY <1>2, <2>4, <2>6
    <3> QED
      BY <1>1, <3>1, RefusedText
  <2> QED
    BY <2>5, <2>6
<1> QED
  BY <1>6, <1>9, <1>10

-----------------------------------------------------------------------------
(* The steps of char2val_text.                                             *)

LEMMA OneLineText == ASSUME MemInv, TextInv, OneLine PROVE TextInv'
<1>1. /\ at = "text" /\ Linecnt = 1 /\ at' = "accepted"
      /\ val' = Single([type |-> "TEXT", val |-> made', text |-> Line, free_me |-> TRUE])
      /\ UNCHANGED <<def, value>>
  BY DEF OneLine, arguments
<1>2. Textual /\ input = Behind(0)
  BY <1>1 DEF TextInv
<1>3. value \in Seq(Pieces)
  BY DEF MemInv, MemType
<1>4. 0 \in Begins /\ Rank(Begins, 0) = 0
  BY <1>3, BeginsAre, RankIs
<1>5. PICK e : LineRead(0, e)
  BY <1>2, <1>3, <1>4, LineBehind
<1>6. Line = NthLine(1)
  BY <1>4, <1>5 DEF LineRead
<1>7. Held' = <<NthLine(1)>>
  BY <1>1, <1>6 DEF Held, Single
<1>8. TextLines = <<NthLine(1)>>
  <2>1. TextLines = [n \in 1..1 |-> NthLine(n)]
    BY <1>1, <1>3, TextLinesIs
  <2>2. PICK l : l = NthLine(1)
    OBVIOUS
  <2>3. TextLines = [n \in 1..1 |-> l]
    BY <2>1, <2>2
  <2>4. [n \in 1..1 |-> l] = <<l>>
    OBVIOUS
  <2> QED
    BY <2>2, <2>3, <2>4
<1> QED
  BY <1>1, <1>2, <1>7, <1>8, AcceptedLines

LEMMA SeveralLinesText == ASSUME MemInv, TextInv, SeveralLines PROVE TextInv'
<1> DEFINE room == ((Linecnt + MULTI_ALLOC - 1) \div MULTI_ALLOC) * MULTI_ALLOC
<1>1. /\ at = "text" /\ UNCHANGED <<def, value, input>>
      /\ \/ /\ at' = "lines"
            /\ val' = [val EXCEPT !.type = "TEXT", !.free_me = TRUE, !.room = room, !.troom = room]
         \/ at' = "refused"
  BY DEF SeveralLines, arguments, lexer
<1> HIDE DEF room
<1>2. Textual /\ input = Behind(0)
  BY <1>1 DEF TextInv
<1>3. CASE at' = "refused"
  BY <1>1, <1>2, <1>3, RefusedText
<1>4. CASE at' = "lines"
  <2>1. val = Single(NullVal) /\ value \in Seq(Pieces)
    BY <1>1 DEF MemInv, MemType, HoldsBlocks
  <2>2. IsVal(val) /\ val.vals = <<>> /\ val.texts = <<>>
    BY <2>1 DEF Single, IsVal
  <2>3. val'.vals = <<>> /\ val'.texts = <<>>
    BY <1>1, <1>4, <2>2 DEF IsVal
  <2>4. 0 \in Begins /\ Rank(Begins, 0) = 0
    BY <2>1, BeginsAre, RankIs
  <2>5. Begins' = Begins /\ Behind(0)' = Behind(0) /\ Textual'
    BY <1>1, <1>2, TextFixed
  <2>6. Rank(Begins, 0)' = 0
    BY <2>4, <2>5 DEF Rank
  <2>7. [n \in 1..0 |-> NthLine(n)'] = <<>>
    <3>1. 1..0 = {}
      OBVIOUS
    <3> QED
      BY <3>1
  <2>8. AtCopy(0)'
    BY <1>1, <1>2, <2>3, <2>4, <2>5, <2>6, <2>7 DEF AtCopy
  <2>9. AcceptsMeaning'
    BY <1>4 DEF AcceptsMeaning
  <2> QED
    BY <1>4, <2>5, <2>8, <2>9 DEF TextInv
<1> QED
  BY <1>1, <1>3, <1>4

LEMMA AddLineText == ASSUME MemInv, TextInv, AddLine PROVE TextInv'
<1>1. /\ at = "lines"
      /\ val' = [val EXCEPT !.vals = Append(@, made'), !.types = Append(@, "ERROR"),
                            !.texts = Append(@, Line)]
      /\ made' = made + 1
      /\ input' = SubSeq(input, LineLen + 2, Len(input))
      /\ UNCHANGED <<def, value>>
  BY DEF AddLine, arguments
<1>2. at' = CASE Len(val'.vals) = Linecnt -> "accepted"
              [] Len(val'.vals) # Linecnt /\ input[LineLen + 1] = "nul" -> "aborted"
              [] OTHER -> "lines"
  BY Zenon DEF AddLine
<1>3. Textual /\ \E b : AtCopy(b)
  BY <1>1 DEF TextInv
<1>4. PICK b : AtCopy(b)
  BY <1>3
<1>5. b \in Begins /\ input = Behind(b) /\ Len(val.vals) = Rank(Begins, b)
      /\ val.texts = [n \in 1..Rank(Begins, b) |-> NthLine(n)]
  BY <1>4 DEF AtCopy
<1>6. /\ value \in Seq(Pieces) /\ made \in Nat /\ IsVal(val) /\ val.vals \in Seq(Nat)
      /\ Len(val.vals) < Linecnt
  BY <1>1 DEF MemInv, MemType, InRoom
<1>7. PICK e : LineRead(b, e)
  BY <1>5, <1>6, LineBehind
<1>8. /\ e \in b + 1..Len(value) + 1 /\ IsEnd(b, e)
      /\ Line = NthLine(Rank(Begins, b) + 1)
      /\ input[LineLen + 1] = Ended[e]
      /\ input' = Behind(e)
  BY <1>1, <1>7 DEF LineRead
<1>9. val'.vals = Append(val.vals, made') /\ val'.texts = Append(val.texts, Line)
  BY <1>1, <1>6 DEF IsVal
<1>10. PICK r \in Nat : r = Rank(Begins, b)
  BY <1>6, BeginsAre
<1>11. Len(val'.vals) = r + 1 /\ val'.vals # <<>>
  <2>1. made' \in Nat
    BY <1>1, <1>6
  <2>2. val'.vals \in Seq(Nat) /\ Len(val'.vals) = Len(val.vals) + 1
    BY <1>6, <1>9, <2>1, AppendBlock
  <2> QED
    BY <1>5, <1>10, <2>2
<1>12. val'.texts = [n \in 1..r + 1 |-> NthLine(n)]
  BY <1>5, <1>8, <1>9, <1>10
<1>13. CASE r + 1 = Linecnt
  <2>1. at' = "accepted"
    BY <1>2, <1>11, <1>13
  <2>2. Held' = TextLines
    BY <1>6, <1>11, <1>12, <1>13, TextLinesIs DEF Held
  <2> QED
    BY <1>1, <1>3, <2>1, <2>2, AcceptedLines
<1>14. CASE r + 1 # Linecnt
  <2>1. e # Len(value) + 1
    <3>1. ASSUME e = Len(value) + 1 PROVE FALSE
      <4>1. Lines = r + 1
        BY <1>5, <1>6, <1>8, <1>10, <3>1, LastBegin
      <4>2. Linecnt = Lines \/ Linecnt = Lines - 1
        BY <1>6, LinecntIs
      <4> QED
        BY <1>5, <1>6, <1>10, <1>14, <4>1, <4>2
    <3> QED
      BY <3>1
  <2>2. Len(value) \in Nat /\ b \in Nat
    BY <1>5, <1>6, BeginsAre
  <2>3. e \in b + 1..Len(value) /\ e \in 1..Len(value)
    BY <1>8, <2>1, <2>2
  <2>4. Ended[e] # "nul"
    BY <1>6, <2>3, EndedIs
  <2>5. at' = "lines"
    BY <1>2, <1>8, <1>11, <1>14, <2>4
  <2>6. e \in Begins /\ Rank(Begins, e) = r + 1
    BY <1>5, <1>6, <1>8, <1>10, <2>3, NextBegin
  <2>7. Begins' = Begins /\ Behind(e)' = Behind(e) /\ Textual' /\ \A n : NthLine(n)' = NthLine(n)
    BY <1>1, <1>3, TextFixed
  <2>8. Rank(Begins, e)' = r + 1
    BY <2>6, <2>7 DEF Rank
  <2>9. val'.texts = [n \in 1..r + 1 |-> NthLine(n)']
    BY <1>12, <2>7
  <2>10. AtCopy(e)'
    BY <1>8, <1>11, <2>6, <2>7, <2>8, <2>9 DEF AtCopy
  <2>11. AcceptsMeaning'
    BY <2>5 DEF AcceptsMeaning
  <2> QED
    BY <2>5, <2>7, <2>10, <2>11 DEF TextInv
<1> QED
  BY <1>13, <1>14

-----------------------------------------------------------------------------

LEMMA SameText == ASSUME TextInv, UNCHANGED <<at, arguments, lexer, val, memory>> PROVE TextInv'
<1>1. UNCHANGED <<at, def, value, input, bol, val, oom>>
  BY DEF arguments, lexer, memory
<1>2. /\ Begins' = Begins /\ Ended' = Ended /\ Len(value)' = Len(value)
      /\ \A p : Behind(p)' = Behind(p)
      /\ \A n : NthLine(n)' = NthLine(n)
      /\ \A p, k : Skips(p, k)' <=> Skips(p, k)
      /\ \A b : SoFar(b)' <=> SoFar(b)
      /\ \A x : Suits(x)' <=> Suits(x)
      /\ Textual' <=> Textual
      /\ WellFormed' <=> WellFormed
      /\ ValueOf(1)' = ValueOf(1)
      /\ Suitable' = Suitable
      /\ Expected' = Expected
      /\ TextLines' = TextLines
  BY <1>1, TextFixed
<1>3. Held' = Held /\ (IsFirst' <=> IsFirst)
  BY <1>1 DEF Held, IsFirst
<1>4. \A b : Rank(Begins, b)' = Rank(Begins, b)
  BY <1>2 DEF Rank
<1>5. \A b : AtBegin(b) => AtBegin(b)'
  BY <1>1, <1>2, <1>3, <1>4 DEF AtBegin, HoldsLines
<1>6. \A b, k : AtAddress(b, k) => AtAddress(b, k)'
  BY <1>1, <1>2, <1>3, <1>4 DEF AtAddress, HoldsLines
<1>7. \A b : AtCopy(b) => AtCopy(b)'
  BY <1>1, <1>2, <1>4 DEF AtCopy
<1>8. Complete => Complete'
  BY <1>1, <1>2, <1>3 DEF Complete
<1>9. Suits(TypeOf[ValueOf(1)])' <=> Suits(TypeOf[ValueOf(1)])
  BY <1>1, <1>2 DEF Suits
<1>10. AcceptsMeaning => AcceptsMeaning'
  BY <1>1, <1>2, <1>3, <1>9 DEF AcceptsMeaning
<1> QED
  BY <1>1, <1>2, <1>5, <1>6, <1>7, <1>8, <1>10 DEF TextInv

LEMMA TextNext == ASSUME MemInv, TextInv, [AtNext]_atVars PROVE TextInv'
<1>1. CASE Over \/ UNCHANGED atVars
  <2>1. UNCHANGED <<at, arguments, lexer, val, memory>>
    BY <1>1 DEF Over, atVars
  <2> QED
    BY <2>1, SameText
<1>2. CASE ExpandStep
  BY <1>2, SameText DEF ExpandStep
<1>3. CASE ExpandHelp \/ ExpandCommand \/ FreeVal
  <2>1. at' \in {"reported", "commands", "done"}
    BY <1>3 DEF ExpandHelp, ExpandCommand, FreeVal
  <2> QED
    BY <2>1, OtherText
<1> QED
  BY <1>1, <1>2, <1>3, Char2ValText, NotAValueText, ValueOfWrongTypeText, TakeFirstText,
     TakeNextText, UnexpectedText, ReadSeparatorText, OneLineText, SeveralLinesText, AddLineText
  DEF AtNext

\* For every type of node and every text, char2val accepts what the type allows
\* and hands over all of it, and refuses only what is badly formed or begins
\* with a value of a wrong type.
THEOREM ValuesAreMeant == AtSpec => []AcceptsMeaning
<1>1. AtInit => TextInv
  BY DEF AtInit, TextInv, AcceptsMeaning
<1>2. TextInv => AcceptsMeaning
  BY DEF TextInv
<1> QED
  BY <1>1, <1>2, TextNext, MemInvariant, PTL DEF AtSpec
=============================================================================
