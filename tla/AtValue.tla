------------------------------ MODULE AtValue ------------------------------
(***************************************************************************)
(* The value a template action is run for, $VAR(@): execute_list converts  *)
(* the text with char2val, runs the commands of the action and frees the   *)
(* value (src/src/cliexec/cli_new.c); the lexer is cli_val.l.  A text that *)
(* is refused is reported with expand_string, and a command is expanded by *)
(* it: ExpandString is part of this module.                                *)
(*                                                                         *)
(* A text is a sequence of pieces: "::", a digit ("number"), the word true, *)
(* a newline, a blank, and any other character ("?").  A string in memory  *)
(* is a block.                                                             *)
(***************************************************************************)
EXTENDS ExpandString, SequencesExt

CONSTANTS
  MULTI_ALLOC,   \* entries a list of values grows by
  Defs,          \* the types of nodes: [type, type2, multi, help]
  Texts          \* the texts of values; two pieces that would make one token
                 \* together are not neighbours

ASSUME AtValueAssumption ==
  /\ MULTI_ALLOC \in Nat /\ MULTI_ALLOC >= 2
  /\ \A d \in Defs : d.multi \in BOOLEAN /\ d.help \in BOOLEAN
  /\ \A t \in Texts : t \in Seq({"::", "number", "true", "nl", "blank", "?"})

VARIABLES
  at,            \* where execute_list is
  def, value,    \* the arguments of char2val
  input,         \* what the lexer, or char2val_text, has not read yet
  bol,           \* the lexer is at the beginning of a line
  cli_value,     \* what the lexer found last
  val,           \* validate_value_val
  live,          \* the blocks allocated and not freed
  made,          \* number of blocks made
  misfreed,      \* a block was freed that was not live
  oom            \* a list of values could not grow

lexer == <<input, bol, cli_value>>
memory == <<live, made, misfreed, oom>>
expand == <<alloc, exe_string_len, left, off, top, todo, pc, ret, failed, calls>>
arguments == <<def, value>>
atVars == <<at, arguments, lexer, val, memory, expand>>

NullVal == [type |-> "ERROR", val |-> 0, text |-> <<>>, free_me |-> FALSE]

\* A value without a list.
Single(v) ==
  [type |-> v.type, val |-> v.val, text |-> v.text, free_me |-> v.free_me,
   vals |-> <<>>, types |-> <<>>, texts |-> <<>>, room |-> 0, troom |-> 0]

AtInit ==
  /\ Init
  /\ at = "char2val"
  /\ def \in Defs /\ value \in Texts
  /\ input = <<>> /\ bol = TRUE
  /\ cli_value = NullVal
  /\ val = Single(NullVal)
  /\ live = {} /\ made = 0 /\ misfreed = FALSE /\ oom = FALSE

-----------------------------------------------------------------------------
(* The lexer.                                                              *)

TypeOf == [p \in {"::", "number", "true"} |->
  CASE p = "::" -> "IPV6" [] p = "number" -> "INT" [] OTHER -> "BOOL"]

\* A piece that can be part of a longer token is read by characters if the
\* token is not there.
Characters(p) == IF p = "true" THEN <<"?">> ELSE <<>>

\* Blanks are skipped.  A value ends with the text, whose terminating "nul" it
\* includes, and begins a line; only "::" is a value anywhere.
Lex(in, line) ==
  LET k == SelectInSeq(in, LAMBDA p : p # "blank")
      rest == SubSeq(in, k + 1, Len(in))
      first == line /\ k = 1
      whole == first /\ rest = <<"nul">>
  IN  CASE k = 0 -> [token |-> "end", piece |-> "nul", rest |-> <<>>, bol |-> line]
        [] k # 0 /\ in[k] = "nl" -> [token |-> "EOL", piece |-> "nl", rest |-> rest, bol |-> TRUE]
        [] k # 0 /\ in[k] = "::" ->
             [token |-> "VALUE", piece |-> "::", rest |-> IF whole THEN <<>> ELSE rest, bol |-> FALSE]
        [] k # 0 /\ in[k] \in {"number", "true"} /\ whole ->
             [token |-> "VALUE", piece |-> in[k], rest |-> <<>>, bol |-> FALSE]
        [] OTHER ->
             [token |-> "SYNTAX_ERROR", piece |-> "?", rest |-> Characters(in[k]) \o rest, bol |-> FALSE]

\* make_val_value, in a new block.
make_val_value(t, n) ==
  [type |-> TypeOf[t.piece], val |-> n, text |-> <<t.piece>>, free_me |-> TRUE]

\* What the lexer leaves after the tokens ts, one or two: a block for each value.
Lexed(ts) ==
  LET values == {i \in DOMAIN ts : ts[i].token = "VALUE"}
  IN  /\ input' = Last(ts).rest /\ bol' = Last(ts).bol
      /\ made' = made + Cardinality(values)
      /\ cli_value' = IF values = {} THEN cli_value
                      ELSE make_val_value(ts[Max(values)], made')

New == (made + 1)..made'

Free(blocks) ==
  /\ live' = (live \cup New) \ blocks
  /\ misfreed' = (misfreed \/ ~(blocks \subseteq live \cup New))

-----------------------------------------------------------------------------
(* char2val.                                                               *)

Char2Val ==
  /\ at = "char2val"
  /\ input' = Append(value, "nul") /\ bol' = TRUE
  /\ val' = Single(NullVal)
  /\ at' = IF def.type \in {"TEXT", "ERROR"} THEN "text" ELSE "value"
  /\ UNCHANGED <<arguments, cli_value, memory, expand>>

\* Mutant: a type is refused only by the second type.
WrongTypeSecond(t) == def.type2 # "ERROR" /\ t # def.type2

\* A single type refuses nothing.
WrongType(t) == t # def.type /\ def.type2 # "ERROR" /\ t # def.type2

Helping == [refused |-> "help refused", accepted |-> "help accepted"]

\* The two ways a refusal is reported: expand_string of the help text, or a
\* message, before which one more token is read.
Report(t, status, freed) ==
  LET ts == IF def.help THEN <<t>> ELSE <<t, Lex(t.rest, t.bol)>>
  IN  /\ Lexed(ts)
      /\ Free(IF freed THEN {cli_value'.val} ELSE {})
      /\ at' = IF def.help THEN Helping[status] ELSE status

IsFirst == val.val = 0 /\ val.vals = <<>>

\* No text ends here without a token: its "nul" would be one.
NotAValue ==
  /\ at = "value"
  /\ LET t == Lex(input, bol) IN t.token # "VALUE" /\ Report(t, "refused", FALSE)
  /\ UNCHANGED <<arguments, val, oom, expand>>

ValueOfWrongType ==
  /\ at = "value"
  /\ LET t == Lex(input, bol)
     IN  /\ t.token = "VALUE" /\ WrongType(TypeOf[t.piece])
         /\ Report(t, IF IsFirst THEN "refused" ELSE "accepted", TRUE)
  /\ UNCHANGED <<arguments, val, oom, expand>>

TakeFirst ==
  /\ at = "value" /\ IsFirst
  /\ LET t == Lex(input, bol)
     IN  /\ t.token = "VALUE" /\ ~WrongType(TypeOf[t.piece])
         /\ input' = t.rest /\ bol' = t.bol /\ made' = made + 1
         /\ val' = Single(make_val_value(t, made'))
         /\ cli_value' = [make_val_value(t, made') EXCEPT !.free_me = FALSE]
         /\ Free({})
  /\ at' = "separator"
  /\ UNCHANGED <<arguments, oom, expand>>

\* Mutant: the list grows when it is already too late.
FullLate(n) == n % MULTI_ALLOC = 1

Full(n) == n % MULTI_ALLOC = 0

\* add_val: the list is made or grows by MULTI_ALLOC entries, in two arrays, and
\* takes the string over.
add_val(v, second) ==
  LET list == IF v.vals # <<>> THEN v
              ELSE [v EXCEPT !.vals = <<v.val>>, !.types = <<v.type>>, !.texts = <<v.text>>, !.val = 0]
      n == Len(v.vals)
      grown == IF Full(n) THEN [list EXCEPT !.room = n + MULTI_ALLOC, !.troom = n + MULTI_ALLOC]
               ELSE list
  IN  [grown EXCEPT !.vals = Append(@, second.val), !.types = Append(@, second.type),
                    !.texts = Append(@, second.text)]

\* One of the two reallocs fails: the string is dropped.
AddFails(v) ==
  /\ Full(Len(v.vals))
  /\ val' \in {v, [v EXCEPT !.room = Len(v.vals) + MULTI_ALLOC]}
  /\ oom' = TRUE

TakeNext ==
  /\ at = "value" /\ ~IsFirst /\ def.multi
  /\ LET t == Lex(input, bol)
     IN  /\ t.token = "VALUE" /\ ~WrongType(TypeOf[t.piece])
         /\ Lexed(<<t>>) /\ Free({})
  /\ \/ val' = add_val(val, cli_value') /\ UNCHANGED oom
     \/ AddFails(val)
  /\ at' = "separator"
  /\ UNCHANGED <<arguments, expand>>

\* Mutant: the value that was not expected is not freed.
UnexpectedKept ==
  /\ at = "value" /\ ~IsFirst /\ ~def.multi
  /\ LET t == Lex(input, bol)
     IN  /\ t.token = "VALUE" /\ ~WrongType(TypeOf[t.piece])
         /\ Lexed(<<t>>) /\ Free({})
  /\ at' = "separator"
  /\ UNCHANGED <<arguments, val, oom, expand>>

\* Unexpected multivalue.
Unexpected ==
  /\ at = "value" /\ ~IsFirst /\ ~def.multi
  /\ LET t == Lex(input, bol)
     IN  /\ t.token = "VALUE" /\ ~WrongType(TypeOf[t.piece])
         /\ Lexed(<<t>>) /\ Free({made'})
  /\ at' = "separator"
  /\ UNCHANGED <<arguments, val, oom, expand>>

\* After a value the text or its line ends; a value behind a badly formed one is
\* freed.
ReadSeparator ==
  /\ at = "separator"
  /\ LET t == Lex(input, bol)
         ts == IF t.token \in {"end", "EOL"} THEN <<t>> ELSE <<t, Lex(t.rest, t.bol)>>
     IN  /\ Lexed(ts)
         /\ CASE t.token = "end" -> at' = "accepted" /\ Free({})
              [] t.token = "EOL" -> at' = "value" /\ Free({})
              [] OTHER -> /\ at' = "refused"
                          /\ Free(IF Last(ts).token = "VALUE" THEN {cli_value'.val} ELSE {})
  /\ UNCHANGED <<arguments, val, oom, expand>>

-----------------------------------------------------------------------------
(* char2val_text.                                                          *)

\* One line more than there are newlines, unless one is at the end.
Linecnt ==
  LET nls == Cardinality({i \in DOMAIN value : value[i] = "nl"})
  IN  IF nls = 0 \/ Last(value) # "nl" THEN nls + 1 ELSE nls

\* The next line of the text, and what comes after it.
LineLen == SelectInSeq(input, LAMBDA p : p \in {"nl", "nul"}) - 1
Line == SubSeq(input, 1, LineLen)

OneLine ==
  /\ at = "text" /\ Linecnt = 1
  /\ made' = made + 1 /\ Free({})
  /\ val' = Single([type |-> "TEXT", val |-> made', text |-> Line, free_me |-> TRUE])
  /\ at' = "accepted"
  /\ UNCHANGED <<arguments, lexer, oom, expand>>

\* The two arrays have room for the lines, in steps of MULTI_ALLOC.
SeveralLines ==
  /\ at = "text" /\ Linecnt > 1
  /\ LET room == ((Linecnt + MULTI_ALLOC - 1) \div MULTI_ALLOC) * MULTI_ALLOC
     IN  \/ /\ at' = "lines"
            /\ val' = [val EXCEPT !.type = "TEXT", !.free_me = TRUE,
                                  !.room = room, !.troom = room]
         \/ at' = "refused" /\ val' = [val EXCEPT !.type = "TEXT", !.free_me = TRUE]
  /\ UNCHANGED <<arguments, lexer, memory, expand>>

\* The loop over the lines; a line that no newline ends is asserted to be the
\* last one.
AddLine ==
  /\ at = "lines"
  /\ made' = made + 1 /\ Free({})
  /\ val' = [val EXCEPT !.vals = Append(@, made'), !.types = Append(@, "ERROR"),
                        !.texts = Append(@, Line)]
  /\ input' = SubSeq(input, LineLen + 2, Len(input))
  /\ at' = CASE Len(val'.vals) = Linecnt -> "accepted"
             [] Len(val'.vals) # Linecnt /\ input[LineLen + 1] = "nul" -> "aborted"
             [] OTHER -> "lines"
  /\ UNCHANGED <<arguments, bol, cli_value, oom, expand>>

-----------------------------------------------------------------------------
(* expand_string under char2val and under the commands of the action.      *)

\* char2val has returned: its arguments and what the lexer has not read are gone.
Returned ==
  /\ def' = CHOOSE d \in Defs : TRUE
  /\ value' = <<>> /\ input' = <<>> /\ bol' = TRUE

\* The help text is expanded and printed, whatever expand_string returns.
ExpandHelp ==
  /\ at \in {"help refused", "help accepted"}
  /\ Call
  /\ at' = IF at = "help refused" THEN "reported" ELSE "commands"
  /\ Returned
  /\ UNCHANGED <<cli_value, val, memory>>

\* A command of the action.
ExpandCommand ==
  /\ at \in {"accepted", "commands"}
  /\ Call
  /\ at' = "commands"
  /\ Returned
  /\ UNCHANGED <<cli_value, val, memory>>

ExpandStep ==
  /\ HasRoom \/ MakeRoom \/ CopyChar \/ NotClosed \/ EmptyPath \/ GetValue
     \/ MakeRoomForValue \/ CopyValue \/ Terminate
  /\ UNCHANGED <<at, arguments, lexer, val, memory>>

\* The blocks of a value, which free_val frees.
Blocks(v) == ({v.val} \ {0}) \cup ToSet(v.vals)

\* The end of execute_list.
FreeVal ==
  /\ at \in {"accepted", "commands"} /\ pc = "idle"
  /\ at' = "done"
  /\ UNCHANGED made
  /\ IF val.free_me THEN Free(Blocks(val)) ELSE UNCHANGED <<live, misfreed>>
  /\ val' = [val EXCEPT !.free_me = FALSE]
  /\ UNCHANGED <<arguments, lexer, oom, expand>>

Over ==
  /\ at \in {"refused", "done", "aborted"} \/ (at = "reported" /\ pc = "idle") \/ pc = "exited"
  /\ UNCHANGED atVars

AtNext ==
  \/ Char2Val
  \/ NotAValue \/ ValueOfWrongType \/ TakeFirst \/ TakeNext \/ Unexpected \/ ReadSeparator
  \/ OneLine \/ SeveralLines \/ AddLine
  \/ ExpandHelp \/ ExpandCommand \/ ExpandStep
  \/ FreeVal \/ Over

AtSpec == AtInit /\ [][AtNext]_atVars

-----------------------------------------------------------------------------
(* What char2val means, without a lexer.                                   *)

\* The n-th number of a set of numbers, in their order.
Rank(S, i) == Cardinality({j \in S : j < i})
Nth(S, n) == CHOOSE i \in S : Rank(S, i) = n - 1

\* The pieces behind which a line begins: none, for the first, and newlines.
Begins == {0} \cup {i \in DOMAIN value : value[i] = "nl"}

IsEnd(b, e) ==
  /\ e = Len(value) + 1 \/ value[e] = "nl"
  /\ \A i \in b + 1..e - 1 : value[i] # "nl"

LineFrom(b) ==
  LET end == CHOOSE e \in b + 1..Len(value) + 1 : IsEnd(b, e)
  IN  SubSeq(value, b + 1, end - 1)

Lines == Cardinality(Begins)

\* The n-th line of the text.
NthLine(n) == LineFrom(Nth(Begins, n))

LineSeq == [n \in 1..Lines |-> NthLine(n)]

\* "::" with blanks.
HoldsAddress(line) ==
  \E i \in DOMAIN line : line[i] = "::" /\ \A j \in DOMAIN line \ {i} : line[j] = "blank"

\* The last line is one value and nothing else; every other is "::" with blanks.
WellFormed ==
  /\ \E p \in {"::", "number", "true"} : NthLine(Lines) = <<p>>
  /\ \A n \in 1..Lines - 1 : HoldsAddress(NthLine(n))

\* The value of a line of a well-formed text.
ValueOf(n) ==
  CHOOSE p \in {"::", "number", "true"} : \E i \in DOMAIN NthLine(n) : NthLine(n)[i] = p

Suits(t) == t = def.type \/ def.type2 \in {"ERROR", t}

\* The values of the lines whose type suits.
Suitable ==
  LET lines == {n \in 1..Lines : Suits(TypeOf[ValueOf(n)])}
  IN  [k \in 1..Cardinality(lines) |-> <<ValueOf(Nth(lines, k))>>]

\* The lines of a text; an empty one at its end does not count.
TextLines == IF Lines > 1 /\ NthLine(Lines) = <<>> THEN Front(LineSeq) ELSE LineSeq

\* A value as a sequence of texts.
Held == IF val.vals = <<>> THEN <<val.text>> ELSE val.texts

Textual == def.type \in {"TEXT", "ERROR"}

\* char2val accepts what its type allows and hands over all of it: of a node of
\* text every line, of a multi node of another type the values of the lines that
\* have one of its types, of a single node the first; it refuses only what is
\* not well-formed or begins with a value of a wrong type (with one type no
\* value is of a wrong type), or when memory is short.
AcceptsMeaning ==
  /\ at \in {"accepted", "help accepted"} =>
       /\ ~Textual => WellFormed
       /\ ~oom => Held = IF Textual THEN TextLines
                         ELSE IF def.multi THEN Suitable ELSE <<Suitable[1]>>
  /\ at \in {"refused", "help refused"} /\ ~Textual =>
       ~WellFormed \/ ~Suits(TypeOf[ValueOf(1)])
  /\ at # "aborted"

\* No string is freed twice, none that the action may still use is freed, and a
\* list stays in the room of both its arrays, although the lexer's value and
\* the list share strings.
MemorySafe ==
  /\ ~misfreed
  /\ at \in {"separator", "value", "lines", "help accepted", "accepted", "commands"} =>
       Blocks(val) \subseteq live
  /\ Len(val.vals) <= val.room /\ Len(val.vals) <= val.troom

\* Beside the strings of the value at most one other is allocated.
AtMostOneMore == \E b \in 0..made : live \subseteq Blocks(val) \cup {b}

\* What an action leaves allocated when it is over, unless memory was short: no
\* string, if it came to free_val.  execute_list does not free the value of a
\* text that is refused after a first value was taken: its strings are left,
\* each of them allocated once, and with them at most one token read for the
\* message (char2val_notext); after the help text none but the value's.
StringsAccountedFor ==
  /\ at = "done" /\ ~oom => live = {}
  /\ at = "reported" /\ ~oom => live = Blocks(val)
  /\ at = "refused" /\ ~oom => Blocks(val) \subseteq live /\ AtMostOneMore
=============================================================================
