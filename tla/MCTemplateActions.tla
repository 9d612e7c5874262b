-------------------------- MODULE MCTemplateActions --------------------------
(***************************************************************************)
(* Syntax trees for the run of TemplateActions.                            *)
(***************************************************************************)
EXTENDS TemplateActions

\* The expressions of e, and those that one operator makes of them.
Over(e) ==
  e \cup {HELP(a) : a \in e} \cup {NOT(a) : a \in e}
    \cup {AND(a, b) : a, b \in e} \cup {OR(a, b) : a, b \in e}

List1(a, aux) == append(EmptyList, a, aux)
List2(a, b, aux) == append(List1(a, FALSE), b, aux)

AllLeaves == {EXEC(1), EXEC(2), ASSIGN(1, "VAR_OP"), ASSIGN(1, "B_QUOTE_OP"),
              ASSIGN(1, "VAL_LIST"), PATTERN(1), COND(1, "VAR_OP", "VAL_OP"),
              COND(1, "VAR_OP", "B_QUOTE_OP"), COND(1, "B_QUOTE_OP", "B_QUOTE_OP")}

\* Deep expressions, expressions over every leaf, and lists of several.
MCScripts ==
  {List1(a, FALSE) : a \in Over(Over({EXEC(1), ASSIGN(1, "VAL_LIST")}))}
  \cup {List1(a, TRUE) : a \in Over(AllLeaves)}
  \cup {List2(a, b, aux) : a, b \in Over({EXEC(1), EXEC(2)}), aux \in BOOLEAN}
  \cup {append(List2(EXEC(1), a, TRUE), EXEC(2), FALSE) : a \in Over({EXEC(2), PATTERN(1)})}

MCExps == Over(AllLeaves) \cup Over(Over({EXEC(1), ASSIGN(1, "VAL_LIST")}))

Tails(lists) == {RestOf(s) : s \in {s \in lists : Tail(s.entries) # <<>>}}

MCNodes == MCExps \cup MCScripts \cup Tails(MCScripts) \cup Tails(Tails(MCScripts))

\* The program ends: a walk comes back from every tree.
Ends == <>(pc = "exit")
=============================================================================
