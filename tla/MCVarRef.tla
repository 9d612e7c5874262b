------------------------------- MODULE MCVarRef -------------------------------
(***************************************************************************)
(* A schema with every kind of node, and references from each of them.     *)
(***************************************************************************)
EXTENDS RefMeaning

MCSchema ==
  << "c" >> :> "container" @@ << "c", "x" >> :> "leaf" @@ << "c", "m" >> :> "multi"
  @@ << "c", "n" >> :> "container" @@ << "c", "n", "x" >> :> "leaf"
  @@ << "t" >> :> "tag" @@ << "t", "*", "l" >> :> "leaf" @@ << "t", "*", "m" >> :> "multi"
  @@ << "u" >> :> "tag" @@ << "u", "*", "l" >> :> "leaf"

\* Nothing, one value everywhere, and several.
MCConfigs ==
  { {},
    {<<"c", "x", "v1">>, <<"c", "m", "v1">>, <<"t", "v1", "l", "v1">>},
    {<<"c", "x", "v2">>, <<"c", "m", "v1">>, <<"c", "m", "v2">>,
     <<"c", "n", "x", "v1">>, <<"t", "v1", "l", "v2">>, <<"t", "v2", "m", "v1">>,
     <<"t", "v2", "m", "v2">>, <<"u", "v1", "l", "v1">>} }

MCStarts ==
  {<<"c">>, <<"c", "n">>, <<"c", "x", "v1">>, <<"c", "m", "v2">>, <<"t", "v1">>,
   <<"t", "v1", "l", "v1">>, <<"t", "v2", "m", "v1">>}

Names == {"c", "n", "x", "m", "t", "l", "u"}
Comps == Names \cup {"@", "@@", ".", ".."}

\* Every reference of up to two components, these after going up once or
\* twice, and absolute ones.
Down == Names \cup {"@", "@@"}
MCRefs ==
  UNION {[1..n -> Comps] : n \in 1..2}
  \cup {<<"..">> \o r : r \in [1..2 -> Comps \ {"n", "."}]}
  \cup {<<"..", "..", a, b, c>> : a \in {"c", "t"}, b \in {"c", "t", "l", "@", "@@"},
                                c \in {"l", "@", "@@"}}
  \cup {<<"/">> \o r : r \in [1..2 -> Down]}
  \cup {<<"/", a, b, c>> : a \in {"c", "t"}, b \in Down, c \in {"@", "@@"}}

\* References to one node on different ways, from the nodes around it, to its
\* neighbours, and from a container to what is above it.
Together ==
  { {<<"@">>, <<"..", "x", "@@">>, <<"/", "c", "x", "@">>},
    {<<"x", "@">>, <<"..", "x", "@@">>, <<"/", "c", "x", "@">>},
    {<<"..", "x", "@">>, <<"/", "c", "x", "@@">>, <<"..", "@@">>},
    {<<"..", "l", "@@">>, <<"l", "@">>, <<"..", "..", "c", "x", "@">>},
    {<<"..", "..", "t", "l", "@">>, <<"..", "l", "@">>, <<"t", "@", "l", "@">>} }

\* Each alone, or several by one action.
MCUses == {{r} : r \in MCRefs} \cup Together

MCValues == {"v1", "v2"}
===============================================================================
