---------------------------- MODULE MCShellApi ----------------------------
(* A tree with a tag node at the top and one further down. *)
EXTENDS ShellApi

MCNames == {"system", "if", "10/8", "opt", "nat", "v"}
MCSpecial == {"10/8"}
MCKind == [p \in {<<"system">>, <<"system", "if">>, <<"system", "if", "10/8">>,
                  <<"system", "if", "10/8", "opt">>, <<"nat">>, <<"nat", "v">>,
                  <<"opt">>, <<"opt", "v">>} |->
  CASE p \in {<<"system">>, <<"system", "if", "10/8", "opt">>} -> "typeless"
    [] p \in {<<"system", "if">>, <<"nat">>} -> "tag"
    [] p = <<"opt">> -> "leaf"
    [] p = <<"opt", "v">> -> "leafvalue"
    [] OTHER -> "value"]
MCRunning == Prefixes(Typed(<<"system">>))
MCFileNodes == Prefixes(Typed(<<"nat", "v">>))
MCOtherPaths == {<<"system", "if">>}
MCArgLists == {<<>>, <<"system">>, <<"opt">>, <<"opt", "v">>, <<"10/8">>, <<"if", "10/8">>, <<"nat">>, <<"nat", "v">>}
=============================================================================
