------------------------------ MODULE MCAtValue ------------------------------
(***************************************************************************)
(* Types and texts for the run of AtValue: up to three lines, each of at   *)
(* most two pieces.                                                        *)
(***************************************************************************)
EXTENDS AtValue

MCDefs ==
  [type : {"INT", "IPV6"}, type2 : {"ERROR", "INT", "BOOL"}, multi : BOOLEAN, help : BOOLEAN]
  \cup [type : {"TEXT", "ERROR"}, type2 : {"ERROR"}, multi : {FALSE}, help : {FALSE}]

SomeLines ==
  {<<>>, <<"::">>, <<"number">>, <<"true">>, <<"?">>, <<"::", "::">>, <<"blank", "::">>,
   <<"::", "blank">>}

Joined(ls) == FoldLeft(LAMBDA text, l : text \o <<"nl">> \o l, ls[1], Tail(ls))

MCTexts == {Joined(ls) : ls \in UNION {[1..n -> SomeLines] : n \in 1..3}}
=============================================================================
