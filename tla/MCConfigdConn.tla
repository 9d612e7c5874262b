--------------------------- MODULE MCConfigdConn ---------------------------
(***************************************************************************)
(* Reply sets for the runs of ConfigdConn.                                 *)
(***************************************************************************)
EXTENDS ConfigdConn

Body(r, e, l) == [result |-> r, error |-> e, list |-> l]

Listed(entries) == [form |-> "array", entries |-> entries]
Malformed == [form |-> "malformed", entries |-> <<>>]

Entry(message, info) == [object |-> TRUE, message |-> message, info |-> info]
NoObject == [object |-> FALSE, message |-> FALSE, info |-> "none"]

\* Every entry alone; two, one of which lacks its message; two or three that
\* break off somewhere or nowhere.
Lists ==
  [1..1 -> {Entry(m, i) : m \in BOOLEAN, i \in {"none", "map", "bad"}} \cup {NoObject}]
  \cup {<<Entry(TRUE, "none"), Entry(FALSE, "none")>>}
  \cup UNION {[1..len -> {Entry(TRUE, "map"), Entry(TRUE, "bad"), NoObject}] : len \in 2..3}

\* One body for each way through the extractors and the getters' switch.
EveryForm ==
  {Body(r, "null", NoList) : r \in {"true", "false", "integer", "string", "array",
     "array_bad", "object", "object_bad", "real"}}
  \cup {Body("null", e, NoList) : e \in {"string", "other"}}
  \cup {Body("null", "null", Listed(l)) : l \in Lists}
  \cup {Body("null", "null", Malformed), NoBody, Body("true", "null", Malformed)}

\* Enough to tell an answer from a failure.
FewForms == {Body("true", "null", NoList), Body("null", "string", NoList)}
=============================================================================
