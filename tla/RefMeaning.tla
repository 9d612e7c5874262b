------------------------------ MODULE RefMeaning ------------------------------
(***************************************************************************)
(* What a reference of VarRef means: the node of the schema that it names, *)
(* seen from the node whose action is run.  Below, st is the path of that  *)
(* node and r the reference.                                               *)
(***************************************************************************)
EXTENDS VarRef

-----------------------------------------------------------------------------
(* References as paths of the schema.                                      *)

\* The path in the schema of a node.
SchemaPath(path) == CHOOSE s \in DOMAIN Schema : Matches(s, path)

\* The node of a node or of a value.
NodeOf(path) == IF IsValue(path) THEN Front(path) ELSE path

KindOf(s) == IF s \in DOMAIN Schema THEN Schema[s] ELSE "unknown"

\* No node has the path <<"*">>.
SchemaParent(s) ==
  IF s = <<>> THEN <<"*">>
  ELSE IF Len(s) > 1 /\ s[Len(s) - 1] = "*" THEN Front(Front(s)) ELSE Front(s)

\* One step of a reference in the schema.
Follow(s, comp) ==
  CASE comp \in {".", "/"} -> s
    [] comp = ".." -> SchemaParent(s)
    [] OTHER -> s \o (IF KindOf(s) = "tag" THEN <<"*">> ELSE <<>>) \o <<comp>>

Absolute(r) == Head(r) = "/"

Steps(r) == IF Last(r) \in {"@", "@@"} THEN Front(r) ELSE r

\* Every node on the way, from the node of the action on.
Way(st, r) ==
  LET way[i \in 0..Len(Steps(r))] ==
        IF i = 0 THEN IF Absolute(r) THEN <<>> ELSE SchemaPath(NodeOf(st))
        ELSE Follow(way[i - 1], Steps(r)[i])
  IN  way

Named(st, r) == Way(st, r)[Len(Steps(r))]

\* A reference to a node the schema has, with @ or @@ only at its end, on a
\* way that leads nowhere else.
Regular(st, r) ==
  /\ \A i \in DOMAIN Steps(r) : Steps(r)[i] \notin {"@", "@@"}
  /\ \A i \in 0..Len(Steps(r)) : Way(st, r)[i] \in DOMAIN Schema \cup {<<>>}
  /\ Named(st, r) # <<>>

\* The values of tag nodes are those of the node of the action: the tag is on
\* its path.
OnStartPath(st, r, s, i) ==
  ~Absolute(r) /\ i <= Len(st) /\ Matches(SubSeq(s, 1, i), SubSeq(st, 1, i))

InScope(st, r) ==
  \A j \in 0..Len(Steps(r)) : LET s == Way(st, r)[j] IN
    \A i \in DOMAIN s : s[i] = "*" => OnStartPath(st, r, s, i)

\* A node of the schema in the configuration, with the values of the tags.
NodeAt(st, s) == [i \in DOMAIN s |-> IF s[i] = "*" THEN st[i] ELSE s[i]]

NamedNode(st, r) == NodeAt(st, Named(st, r))

\* The value of the node whose action is run is the one it is run for.
Self(st, r) == ~Absolute(r) /\ Append(NamedNode(st, r), Last(st)) = st

\* The kinds of values a reference can stand for: the node itself, what the
\* action is run for, or the values that the node has.
AsksNode(st, r) ==
  Last(r) \notin {"@", "@@"} \/ (Last(r) = "@" /\ KindOf(Named(st, r)) = "container")

AsksStart(st, r) ==
  /\ ~AsksNode(st, r)
  /\ Last(r) = "@" /\ (Self(st, r) \/ KindOf(Named(st, r)) = "tag")

AsksValues(st, r) == ~AsksNode(st, r) /\ ~AsksStart(st, r)

\* The values a reference stands for in a tree.
StandsFor(st, r, tree) ==
  CASE AsksNode(st, r) ->
         IF Exists(tree, NamedNode(st, r)) THEN {Last(NamedNode(st, r))} ELSE {}
    [] AsksStart(st, r) -> {st[Len(Named(st, r)) + 1]}
    [] OTHER -> Children(tree, NamedNode(st, r))

\* Whether StandsFor gives the reference a meaning.
Meaningful(st, r) ==
  /\ Regular(st, r) /\ InScope(st, r)
  /\ LET s == Named(st, r) IN
       /\ Last(r) = "@" /\ KindOf(s) = "tag" =>
            OnStartPath(st, r, Append(s, "*"), Len(s) + 1)
       /\ Last(r) = "@@" => KindOf(s) # "container"

-----------------------------------------------------------------------------
(* Correctness.                                                            *)

\* A reference to a node of the schema gives the values of that node, each of
\* them once, whatever way leads to it, in either tree and after any history
\* of assignments and other references: the tags on the path of the node
\* whose action is run keep their values, .. passes over a tag value, and @@
\* finds every value (process_ref, getValue).  A request for values that
\* failed hides values and gives none that the node does not have; after a
\* failed request for a template the code walks on, and nothing is said.
GivesMeaning ==
  /\ ref_pc = "idle" /\ answer.kind \in {"value", "nothing"}
  /\ Meaningful(start, ref) /\ failed # "template"
  => LET values == StandsFor(start, ref, Tree) IN
       /\ ToSet(answer.words) \subseteq values
       /\ Len(answer.words) <= Cardinality(values)
       /\ failed = "" => ToSet(answer.words) = values

\* An assignment sets the node its reference names, where its path is that of
\* a value or the reference is absolute, and what it has set is what any other
\* reference to the values of that node reads from the candidate later, or it
\* reads nothing if a request failed: other references and other assignments in
\* between, wherever they lead, change nothing about it, and neither does a
\* failure of theirs.
WriteThenRead ==
  ref_pc = "idle" /\ answer.kind # "none" /\ Meaningful(start, ref) /\ failed # "template" =>
    /\ answer.kind = "set" /\ (IsValue(start) \/ Absolute(ref))
         => answer.node = NamedNode(start, ref)
    /\ /\ answer.kind \in {"value", "nothing"} /\ ~active
       /\ AsksValues(start, ref) /\ NamedNode(start, ref) \in DOMAIN wrote
       => \/ answer.words = <<wrote[NamedNode(start, ref)]>>
          \/ failed # "" /\ answer.words = <<>>
===============================================================================
