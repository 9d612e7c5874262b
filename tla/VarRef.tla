-------------------------------- MODULE VarRef --------------------------------
(***************************************************************************)
(* References in template actions, $VAR(...): cstore_get_var_ref and       *)
(* cstore_set_var_ref (src/src/cliexec/cstore-c.cpp) and the class VarRef  *)
(* (src/src/cliexec/cstore-varref.cpp).                                    *)
(*                                                                         *)
(* process_ref is a recursion that resolves a reference one component at a *)
(* time; todo holds its pending calls in the order they will be made.  A   *)
(* configuration is the set of its deepest paths; a value is a component.  *)
(* A string of several values joined by blanks is a sequence of values.    *)
(***************************************************************************)
EXTENDS Naturals, Sequences, SequencesExt, FiniteSets

CONSTANTS
  Schema,     \* the kind of every template, by its path with "*" for a tag value
  Configs,    \* the configurations a tree may hold at first
  Starts,     \* the nodes whose actions are run, as paths
  Uses,       \* the references an action may use, as sequences of components
  Values,     \* the values an assignment may give
  MaxCalls    \* bound on the references resolved in one run

Refs == UNION Uses

Trees == {"RUNNING", "CANDIDATE"}

-----------------------------------------------------------------------------
(* What configd answers (external).                                        *)

Matches(s, path) ==
  Len(s) = Len(path) /\ \A i \in DOMAIN s : s[i] \in {"*", path[i]}

NodeKinds(path) == {Schema[s] : s \in {s \in DOMAIN Schema : Matches(s, path)}}

ValueKinds(path) == IF path = <<>> THEN {} ELSE NodeKinds(Front(path)) \ {"container"}

\* Ctemplate::get and the questions a Ctemplate answers.
Got(path) == NodeKinds(path) # {} \/ ValueKinds(path) # {}
IsValue(path) == NodeKinds(path) = {} /\ ValueKinds(path) # {}
Is(kind, path) == kind \in NodeKinds(path) \cup ValueKinds(path)
IsTypeless(path) == Is("container", path)
IsTagNode(path) == "tag" \in NodeKinds(path)
IsTagValue(path) == IsValue(path) /\ Is("tag", path)
IsLeafNode(path) == NodeKinds(path) \cap {"leaf", "multi"} # {}

\* configd_node_exists and configd_node_get, in one tree.
Exists(tree, path) == \E p \in tree : IsPrefix(path, p)
Children(tree, path) == {p[Len(path) + 1] : p \in {p \in tree : IsStrictPrefix(path, p)}}

\* configd_set of a leaf.
SetLeaf(tree, leaf, value) ==
  {p \in tree : ~IsPrefix(leaf, p)} \cup {Append(leaf, value)}

-----------------------------------------------------------------------------
\* The templates are a tree: under a tag node everything is below its value,
\* under a container below the container itself.
ASSUME SchemaAssumption ==
  /\ Schema \in [DOMAIN Schema -> {"container", "tag", "leaf", "multi"}]
  /\ DOMAIN Schema \subseteq Seq(STRING) \ {<<>>}
  /\ \A s \in DOMAIN Schema : \A i \in DOMAIN s :
       /\ s[i] = "*" => i > 1 /\ i < Len(s) /\ s[i - 1] # "*"
       /\ s[i] # "*" /\ i < Len(s) =>
            /\ SubSeq(s, 1, i) \in DOMAIN Schema
            /\ Schema[SubSeq(s, 1, i)] = IF s[i + 1] = "*" THEN "tag" ELSE "container"

\* Actions are run for the values of nodes, and for nodes that have none.
ASSUME StartsAssumption ==
  \A p \in Starts : /\ p \in Seq(STRING) \ {<<>>}
                    /\ IsValue(p) \/ NodeKinds(p) = {"container"}

\* The slashes between components are gone, a leading one is kept.
ASSUME RefsAssumption ==
  \A r \in Refs : r \in Seq(STRING) \ {<<>>} /\ \A i \in 2..Len(r) : r[i] # "/"

ASSUME ConfigsAssumption == \A c \in Configs : IsFiniteSet(c) /\ c \subseteq Seq(STRING)

ASSUME ValuesAssumption == Values \subseteq STRING

-----------------------------------------------------------------------------
VARIABLES
  ref_pc,     \* "idle", or "get" or "set" while a reference is resolved
  config,     \* the trees of configd
  start,      \* the node whose action is run
  uses,       \* the references it uses
  ref,        \* the one that is resolved, or was the last time
  cfg_path,   \* the global path that references are relative to
  active,     \* _active: the tree read is RUNNING
  todo,       \* the pending calls of process_ref
  paths,      \* _paths
  ismulti,    \* what process_ref reports to the caller
  answer,     \* what the last call gave, and the node an assignment has set
  wrote,      \* ghost: the values of the nodes that assignments have set
  failed,     \* what the request of this call that failed asked for, "" if none did
  calls       \* references resolved so far

args == <<start, uses, ref>>
state == <<config, cfg_path, active, todo, paths, ismulti, answer, wrote, failed, calls>>
ref_vars == <<ref_pc, args, state>>

NoAnswer == [kind |-> "none"]
NothingWritten == <<>>

at_string == Last(start)

\* The path with which VarRef was constructed.
orig == IF Head(ref) = "/" THEN <<>> ELSE cfg_path

Tree == config[IF active THEN "RUNNING" ELSE "CANDIDATE"]

RefInit ==
  /\ ref_pc = "idle"
  /\ config \in [Trees -> Configs]
  /\ start \in Starts /\ uses \in Uses /\ ref \in uses
  /\ \E tree \in Trees : Exists(config[tree], start)
  /\ cfg_path = start
  /\ active = FALSE
  /\ todo = <<>> /\ paths = <<>> /\ ismulti = FALSE
  /\ answer = NoAnswer /\ wrote = NothingWritten /\ failed = ""
  /\ calls = 0

-----------------------------------------------------------------------------
(* The two functions that cli_new.c calls.                                 *)

Frame(rest, path, typed) == [rest |-> rest, path |-> path, typed |-> typed, leaf |-> FALSE]

\* The constructor: a leading slash makes the reference absolute.
Construct(r, base) ==
  /\ ref' = r
  /\ todo' = <<IF Head(r) = "/" THEN Frame(Tail(r), <<>>, FALSE) ELSE Frame(r, base, FALSE)>>
  /\ paths' = <<>> /\ ismulti' = FALSE

\* One call after the other, for any of the references of the action.
Call(r) ==
  /\ ref_pc = "idle" /\ calls < MaxCalls /\ calls' = calls + 1
  /\ r \in uses
  /\ failed' = ""
  /\ UNCHANGED <<start, uses, config, wrote>>

\* The value of the node is taken off the path; a node without one stays.
cstore_get_var_ref(r, from_active) ==
  /\ Call(r)
  /\ ref_pc' = "get"
  /\ cfg_path' = IF IsValue(cfg_path) THEN Front(cfg_path) ELSE cfg_path
  /\ Construct(r, cfg_path')
  /\ active' = from_active
  /\ answer' = NoAnswer

\* The template cannot be had: nothing is touched.
GetRefused(r) ==
  /\ Call(r)
  /\ answer' = [kind |-> "refused"]
  /\ UNCHANGED <<ref_pc, ref, cfg_path, active, todo, paths, ismulti>>

\* "We can assume that the global cfg_path has the value at the end."  The last
\* component is taken off whatever it is.
cstore_set_var_ref(r) ==
  /\ Call(r)
  /\ ref_pc' = "set"
  /\ cfg_path' = Front(cfg_path)
  /\ Construct(r, cfg_path')
  /\ active' = FALSE
  /\ answer' = NoAnswer

\* A command of the template changes the candidate between two references.
Edit ==
  /\ ref_pc = "idle" /\ calls \in 1..MaxCalls-1
  /\ \E c \in Configs : config' = [config EXCEPT !["CANDIDATE"] = c]
  /\ wrote' = NothingWritten
  /\ answer' = NoAnswer
  /\ UNCHANGED <<ref_pc, args, cfg_path, active, todo, paths, ismulti, failed, calls>>

-----------------------------------------------------------------------------
(* process_ref, by the component at the head of the reference.             *)

Pending == Head(todo)
Path == Pending.path

\* The call at the head of todo makes these calls in its place.
Becomes(frames) == todo' = frames \o Tail(todo)

Component(comps) ==
  /\ ref_pc # "idle" /\ todo # <<>>
  /\ ~Pending.leaf /\ Pending.rest # <<>>
  /\ Head(Pending.rest) \in comps
  /\ UNCHANGED <<ref_pc, args, config, cfg_path, active, answer, wrote, calls>>

Resolving(comps) == Component(comps) /\ UNCHANGED failed

Rest == Tail(Pending.rest)

Invalid == Becomes(<<>>)

HandleLeaf == [Pending EXCEPT !.leaf = TRUE]

\* An entry of _paths: the node, without the value it ends in, and the value.
Found(node, words, typed) ==
  paths' = Append(paths, [node |-> node, words |-> words, typed |-> typed])

\* All components are resolved; the last one stands for the value.  getValue
\* passes over the empty path.
PathDone ==
  /\ ref_pc # "idle" /\ todo # <<>>
  /\ ~Pending.leaf /\ Pending.rest = <<>>
  /\ IF Path = <<>> THEN UNCHANGED paths ELSE Found(Front(Path), <<Last(Path)>>, Pending.typed)
  /\ Invalid
  /\ UNCHANGED <<ref_pc, args, config, cfg_path, active, ismulti, answer, wrote, failed, calls>>

\* "within the original path. @ translates to the path comp."
RefAt ==
  /\ Resolving({"@"})
  /\ UNCHANGED <<paths, ismulti>>
  /\ CASE ~Got(Path) -> Invalid
       [] IsTypeless(Path) -> Becomes(<<Frame(Rest, Path, FALSE)>>)
       [] Got(Path) /\ ~IsTypeless(Path) /\ Path = orig ->
            Becomes(<<Frame(Rest, Append(Path, at_string), TRUE)>>)
       [] Got(Path) /\ ~IsTypeless(Path) /\ Path # orig /\ ~IsLeafNode(Path) ->
            IF Len(Path) < Len(orig)
              THEN Becomes(<<Frame(Rest, Append(Path, orig[Len(Path) + 1]), TRUE)>>)
              ELSE Invalid
       [] OTHER -> Becomes(<<HandleLeaf>>)

RefDot ==
  /\ Resolving({"."})
  /\ Becomes(<<Frame(Rest, Path, FALSE)>>)
  /\ UNCHANGED <<paths, ismulti>>

\* Mutant: the value of a tag node counts as a level.
ParentOneLevel(path) == Front(path)

\* From a child of a tag value to the tag node.
Parent(path) ==
  IF IsTagValue(Front(path)) THEN Front(Front(path)) ELSE Front(path)

RefDotDot ==
  /\ Resolving({".."})
  /\ IF ~Got(Path) \/ Path = <<>> \/ (Len(Path) > 1 /\ ~Got(Front(Path)))
       THEN Invalid
       ELSE Becomes(<<Frame(Rest, Parent(Path), FALSE)>>)
  /\ UNCHANGED <<paths, ismulti>>

\* One call for every child, in the order configd lists them.
Each(path) ==
  LET names == SetToSeq(Children(Tree, path))
  IN  [i \in DOMAIN names |-> Frame(Rest, Append(path, names[i]), ~IsTypeless(path))]

\* A node without a type is not done when its children are: the code goes on
\* to handle it as a leaf, unless it has no child.
RefAtAt ==
  /\ Resolving({"@@"})
  /\ UNCHANGED paths
  /\ CASE ~Got(Path) -> Invalid /\ UNCHANGED ismulti
       [] IsTypeless(Path) ->
            /\ ismulti' = TRUE
            /\ Becomes(IF Each(Path) = <<>> THEN <<>> ELSE Append(Each(Path), HandleLeaf))
       [] IsValue(Path) -> Invalid /\ UNCHANGED ismulti
       [] IsTagNode(Path) -> Becomes(Each(Path)) /\ ismulti' = TRUE
       [] OTHER -> Becomes(<<HandleLeaf>>) /\ UNCHANGED ismulti

\* Mutant: it is the at string wherever the tag is.
TagValueAtString(path) == at_string

\* The component of the original path that stands for the tag value.
TagValue(path) == IF Len(path) = Len(orig) THEN at_string ELSE orig[Len(path) + 1]

RefText ==
  /\ Resolving({Head(Pending.rest)} \ {"@", "@@", ".", ".."})
  /\ UNCHANGED <<paths, ismulti>>
  /\ IF ~IsTagNode(Path) THEN Becomes(<<Frame(Rest, Append(Path, Head(Pending.rest)), FALSE)>>)
     ELSE IF Len(Path) > Len(orig) THEN Invalid
     ELSE Becomes(<<Frame(Rest, Append(Append(Path, TagValue(Path)), Head(Pending.rest)), FALSE)>>)

\* A request fails; at most one does in a call.
Fails(what) == failed = "" /\ failed' = what

\* Without its template a node cannot be asked whether it is a tag node: text
\* goes down without a tag value, anything else is an invalid reference.
TemplateFails ==
  /\ Component({Head(Pending.rest)} \ {"."})
  /\ Fails("template")
  /\ IF Head(Pending.rest) \in {"@", "@@", ".."} THEN Invalid
       ELSE Becomes(<<Frame(Rest, Append(Path, Head(Pending.rest)), FALSE)>>)
  /\ UNCHANGED <<paths, ismulti>>

\* The list of children that @@ asks for: none is the same as no answer.
ChildrenFail ==
  /\ Component({"@@"})
  /\ IsTypeless(Path) \/ IsTagNode(Path)
  /\ Fails("values")
  /\ Invalid /\ ismulti' = TRUE
  /\ UNCHANGED paths

ValuesOf(path) == Children(Tree, path)

\* handle_leaf: the values of a leaf, joined; the rest is not looked at.
\* A request that fails finds no values.
LeafValues ==
  /\ ref_pc # "idle" /\ todo # <<>> /\ Pending.leaf
  /\ \E words \in {SetToSeq(ValuesOf(Path)), <<>>} :
       /\ IF words = SetToSeq(ValuesOf(Path)) THEN UNCHANGED failed ELSE Fails("values")
       /\ IF Is("multi", Path)
            THEN /\ ismulti' = TRUE
                 /\ IF words = <<>> THEN UNCHANGED paths ELSE Found(Path, words, TRUE)
            ELSE /\ Found(Path, words, words # <<>> /\ ~IsTypeless(Path))
                 /\ UNCHANGED ismulti
  /\ Invalid
  /\ UNCHANGED <<ref_pc, args, config, cfg_path, active, answer, wrote, calls>>

-----------------------------------------------------------------------------
(* The results.                                                            *)

\* A path without a type counts only if it exists: "" stands for it otherwise.
\* Names joined by blanks are no path.
Words(p, answered) ==
  IF p.typed \/ (answered /\ Len(p.words) = 1 /\ Exists(Tree, p.node \o p.words))
  THEN p.words ELSE <<>>

\* The call ends, and the object with it.
Resolved(what) == ref_pc = what /\ todo = <<>> /\ ref_pc' = "idle"
Destroyed == paths' = <<>> /\ ismulti' = FALSE

\* getValue, and the path put back.
GetReturns ==
  /\ Resolved("get")
  /\ cfg_path' = start
  /\ \E down \in SUBSET {i \in DOMAIN paths : ~paths[i].typed} :
       /\ IF down = {} THEN UNCHANGED failed ELSE Cardinality(down) = 1 /\ Fails("values")
       /\ answer' = [kind |-> IF paths = <<>> THEN "nothing" ELSE "value", multi |-> ismulti,
                     words |-> FlattenSeq([i \in DOMAIN paths |-> Words(paths[i], i \notin down)])]
  /\ Destroyed
  /\ UNCHANGED <<args, config, active, todo, wrote, calls>>

\* getSetPath and the check that the node is a leaf.
Settable == Len(paths) = 1 /\ "leaf" \in NodeKinds(paths[1].node)

\* Mutant: a failure returns before the path is put back.
SetFailsEarly ==
  /\ Resolved("set")
  /\ Destroyed
  /\ UNCHANGED <<args, config, cfg_path, active, todo, answer, wrote, failed, calls>>

\* The node is not fit, or configd refuses the value.
SetFails ==
  /\ Resolved("set")
  /\ cfg_path' = start
  /\ Destroyed
  /\ UNCHANGED <<args, config, active, todo, answer, wrote, failed, calls>>

Wrote(node, v) == [n \in {node} \cup DOMAIN wrote |-> IF n = node THEN v ELSE wrote[n]]

\* The answer to the request may be lost after configd has set the value.
SetReturns ==
  LET node == paths[1].node IN
  /\ Resolved("set") /\ Settable
  /\ cfg_path' = start
  /\ \E v \in Values :
       /\ config' = [config EXCEPT !["CANDIDATE"] = SetLeaf(@, node, v)]
       /\ wrote' \in {Wrote(node, v), Restrict(wrote, DOMAIN wrote \ {node})}
  /\ answer' = [kind |-> "set", node |-> node]
  /\ Destroyed
  /\ UNCHANGED <<args, active, todo, failed, calls>>

-----------------------------------------------------------------------------
RefDone == ref_pc = "idle" /\ calls = MaxCalls /\ UNCHANGED ref_vars

RefNext ==
  \/ \E r \in uses :
       \/ \E from_active \in BOOLEAN : cstore_get_var_ref(r, from_active)
       \/ GetRefused(r) \/ cstore_set_var_ref(r)
  \/ Edit
  \/ PathDone \/ RefAt \/ RefDot \/ RefDotDot \/ RefAtAt \/ RefText \/ LeafValues
  \/ TemplateFails \/ ChildrenFail
  \/ GetReturns \/ SetFails \/ SetReturns
  \/ RefDone

RefSpec == RefInit /\ [][RefNext]_ref_vars

\* However a reference ends, and whichever of its requests failed, the global
\* path is the node of the action again, so that the next reference does not
\* start elsewhere (cstore_get_var_ref, cstore_set_var_ref).
PathPutBack == ref_pc = "idle" => cfg_path = start
=============================================================================
