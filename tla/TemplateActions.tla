--------------------------- MODULE TemplateActions ---------------------------
(***************************************************************************)
(* cliexec and cliexpr, which configd runs for an action of a template     *)
(* (src/src/cliexec/cliexec.cpp), and the walk over the action's syntax    *)
(* tree: execute_list and check_syn_func (src/src/cliexec/cli_new.c).      *)
(*                                                                         *)
(* stack holds the calls of check_syn_func that wait for a result, the     *)
(* innermost first; a call in tail position replaces its caller.  What the *)
(* leaves do is detailed in SystemOut, TemplateCompare and ExpandString:   *)
(* here a leaf has an outcome and leaves an event in log.                  *)
(***************************************************************************)
EXTENDS Naturals, Sequences

CONSTANTS
  Scripts,  \* the lists of actions that a template may hold: LIST_OP nodes
  Nodes     \* these and the nodes they are made of

-----------------------------------------------------------------------------
(* Syntax trees, as the rules of cli_parse.y build them.                   *)

\* append: the entries of a list, each with the aux mark of a commit: entry.
append(list, exp, aux) ==
  [list EXCEPT !.entries = Append(@, [exp |-> exp, aux |-> aux])]

EmptyList == [op |-> "LIST_OP", entries |-> <<>>]

Operands == {"VAR_OP", "VAL_OP", "VAL_LIST", "B_QUOTE_OP"}

\* The leaves; name tells two commands, references or comparisons apart.
EXEC(name) == [op |-> "EXEC_OP", name |-> name]
PATTERN(name) == [op |-> "PATTERN_OP", name |-> name]
ASSIGN(name, right) == [op |-> "ASSIGN_OP", name |-> name, right |-> right]
COND(name, left, right) == [op |-> "COND_OP", name |-> name, left |-> left, right |-> right]

HELP(left) == [op |-> "HELP_OP", left |-> left]
NOT(left) == [op |-> "NOT_OP", left |-> left]
AND(left, right) == [op |-> "AND_OP", left |-> left, right |-> right]
OR(left, right) == [op |-> "OR_OP", left |-> left, right |-> right]

\* The node evaluated first, and the list behind the first entry.
First(t) == IF t.op = "LIST_OP" THEN Head(t.entries).exp ELSE t.left
RestOf(t) == [op |-> "LIST_OP", entries |-> Tail(t.entries)]

Unary == {"HELP_OP", "NOT_OP"}
Binary == {"AND_OP", "OR_OP"}

ASSUME NodesAssumption ==
  /\ \A s \in Scripts : s.op = "LIST_OP" /\ s \in Nodes
  /\ \A t \in Nodes :
       /\ t.op \in Unary \cup Binary \cup {"LIST_OP"} => First(t) \in Nodes
       /\ t.op \in Binary => t.right \in Nodes
       /\ t.op = "LIST_OP" => Tail(t.entries) = <<>> \/ RestOf(t) \in Nodes

-----------------------------------------------------------------------------
VARIABLES
  pc,          \* where the program is
  called,      \* how it was called: with -c or -s, as cliexpr, on a script...
  in_commit,   \* the flag for commit: entries
  connected,   \* the connection to configd is open
  list,        \* the list of actions of the template
  node,        \* the node check_syn_func is called with
  stack,       \* the calls that wait for it
  ret,         \* what the last call returned
  log,         \* what was run, set, compared and printed, in order
  exit         \* how the program ended

walk == <<node, stack, ret, log>>
program == <<called, in_commit, connected, list>>
vars == <<pc, program, walk, exit>>

Null == [op |-> "NULL"]

\* getopt and get_script_type: -h, a command, with or without a reference in
\* it, the program under the name cliexpr, a script with #!, or nothing usable.
Calls == {"help", "cmd", "cmd_ref", "cliexpr", "script", "script_ref", "unusable"}

Init ==
  /\ pc = "main"
  /\ called \in Calls
  /\ in_commit = FALSE /\ connected = FALSE
  /\ list = EmptyList /\ node = Null
  /\ stack = <<>> /\ ret = TRUE /\ log = <<>>
  /\ exit = "running"

Go(to) == pc' = to /\ exit' = exit

Exit(how) == pc' = "exit" /\ exit' = how

Did(what) == log' = Append(log, [at |-> node, did |-> what])

-----------------------------------------------------------------------------
(* cliexec.cpp                                                             *)

Main ==
  /\ pc = "main"
  /\ in_commit' = TRUE
  /\ CASE called = "help" -> Exit("success")
       [] called = "unusable" -> Exit("failure")
       [] called = "cliexpr" -> Go("connect")
       [] OTHER -> Go("action")
  /\ UNCHANGED <<called, connected, list, walk>>

connect ==
  /\ pc = "connect"
  /\ \/ connected' = TRUE /\ Go(IF called = "cliexpr" THEN "parse" ELSE "expand")
     \/ Exit("failure") /\ UNCHANGED connected
  /\ UNCHANGED <<called, in_commit, list, walk>>

\* parse_def, then the request for the template of the node: each may fail.
parse_def ==
  /\ pc = "parse"
  /\ \/ Go("action") /\ list' \in Scripts \cup {EmptyList}
     \/ Exit("failure") /\ UNCHANGED list
  /\ UNCHANGED <<called, in_commit, connected, walk>>

\* Mutant: process_string does not look for references.
AfterActionNoConnect ==
  IF called = "cliexpr" THEN "char2val" ELSE "expand"

\* What follows in process_cli_script and in process_string.
AfterAction ==
  CASE called = "cliexpr" -> "char2val"
    [] called \in {"cmd_ref", "script_ref"} -> "connect"
    [] OTHER -> "expand"

\* CONFIGD_EXT names an action or it does not.
get_action_type ==
  /\ pc = "action"
  /\ Go(AfterAction) \/ Exit("failure")
  /\ UNCHANGED <<program, walk>>

\* The end of process_string: the shell takes the program's place.
process_string ==
  /\ pc = "expand"
  /\ \/ Exit("failure") /\ UNCHANGED log
     \/ \E how \in {"success", "failure"} : Exit(how) /\ Did("execl")
  /\ UNCHANGED <<program, node, stack, ret>>

\* execute_list up to its call of check_syn_func: char2val may refuse the
\* value.  A template without an action of this type has NULL for its list.
execute_list ==
  /\ pc = "char2val"
  /\ \/ Exit("failure") /\ UNCHANGED node
     \/ list = EmptyList /\ Exit("killed") /\ UNCHANGED node
     \/ list # EmptyList /\ Go("eval") /\ node' = list
  /\ UNCHANGED <<program, stack, ret, log>>

\* The outermost call has returned.
Finish ==
  /\ pc = "return" /\ stack = <<>>
  /\ Exit(IF ret THEN "success" ELSE "failure")
  /\ UNCHANGED <<program, walk>>

-----------------------------------------------------------------------------
(* check_syn_func at a node with operands that are nodes.                  *)

Evaluating(ops) == pc = "eval" /\ node.op \in ops

Returning(op) == pc = "return" /\ stack # <<>> /\ Head(stack).op = op

Return(b) == Go("return") /\ ret' = b /\ UNCHANGED node

\* The result is passed on to the caller.
Pop == stack' = Tail(stack)

\* A call in tail position.
Instead(n) == Pop /\ node' = n /\ Go("eval") /\ UNCHANGED ret

\* A commit: entry counts as TRUE outside a commit.
EvalList ==
  /\ Evaluating({"LIST_OP"})
  /\ stack' = <<node>> \o stack
  /\ IF in_commit \/ ~Head(node.entries).aux
       THEN Go("eval") /\ node' = Head(node.entries).exp /\ ret' = ret
       ELSE Return(TRUE)
  /\ UNCHANGED <<program, log>>

\* Mutant: an entry that fails does not end the list.
ListGoesOn ==
  /\ Returning("LIST_OP")
  /\ LET rest == Tail(Head(stack).entries)
     IN  IF rest = <<>> THEN Pop /\ Return(ret)
         ELSE Instead([op |-> "LIST_OP", entries |-> rest])
  /\ UNCHANGED <<program, log>>

ReturnToList ==
  /\ Returning("LIST_OP")
  /\ LET rest == Tail(Head(stack).entries)
     IN  IF ~ret \/ rest = <<>> THEN Pop /\ Return(ret)
         ELSE Instead([op |-> "LIST_OP", entries |-> rest])
  /\ UNCHANGED <<program, log>>

EvalLeft ==
  /\ Evaluating({"HELP_OP", "NOT_OP", "AND_OP", "OR_OP"})
  /\ stack' = <<node>> \o stack
  /\ Go("eval") /\ node' = node.left
  /\ UNCHANGED <<program, ret, log>>

\* The message is printed when the expression failed and the message expands.
ReturnToHelp ==
  /\ Returning("HELP_OP")
  /\ Pop /\ Return(ret)
  /\ \/ ret /\ log' = log
     \/ ~ret /\ \E what \in {"message", "no message"} :
                 log' = Append(log, [at |-> Head(stack), did |-> what])
  /\ UNCHANGED program

\* Mutant: the call is not left.
NotAgain ==
  /\ Returning("NOT_OP")
  /\ Return(~ret)
  /\ UNCHANGED <<program, stack, log>>

ReturnToNot ==
  /\ Returning("NOT_OP")
  /\ Pop /\ Return(~ret)
  /\ UNCHANGED <<program, log>>

ReturnToAnd ==
  /\ Returning("AND_OP")
  /\ IF ret THEN Instead(Head(stack).right) ELSE Pop /\ Return(FALSE)
  /\ UNCHANGED <<program, log>>

ReturnToOr ==
  /\ Returning("OR_OP")
  /\ IF ret THEN Pop /\ Return(TRUE) ELSE Instead(Head(stack).right)
  /\ UNCHANGED <<program, log>>

-----------------------------------------------------------------------------
(* The leaves.                                                             *)

\* eval_va: a status, a value, or, when the command in backquotes does not
\* expand, the structure of zeroes the caller passed and no status.
eval_va(operand) ==
  CASE operand = "VAR_OP" -> {"status", "one", "list", "multi_one", "multi_list"}
    [] operand = "VAL_OP" -> {"one"}
    [] operand = "VAL_LIST" -> {"list"}
    [] operand = "B_QUOTE_OP" -> {"status", "zero", "one"}

\* check_comp with val_cmp: the results for two operands, "bye" for the call
\* that ends the program on a type it does not know, "killed" for strcmp on
\* a NULL pointer.
check_comp(left, right) ==
  CASE "status" \in {left, right} -> {"no"}
    [] {"status", "zero"} \cap {left, right} = {} -> {"yes", "no"}
    [] left = "zero" /\ right = "zero" -> {"bye"}
    [] left \in {"multi_one", "multi_list"} /\ right = "zero" -> {"killed"}
    [] OTHER -> {"no"}

Leaf(op) == Evaluating({op}) /\ UNCHANGED <<program, stack>>

Dies(how) == Exit(how) /\ UNCHANGED <<node, ret>>

\* in_validate_val is never set, so one command is run, with $VAR(@) as it is.
EvalExec ==
  /\ Leaf("EXEC_OP")
  /\ \E what \in {"unexpanded", "exit 0", "exit 1"} :
       Did(what) /\ Return(what = "exit 0")

\* Every value of the reference has to match.
EvalPattern ==
  /\ Leaf("PATTERN_OP")
  /\ \/ \E what \in {"status", "all match", "one does not"} :
           Did(what) /\ Return(what = "all match")
     \/ Did("bad regex") /\ Dies("failure")

\* Whether the value could be set is not looked at.
EvalAssign ==
  /\ Leaf("ASSIGN_OP")
  /\ \E right \in eval_va(node.right) :
       IF right \in {"status", "list", "multi_list"}
         THEN Did(right) /\ Return(FALSE)
         ELSE /\ \E what \in (IF right = "zero" THEN {"not set"} ELSE {"set", "not set"}) : Did(what)
              /\ Return(TRUE)

EvalCond ==
  /\ Leaf("COND_OP")
  /\ \E left \in eval_va(node.left), right \in eval_va(node.right) :
       \E what \in check_comp(left, right) :
         /\ Did(what)
         /\ CASE what = "bye" -> Dies("failure")
              [] what = "killed" -> Dies("killed")
              [] OTHER -> Return(what = "yes")

-----------------------------------------------------------------------------
Done == pc = "exit" /\ UNCHANGED vars

Step ==
  \/ Main \/ connect \/ parse_def \/ get_action_type \/ process_string
  \/ execute_list \/ Finish
  \/ EvalList \/ ReturnToList \/ EvalLeft
  \/ ReturnToHelp \/ ReturnToNot \/ ReturnToAnd \/ ReturnToOr
  \/ EvalExec \/ EvalPattern \/ EvalAssign \/ EvalCond

Next == Step \/ Done

Spec == Init /\ [][Next]_vars

\* The program is not stopped, and the commands it runs end.
FairSpec == Spec /\ WF_vars(Step)

\* Called for an action the program succeeds only after a walk over a list or
\* by handing over to the shell, and called for its usage (-h) it does neither;
\* it never expands a reference or starts a walk without a connection.
Connected ==
  /\ log # <<>> /\ called \notin {"cmd", "script"} => connected
  /\ exit = "success" => (log = <<>> <=> called = "help")

-----------------------------------------------------------------------------
(* What a tree means: the truth of its leaves comes from the events they   *)
(* left in log, from the k-th on; next is the first event not used.        *)

Affirmed == {"exit 0", "all match", "set", "not set", "yes"}

EventOf(t, k) == k \in DOMAIN log /\ log[k].at = t

NoEvent == [truth |-> FALSE, next |-> 0]

\* The meaning of t, by a meaning M of its parts.
Reads(M, t) == [k \in Nat |->
  LET a == M[First(t)][k]
  IN  CASE t.op = "NOT_OP" -> [a EXCEPT !.truth = ~@]
        [] t.op = "HELP_OP" ->
             IF a.truth THEN a
             ELSE IF EventOf(t, a.next) THEN [a EXCEPT !.next = @ + 1] ELSE NoEvent
        [] t.op = "AND_OP" -> IF a.truth THEN M[t.right][a.next] ELSE a
        [] t.op = "OR_OP" -> IF a.truth THEN a ELSE M[t.right][a.next]
        [] t.op = "LIST_OP" ->
             IF a.truth /\ Tail(t.entries) # <<>> THEN M[RestOf(t)][a.next] ELSE a
        [] OTHER ->
             IF EventOf(t, k) THEN [truth |-> log[k].did \in Affirmed, next |-> k + 1] ELSE NoEvent]

Meaning[t \in Nodes] == Reads(Meaning, t)

\* When check_syn_func is back in execute_list its result is what the list
\* means, and the commands, assignments and messages are exactly those that
\* the meaning calls for, in their order: the first entry that fails is the
\* last one evaluated, a commit: entry is not passed over, the right operand
\* of && and || is evaluated only if it decides, and a message is printed
\* after its expression failed.
ReturnsMeaning ==
  pc = "return" /\ stack = <<>> => Meaning[list][1] = [truth |-> ret, next |-> Len(log) + 1]
=============================================================================
