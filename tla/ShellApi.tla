------------------------------ MODULE ShellApi ------------------------------
(***************************************************************************)
(* cli-shell-api (src/src/cli_shell_api.cpp) as the shell functions of     *)
(* functions/script-wrapper use it: every call is a process that reads the *)
(* edit level and the session from the environment, talks to configd and   *)
(* prints what the shell evaluates.  Other programs work in the same       *)
(* session between the requests of a process.                              *)
(***************************************************************************)
EXTENDS Naturals, SequencesExt

CONSTANTS
  Names,       \* words of a configuration path or of a file name
  Special,     \* the words that change when they are escaped
  NoName,      \* a word that names no node
  Kind,        \* templates: kind of node for a sequence of words
  Running,     \* nodes of the running configuration
  FileNodes,   \* nodes of every configuration file
  ArgLists,    \* arguments of a call
  Commands,    \* commands whose arguments the user completes
  LastWords,   \* what the user has typed of the last one
  MaxEscapes,  \* bound on the times a word of the level is escaped
  OtherPaths,  \* paths that other programs set and delete
  Unset        \* value of an unset variable

Kinds == {"typeless", "tag", "value", "leaf", "leafvalue"}

ASSUME ShellAssumption ==
  /\ Special \subseteq Names /\ NoName \notin Names
  /\ \A p \in DOMAIN Kind : p \in Seq(Names) /\ Kind[p] \in Kinds
  /\ MaxEscapes \in Nat
  /\ ArgLists \subseteq Seq(Names) /\ OtherPaths \subseteq DOMAIN Kind
  /\ Unset \notin Seq([name : Names, esc : Nat])

\* A node has a template, and so has the node above it.
ASSUME ConfigAssumption ==
  /\ \A p \in DOMAIN Kind : \A k \in 1..Len(p) : SubSeq(p, 1, k) \in DOMAIN Kind
  /\ \A q \in Running \cup FileNodes :
       q = <<>> \/ [i \in DOMAIN q |-> q[i].name] \in DOMAIN Kind

VARIABLES
  level,      \* VYATTA_EDIT_LEVEL, as the sequence of its components
  sid,        \* VYATTA_CONFIG_SID
  sid_ro,     \* the shell has declared it readonly
  in_session, \* configd has a session of that name
  candidate,  \* nodes of its candidate
  proc,       \* the process that is running
  last,       \* ghost: how the last process ended
  asked       \* ghost: the words by which the user came to the level

vars == <<level, sid, sid_ro, in_session, candidate, proc, last, asked>>
env == <<level, sid, sid_ro, asked>>
store == <<in_session, candidate>>

-----------------------------------------------------------------------------
(* Paths.  A component is a word and the number of times it was escaped.    *)

Typed(args) == [i \in DOMAIN args |-> [name |-> args[i], esc |-> 0]]

Escape(c) == IF c.name \in Special THEN [c EXCEPT !.esc = @ + 1] ELSE c
args_to_path(cs) == [i \in DOMAIN cs |-> Escape(cs[i])]

\* Components joined by blanks are one component for who splits at the slash.
argz_stringify(cs) == IF Len(cs) <= 1 THEN cs ELSE <<[name |-> NoName, esc |-> 0]>>

\* configd splits a path at the slashes and unescapes the components; a word
\* that should have been escaped and was not is split as well.
Unescape(c) ==
  CASE c.name \notin Special -> c
    [] c.name \in Special /\ c.esc > 0 -> [c EXCEPT !.esc = @ - 1]
    [] OTHER -> [name |-> NoName, esc |-> 0]
Read(p) == [i \in DOMAIN p |-> Unescape(p[i])]

Words(p) == [i \in DOMAIN p |-> p[i].name]

\* The template of a path that configd has read: a tag takes any value.
Template(p) == IF Words(p) \in DOMAIN Kind THEN Kind[Words(p)] ELSE "none"

\* The database AUTO: the candidate in a session, else the running one.
AutoDb == IF in_session THEN candidate ELSE Running

-----------------------------------------------------------------------------
(* The table of operations: numbers of arguments and what main prepares.    *)

Row(exact, min, edit, insert, conn) ==
  [exact |-> exact, min |-> min, edit |-> edit, insert |-> insert, conn |-> conn]
AnyNumber == 99

\* Operations that main treats alike and that make the same kind of request
\* are one here.
\*   nodeQuery: exists, existsActive, existsEffective, listEffectiveNodes, isMulti,
\*     isTag, isLeaf, isValue, isSecret, the six return operations,
\*     validateTmplValPath, getTmplAllowed
\*   listQuery: listNodes, listActiveNodes       schemaQuery: getSchema
\*   levelQuery: getNodeType, validateTmplPath   treeQuery: getTree, getActiveTree
\*   sessionQuery: the two marks, sessionUnsaved, sessionChanged, inSession
\*   setupSession: also setupSharedSession       hookDir: the two hook directories
\*   loadFile: also loadFileReportWarnings
Queries == {"nodeQuery", "listQuery", "schemaQuery", "levelQuery", "treeQuery",
  "sessionQuery", "migrateFile", "saveConfig"}
LevelQueries == {"levelQuery", "treeQuery"}
LoadOps == {"loadFile", "mergeFile"}
ShowOps == {"showCfg", "showCfg --path", "showConfig"}
OpNames == Queries \cup LoadOps \cup ShowOps \cup {"setupSession", "teardownSession",
  "hookDir", "getSessionEnv", "getEditEnv", "getEditUpEnv", "getEditResetEnv", "getCompletionEnv",
  "editLevelAtRoot", "getEditLevelStr"}

ops == [op \in OpNames |->
  CASE op = "getSessionEnv" -> Row(1, 0, TRUE, FALSE, TRUE)
    [] op = "getEditEnv" -> Row(AnyNumber, 1, TRUE, FALSE, TRUE)
    [] op = "getEditUpEnv" -> Row(0, 0, TRUE, FALSE, TRUE)
    [] op \in {"getEditResetEnv", "editLevelAtRoot"} -> Row(0, 0, TRUE, FALSE, FALSE)
    [] op = "getCompletionEnv" -> Row(AnyNumber, 2, TRUE, TRUE, TRUE)
    [] op = "getEditLevelStr" -> Row(0, 0, TRUE, TRUE, FALSE)
    [] op \in {"sessionQuery", "setupSession", "teardownSession"} -> Row(0, 0, FALSE, FALSE, TRUE)
    [] op = "hookDir" -> Row(0, 0, FALSE, FALSE, FALSE)
    [] op \in {"nodeQuery", "migrateFile"} -> Row(AnyNumber, 1, FALSE, FALSE, TRUE)
    [] op = "levelQuery" -> Row(AnyNumber, 1, TRUE, FALSE, TRUE)
    [] op = "treeQuery" -> Row(AnyNumber, 0, TRUE, FALSE, TRUE)
    [] op \in LoadOps -> Row(1, 0, FALSE, FALSE, TRUE)
    [] OTHER -> Row(AnyNumber, 0, FALSE, FALSE, TRUE)]

ArgsFit(op, args) ==
  ops[op].exact \in {AnyNumber, Len(args)} /\ Len(args) >= ops[op].min

\* Mutant: getNodeType is among them.
PlainTypes == {"saveConfig", "loadFile", "migrateFile", "showCfg", "showConfig", "schemaQuery",
               "levelQuery"}

\* Operations that get their arguments as they are, joined by blanks.
Plain == {"saveConfig", "loadFile", "migrateFile", "showCfg", "showConfig", "schemaQuery"}

AtLevel == level \notin {Unset, <<>>}

\* argz_insert is given no entry when the operation has no argument.
InsertsNothing(op, args) == ops[op].edit /\ ops[op].insert /\ AtLevel /\ args = <<>>

\* The components main hands on: the edit level before the arguments, or after
\* the first of them.
Components(op, args) ==
  LET typed == Typed(args) IN
  IF ~ops[op].edit \/ ~AtLevel THEN typed
  ELSE IF ops[op].insert THEN <<Head(typed)>> \o level \o Tail(typed) ELSE level \o typed

CallPath(op, args) ==
  IF op \in Plain \cup {"getSessionEnv"} THEN argz_stringify(Components(op, args))
  ELSE args_to_path(Components(op, args))

-----------------------------------------------------------------------------
(* The life of a process. *)

NoProc == [pc |-> "idle", op |-> "", args |-> <<>>, path |-> <<>>, cmd |-> "", typed |-> ""]
NoLast == [op |-> "", args |-> <<>>, exit |-> "ok", from |-> <<>>, path |-> <<>>,
           lost |-> FALSE, seen |-> FALSE, cmd |-> "", offered |-> {}]

Init ==
  /\ \/ level = Unset /\ sid = Unset /\ in_session = FALSE
     \/ level = <<>> /\ sid = "own" /\ in_session \in BOOLEAN
  /\ sid_ro = FALSE
  /\ candidate = IF in_session THEN Running ELSE {}
  /\ proc = NoProc
  /\ last = NoLast
  /\ asked = <<>>

Run == proc.pc = "idle"

\* A process of one request is one step.
Ended(exit) ==
  /\ proc' = NoProc
  /\ last' = [NoLast EXCEPT !.exit = exit]

\* main has the arguments, and its connection if it makes one: operations that
\* need none but the edit level connect as well.
Connects(op) == ops[op].conn \/ ops[op].edit
Prepared(op, args) == Run /\ ArgsFit(op, args) /\ ~InsertsNothing(op, args)

Refused(op, args) ==
  /\ Run
  /\ ~ArgsFit(op, args) \/ Connects(op)
  /\ Ended("fail")
  /\ UNCHANGED <<env, store>>

Crash(op, args) ==
  /\ Run /\ ArgsFit(op, args) /\ InsertsNothing(op, args)
  /\ Ended("crash")
  /\ UNCHANGED <<env, store>>

-----------------------------------------------------------------------------
(* Operations of one request or none. *)

HookDir ==
  /\ Prepared("hookDir", <<>>)
  /\ Ended("ok")
  /\ UNCHANGED <<env, store>>

\* The exit status is the answer; no answer is no.
Query(op, args) ==
  /\ Prepared(op, args)
  /\ proc' = NoProc
  /\ \E exit \in {"ok", "fail"} :
       last' = IF op \in LevelQueries
               THEN [NoLast EXCEPT !.op = op, !.exit = exit, !.args = args,
                                   !.path = Read(CallPath(op, args))]
               ELSE [NoLast EXCEPT !.exit = exit]
  /\ UNCHANGED <<env, store>>

\* What configd did may not have reached the process; a no is not an error to it.
Answered == Ended("ok") \/ Ended("fail")

Setup ==
  /\ Prepared("setupSession", <<>>)
  /\ \/ /\ sid # Unset /\ ~in_session
        /\ in_session' = TRUE /\ candidate' = Running
        /\ Answered
     \/ Answered /\ UNCHANGED store
  /\ UNCHANGED env

Teardown ==
  /\ Prepared("teardownSession", <<>>)
  /\ \/ /\ in_session
        /\ in_session' = FALSE /\ candidate' = {}
        /\ Answered
     \/ Answered /\ UNCHANGED store
  /\ UNCHANGED env

\* The file configd is asked for is the one the user has named.
SameFile(op, args) == CallPath(op, args) = Typed(args)

Loaded(op) == IF op = "mergeFile" THEN candidate \cup FileNodes ELSE FileNodes

LoadFile(op, args) ==
  /\ Prepared(op, args)
  /\ \/ /\ in_session /\ SameFile(op, args)
        /\ candidate' = Loaded(op)
        /\ Answered
     \/ Ended("fail") /\ UNCHANGED candidate
  /\ UNCHANGED <<env, in_session>>

-----------------------------------------------------------------------------
(* The environment of the shell. *)

\* getSessionEnv gets the edit level too: the first word becomes the session.
GetSessionEnv(args) ==
  /\ Prepared("getSessionEnv", args)
  /\ Ended("ok")
  /\ level' = <<>> /\ asked' = <<>>
  /\ \/ sid_ro /\ UNCHANGED <<sid, store>>
     \/ /\ ~sid_ro
        /\ sid' = IF AtLevel THEN "other" ELSE "own"
        /\ in_session' \in BOOLEAN
        /\ candidate' = IF in_session' THEN Running ELSE {}
  /\ sid_ro' = TRUE

GetEditResetEnv ==
  /\ Prepared("getEditResetEnv", <<>>)
  /\ Ended("ok")
  /\ level' = <<>> /\ asked' = <<>>
  /\ UNCHANGED <<sid, sid_ro, store>>

EditLevelAtRoot ==
  /\ Prepared("editLevelAtRoot", <<>>)
  /\ \/ level = <<>> /\ Ended("ok")
     \/ level # <<>> /\ Ended("fail")
  /\ UNCHANGED <<env, store>>

\* Reached with no level or with the root only.
GetEditLevelStr ==
  /\ Prepared("getEditLevelStr", <<>>)
  /\ \/ level = <<>> /\ Ended("ok")
     \/ level = Unset /\ Ended("fail")
  /\ UNCHANGED <<env, store>>

\* The parent, or its parent where configd says that the parent is a tag node.
UpTo(said) == IF said = "tag" THEN Front(Front(level)) ELSE Front(level)

\* configd is asked with the components joined by blanks.
GetEditUpEnv ==
  /\ Prepared("getEditUpEnv", <<>>)
  /\ \/ /\ AtLevel
        /\ \E lost \in BOOLEAN :
             LET said == IF lost THEN "none" ELSE Template(Read(argz_stringify(Front(level)))) IN
             /\ level' = UpTo(said)
             /\ asked' = SubSeq(asked, 1, Len(UpTo(said)))
             /\ proc' = NoProc
             /\ last' = [NoLast EXCEPT !.op = "getEditUpEnv", !.from = level, !.lost = lost]
     \/ /\ ~AtLevel
        /\ Ended("fail")
        /\ UNCHANGED <<level, asked>>
  /\ UNCHANGED <<sid, sid_ro, store>>

-----------------------------------------------------------------------------
(* configd_edit_get_env: template, existence, set. *)

Ends(exit, seen) ==
  /\ proc' = NoProc
  /\ last' = [NoLast EXCEPT !.op = proc.op, !.exit = exit, !.args = proc.args,
                            !.path = Read(proc.path), !.seen = seen]

\* A tag value or a typeless node.
Editable(p) == Template(p) \in {"value", "typeless"}

EditTemplate(args) ==
  /\ Prepared("getEditEnv", args)
  /\ LET path == CallPath("getEditEnv", args) IN
     \/ /\ Editable(Read(path)) /\ \A i \in DOMAIN path : path[i].esc <= MaxEscapes
        /\ proc' = [NoProc EXCEPT !.pc = "exists", !.op = "getEditEnv", !.args = args, !.path = path]
        /\ UNCHANGED last
     \/ Ended("fail")
  /\ UNCHANGED <<env, store>>

\* Mutant: the shell is given the arguments without the level.
EnterArguments ==
  /\ level' = args_to_path(Typed(proc.args))
  /\ asked' = asked \o proc.args

\* The shell evaluates the path as it was sent.
EnterLevel ==
  /\ level' = proc.path
  /\ asked' = asked \o proc.args

\* Mutant: an answer that was lost counts as yes.
NotNo(answer) == answer # 0

SaysYes(answer) == answer = 1

EditExists ==
  /\ proc.pc = "exists"
  /\ \E answer \in {IF Read(proc.path) \in AutoDb THEN 1 ELSE 0, 2} :  \* 2: an error, -1
       \/ /\ SaysYes(answer)
          /\ EnterLevel
          /\ Ends("ok", Read(proc.path) \in AutoDb)
       \/ /\ ~SaysYes(answer)
          /\ proc' = [proc EXCEPT !.pc = "set"]
          /\ UNCHANGED <<level, asked, last>>
  /\ UNCHANGED <<sid, sid_ro, store>>

EditSet ==
  /\ proc.pc = "set"
  /\ \/ /\ in_session
        /\ candidate' = candidate \cup Prefixes(Read(proc.path))
        /\ \/ EnterLevel /\ Ends("ok", TRUE)
           \/ UNCHANGED <<level, asked>> /\ Ends("fail", TRUE)
     \/ UNCHANGED <<candidate, level, asked>> /\ Ends("fail", FALSE)
  /\ UNCHANGED <<sid, sid_ro, in_session>>

-----------------------------------------------------------------------------
(* getCompletionEnv (completion_env.cpp): template, existence, help.  What   *)
(* the templates add for a value (allowed, comp_help) is left to the shell.  *)

ExistsOnly == {"delete", "show", "comment", "activate", "deactivate"}

\* Cpath takes components as configd does and writes them as args_to_path does.
push_unescape(cs) == Read(cs)
to_path_string(cs) == args_to_path(cs)

\* Mutant: the word that is being completed is part of the path.
PcompsAndLast(path) == to_path_string(push_unescape(Tail(path)))

\* The words between the command and the last one.
Pcomps(path) == to_path_string(push_unescape(Tail(Front(path))))

CompleteTemplate(cmd, args, typed) ==
  LET call == <<cmd>> \o args \o <<typed>>
      pcomps == Pcomps(CallPath("getCompletionEnv", call)) IN
  /\ Prepared("getCompletionEnv", call)
  /\ \/ /\ pcomps = <<>> \/ Template(Read(pcomps)) # "none"
        /\ proc' = [pc |-> IF pcomps # <<>> /\ cmd \in ExistsOnly THEN "below" ELSE "help",
                    op |-> "getCompletionEnv", args |-> args, path |-> pcomps,
                    cmd |-> cmd, typed |-> typed]
        /\ UNCHANGED last
     \/ pcomps # <<>> /\ Ended("fail")
  /\ UNCHANGED <<env, store>>

CompleteExists ==
  /\ proc.pc = "below"
  /\ \E answer \in {IF Read(proc.path) \in candidate THEN 1 ELSE 0, 2} :
       \/ /\ SaysYes(answer)
          /\ proc' = [proc EXCEPT !.pc = "help"]
          /\ last' = [NoLast EXCEPT !.seen = Read(proc.path) \in candidate]
       \/ ~SaysYes(answer) /\ Ended("fail")
  /\ UNCHANGED <<env, store>>

\* GetHelp: the children that there are, or could be where nodes have names.
Children(p, from_schema) ==
  {n \in Names : LET child == Append(p, [name |-> n, esc |-> 0]) IN
     IF from_schema /\ Template(p) \notin {"tag", "leaf"}
     THEN Template(child) # "none" ELSE child \in AutoDb}

\* Values are left for the shell to filter; a name is typed in full or not begun.
Completions(p) ==
  LET help == Children(p, proc.cmd \notin ExistsOnly) IN
  IF Template(p) \in {"tag", "leaf"} THEN help
  ELSE {n \in help : proc.typed \in {"", n}}

CompleteHelp ==
  LET here == Read(proc.path) IN
  /\ proc.pc = "help"
  /\ \/ /\ Template(here) # "leafvalue"
        /\ Template(here) \in {"tag", "leaf"} \/ Completions(here) # {}
        /\ proc' = NoProc
        /\ last' = [NoLast EXCEPT !.op = proc.op, !.args = proc.args, !.path = here,
             !.cmd = proc.cmd, !.seen = last.seen, !.offered = Completions(here)]
     \/ Ended("fail")
  /\ UNCHANGED <<env, store>>

-----------------------------------------------------------------------------
(* showCfg and showConfig: two requests. *)

ShowAsks(op, args) ==
  /\ Prepared(op, args)
  /\ \E answer \in {IF in_session THEN 1 ELSE 0, 2} :
       proc' = [NoProc EXCEPT !.pc = IF answer = 0 THEN "running" ELSE "candidate",
                              !.op = op, !.path = CallPath(op, args)]
  /\ UNCHANGED <<env, store, last>>

Show ==
  /\ proc.pc \in {"running", "candidate"}
  /\ \/ /\ proc.pc = "running" \/ in_session
        /\ Ended("ok")
     \/ Ended("fail")
  /\ UNCHANGED <<env, store>>

-----------------------------------------------------------------------------
(* Other programs in the session. *)

OtherSets(p) ==
  /\ in_session
  /\ candidate' = candidate \cup Prefixes(Typed(p))
  /\ UNCHANGED <<env, in_session, proc, last>>

OtherDeletes(p) ==
  /\ in_session
  /\ candidate' = {q \in candidate : ~IsPrefix(Typed(p), q)}
  /\ UNCHANGED <<env, in_session, proc, last>>

OtherTearsDown ==
  /\ in_session
  /\ in_session' = FALSE /\ candidate' = {}
  /\ UNCHANGED <<env, proc, last>>

Next ==
  \/ HookDir \/ Setup \/ Teardown \/ GetEditResetEnv \/ EditLevelAtRoot
  \/ GetEditLevelStr \/ GetEditUpEnv \/ EditExists \/ EditSet \/ Show \/ OtherTearsDown
  \/ CompleteExists \/ CompleteHelp
  \/ \E args \in ArgLists :
       \/ GetSessionEnv(args) \/ EditTemplate(args)
       \/ \E op \in OpNames : Refused(op, args) \/ Crash(op, args)
       \/ \E op \in Queries : Query(op, args)
       \/ \E op \in LoadOps : LoadFile(op, args)
       \/ \E op \in ShowOps : ShowAsks(op, args)
       \/ \E cmd \in Commands, typed \in LastWords : CompleteTemplate(cmd, args, typed)
  \/ \E p \in OtherPaths : OtherSets(p) \/ OtherDeletes(p)

Spec == Init /\ [][Next]_vars

-----------------------------------------------------------------------------
PlainWords(words) == \A i \in DOMAIN words : words[i] \notin Special
Edited == last.op = "getEditEnv" /\ last.exit = "ok"

\* An edit that succeeded was at a node the session had while the call ran,
\* whatever other programs did and whichever of its requests was lost.
EditedExists == Edited => last.seen

\* Relative edits and ups compose: the level is where the user's words lead,
\* as long as none of them has to be escaped.
LevelMeansAsked ==
  level # Unset /\ PlainWords(asked) => Read(level) = Typed(asked)

\* A question that is relative to the level is about the node below it.
QueriesUseLevel ==
  last.op \in LevelQueries /\ PlainWords(asked)
    => last.path = Typed(asked \o last.args)

\* Completion offers what may follow the user's words: nodes below the level and
\* the words before the last, which the session had when it was asked whether
\* they exist, for a command that acts on existing nodes.
CompletesBelow ==
  last.op = "getCompletionEnv" /\ PlainWords(asked \o last.args) =>
    /\ \A n \in last.offered : asked \o last.args \o <<n>> \in DOMAIN Kind
    /\ last.path = Typed(asked \o last.args)
    /\ last.cmd \in ExistsOnly /\ last.path # <<>> => last.seen

\* "read current env, and if value go up 2 levels otherwise go up one"
\* (cli_shell_api.cpp:114), where configd has answered.
UpLeavesTheTag ==
  last.op = "getEditUpEnv" /\ last.exit = "ok" /\ ~last.lost
    => Len(last.from) - Len(level) = IF Template(Read(last.from)) = "value" THEN 2 ELSE 1
=============================================================================
