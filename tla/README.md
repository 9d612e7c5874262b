# Verification of vyatta-cfg

vyatta-cfg is the client side of the DANOS/Vyatta configuration system: the C
library that talks to the configuration daemon `configd`, its C++ and scripting
bindings, the shell API behind the CLI, the interpreter of the old template
actions (`cliexec`), and the scripts that save, load and boot configurations.
`configd` itself is a separate program and external to this repository.

The modules here are TLA+ specifications of the parts of it in which order,
failure or arithmetic decide whether the result is right. TLC checks them on
small instances; TLAPS proves the central ones for every value of their
constants. Paths below are relative to the repository root.

To repeat a run: `tlc -config <cfg> <module>`; to repeat the proofs of a module:
`tlapm <module>.tla`. `PROJECT.json` lists the runs, the source lines behind
every definition, the hazards, the findings and the theorems.

## Inventory

| Component | State | Operations | Hard behaviour |
|---|---|---|---|
| Connection, `src/client/connect.c` | descriptor, stream, session id, request counter | open, close, `send_request`, `recv_response`, `get_int/str/vector/map` | no timeouts; replies paired with requests by a wrapping id; garbage, end of file, short writes, a daemon that dies; ownership of reply memory |
| Errors, `src/client/error.c` | text, list of management errors | init, set, merge, format, free | ownership moves from reply to error; a list that breaks off at one of its entries; optional fields |
| RPC wrappers, `session.c node.c template.c transaction.c callrpc.c auth.c file.c` | none | about fifty functions, one RPC each; `configd_edit_get_env` makes several | int and pointer conventions for failure |
| `CfgClient.cpp`, `ctemplate.cpp`, `completion_env.cpp`, swig bindings | a connection and a session id | session setup, attach, teardown; exceptions for errors | a failed setup that leaves the session id changed; errors without a text |
| `cli_shell_api.cpp`, `functions/script-wrapper` | environment of the shell | one operation per process, edit-level environment | composition of RPCs, each of which may fail; the edit level as a text that is split, joined and escaped again |
| `compat/cstore-compat.cpp` | a connection | the old Cstore observers in terms of RPCs | status computed from several RPCs that other sessions may interleave with |
| `cliexec/` | parsed template actions, `at` variables, output streams | `execute_list`, `char2val`, `val_cmp`, `scan_ipv6`, `check_syn_func`, `expand_string`, `system_out` | a child, its pipe and its exit racing; comparison of lists and addresses; a buffer that grows; strings shared by a lexer and a list |
| `scripts/vyatta-save-config.pl` | temporary file, saved configuration | show, append version, flush, fsync, rename, fsync directory | crash between any two steps; concurrent savers |
| `scripts/vyatta-load-config.pl`, `vyatta-boot-config-loader`, `lib/Vyatta/ConfigLoad.pm` | hierarchy of a file, differences | load, merge, commit, teardown | each step's failure; order of deletes and sets |
| `lib/Vyatta/Config.pm`, `perl_dmod/Cstore` | level, config handle | observers, `compareValueLists` | list comparison |
| `vyatta-transfer-url`, `vcli`, bash completion, yang, debian | none of their own | glue | - |

How they interact: every component above reaches `configd` through one
`configd_conn` and one outstanding RPC at a time. The scripts and the shell run
`cli-shell-api` or the Perl bindings; `cliexec` is run by `configd` and calls
back into it through the compatibility library. What is shared is the session in
`configd`: several programs may work in one, and each call that takes more than
one RPC sees their changes between its own.

What makes each correct: a call must never take another call's answer for its
own, must end when `configd` answers or goes away, and must neither leak nor
free twice; a reported success must be one. An observer that takes several RPCs
may be late about what others change and must be right about the rest. A saved
configuration must be the old or the new one after a crash at any point, and a
router must come up with it. A template action must not lose output it was given nor wait for a process it did
not start, must compare as its condition says and must write within its buffer.
The edit level must be the node the user's commands lead to.

## Modules

| Module | Models | Kind |
|---|---|---|
| `ConfigdConn` | the connection: client, socket pair and daemon | state machine |
| `ConfigdReply` | decoding of one reply down to the memory it owns, the getters' switch, the wrappers' conversions | operators |
| `MgmtErrors` | the management errors of a reply, entry by entry, and what is released when one is bad | operators |
| `ConfigdApi` | the table of wrappers: response type and conversion of each | operators |
| `AtomicRpc` | what a connection promises: in-order, at-most-once execution, and a value only for an executed call | abstract specification |
| `SystemOut` | `system_out`: a command, the daemon it may leave, the pipe, the parent that copies and waits | state machine |
| `ScanAddress` | the numbers of a value: `sscanf` as `val_cmp` uses it, and `scan_ipv6` | operators |
| `CompareAddresses` | `TemplateCompare` over the notations of IPv6 addresses the lexer accepts, read by `ScanAddress` | operators |
| `TemplateCompare` | `check_comp` and `val_cmp` on value lists | state machine |
| `ExpandString` | `expand_string` and its global buffer | state machine |
| `AtValue` | `execute_list` with `char2val`, the lexer of values, `add_val`, `free_val`, composed with `ExpandString` | state machine |
| `TemplateActions` | `cliexec` and `cliexpr` from the options to the exit status, with the walk of `check_syn_func` over the syntax tree of an action | state machine |
| `VarRef` | references in actions: `cstore_get_var_ref`, `cstore_set_var_ref` and the class `VarRef` | state machine |
| `RefMeaning` | the meaning of a reference: the node of the schema it names and the values it stands for | operators |
| `CompatStore` | the observers of the compatibility `Cstore`, RPC by RPC, and the session's other clients | state machine |
| `CfgClientSession` | the sessions of `CfgClient` objects on one `configd` | state machine |
| `SaveConfig` | `vyatta-save-config.pl`: several savers, one target file, a disk that crashes | state machine |
| `BootConfig` | `vyatta-boot-config-loader` and `vyatta-load-config.pl`, composed with `SaveConfig`, a crash and the reboot | state machine |
| `ShellApi` | `cli-shell-api` as the shell functions use it, the completion environment, and other programs in the session | state machine |
| `MC...` | values of the constants for TLC, reference definitions | |
| `...Proofs` | theorems about the module of that name and the ones it is built on; `TemplateActionsProofs` also about `VarRef`, `ClientProofs` about `CompatStore` and `CfgClientSession` | |

`ConfigdConn` is built from `ConfigdReply` (what decoding does, with `MgmtErrors`) and
`ConfigdApi` (which wrapper decodes how), and is shown to implement `AtomicRpc`. The modules
above the connection use what `AtomicRpc` says of a call, and no more: a request is
executed at most once, and a caller that gets no answer does not know whether it
was. So in `CompatStore`, `CfgClientSession` and `ShellApi` an RPC is one step with
an answer, a failure before, or a failure after it took effect.

### ConfigdConn

`pc`, `fd`, `reqId` are the fields of `configd_conn` and the place of its owner;
`link`, `c2s`, `s2c` the socket and its two streams; `srv`, `served` the daemon;
`call` and `out` the wrapper under way and what it leaves: value, error and the
blocks allocated and freed. `Call` is `send_request` with the four outcomes of
`write` (all, part, an error, SIGPIPE), `recv_response` the loop over
`json_load_callback`, with one step per message and the whole decoding of the
answer in it. `configd` answers, sends what nobody asked for, hangs up, stops and
restarts. Bodies of replies are records saying which member has which JSON type,
since that is what the decoder's `switch` tells apart. A `type` that was never set
(`connect.c:631`) is a choice among all types, and is remembered in `undef`.

A list of management errors is decoded by `MgmtErrors`, block by block: an entry that
is no object, or whose error-info holds something other than strings, ends the
decoding, and what has been built has to be released once. To the rest of the model
the list is one block, "reply", and "stray" if that account is not right. No
allocation fails; `process_errlist_array` would then lose an error-info
(`connect.c:433`).

### SystemOut

The parent's loop is `select`, `read`, `fwrite`, `waitpid`, one action per outcome;
the command writes, closes its output, starts a daemon that inherits the pipe and
exits. Chunks are numbered so that order and loss can be seen; `mark` is how many
had been written when `select` last timed out.

### TemplateCompare

A comparison takes one step per pair of the two nested loops. `Strings` are ranks
under `strcmp` and `Parts` the numbers read at the start of each for every numeric
type, so the constants range over all ways text and numeric order can disagree. For IPv6
addresses `CompareAddresses` takes `Parts` from `ScanAddress`, in which a text is a sequence of digits and
separators and `scan_ipv6` is the loop over them: `::` is kept as a place and filled
with zeroes at the end, and a dotted end is combined into two groups. `Text` gives each string
its notation, one of those of the lexer's patterns; `Address` says what it denotes. `eval_va` is
the set of operands the grammar and the variable lookup can produce. The result is
checked against `Meaning`, what the condition says of the two lists.

### ExpandString

One step per item of the string: a character, a reference, a broken one. `alloc`
is what the buffer has, `exe_string_len` what the code believes, `left` and `off`
its counters. The buffer is global, so the second call starts from what the first
one left. `my_realloc` may return NULL.

### AtValue

A text is a sequence of pieces: the values the lexer tells apart (an address, a
number, a boolean), newlines, blanks and anything else. A string in memory is a block;
`cli_value`, the value and the list point to blocks, and `live` is what is allocated.
One step is one token of the lexer, one line of a text, one `add_val`. A text that was
refused is reported through `expand_string`, and the commands of the action are expanded
by it: these steps are those of `ExpandString`. A list that cannot grow is possible
(`oom`); `strdup` does not fail, and the size of the message buffer is left out. A process
converts one value.

### TemplateActions

`stack` holds the calls of `check_syn_func` that wait for a result; a call in tail
position takes the place of its caller. Trees are those the rules of `cli_parse.y` for
`action`, `exp` and `assign_exp` build; `log` is what the leaves did. What a leaf does
inside is in `SystemOut`, `TemplateCompare`, `AtValue` and `ExpandString`; here it has an outcome,
the command in backquotes of an operand being part of the leaf. `in_validate_val` is
never set in the source, so the loop it guards is left out. A message leaves an event also
when it does not expand and nothing is printed. `Meaning` is what a tree means, a recursion over
the tree that reads `log`: for each event, whether the tree is true by the events from
that one on, and which is the first event it does not use.

### VarRef

`process_ref` is a recursion; `todo` holds its pending calls in order, so that a step
is one component of a reference. A configuration is a set of paths, a schema maps
paths with `*` for tag values to kinds of nodes. `cfg_path` is the global that the two
entry points change and put back. An action `uses` a set of references, and its calls
read or assign any of them (`ref`), one after the other; commands of the template may
change the candidate in between. A reading takes the value off `cfg_path` if there is
one, an assignment takes the last component off whatever it is. One request of each call
may fail: for a template, for values, for existence, or an assignment whose answer is
lost after `configd` made it. `wrote` is a ghost: the nodes that assignments have set
since the last edit, with their values.

The constants are any tree of templates (`SchemaAssumption`: below a tag node everything
is below its value), any nodes whose actions are run (`StartsAssumption`), any references
without empty components (`RefsAssumption`: the constructor leaves them out) and finite
configurations. `RefMeaning` says what a reference means without walking the configuration:
it follows the reference through the schema (`Way`), puts the tag values of the node of
the action in place (`NodeAt`), and takes the name, the value or the children of the
node there (`StandsFor`). `Meaningful` are the references that this gives a meaning: `@` or `@@` at
the end, every node on the way in the schema, and no tag that is not on the path of the
node of the action.

`WriteThenRead` has two halves. An assignment sets the node its reference names: where
the path of the action is that of a value, as the comment in the source assumes, or the
reference is absolute; a relative one from a container starts a level higher than a
reading, and sets another node or none, which the model does too. And what was set, by
such an assignment or by any other, is what each reference that asks for the values of
that node reads from the candidate afterwards, whatever else was read and assigned in
between. A reference `@` to the node itself asks for no values: it gives the one that the
action is run for, before and after an assignment, which is part of `GivesMeaning`
(`AsksStart`).

### CompatStore

`type`, `run`, `cand`, `mod` are the level as `configd` has it, `session` whether
there is a session. A call is a sequence of RPCs (`pc` names the next one), and
others edit, commit and tear down between them; `touched` collects the children they
have touched since the call began. Only about the others can a call be right. The
questions that take one RPC (`Ask`: status, existence, default, session, schema) share
their treatment of a failed request; what the schema answers is left open. `Connect`
is the connection that all objects of a process share.

### CfgClientSession

Per object: `session_id`, which the connection sends, and `_sessionid`, the member
it falls back to. Ghosts record the session an object inherited with those that a setup
or an attach that returned was for, and the sessions whose setup has thrown. A setup that
`configd` answers false returns (`SetupDenied`). An error may come without a text, where the code makes a
`std::string` of NULL.

### SaveConfig

Each saver has its temporary file in two versions, the one processes see and the
one a crash leaves. `renames` is the directory's history and `synced` how much of
it is on the disk; a directory is assumed to be written back in the order of
its renames, as journalling file systems do. The script does not look at the
status of the command that shows the configuration, of the flush, the fsync and
the rename: these faults are possible and set `tainted`.

### BootConfig

The loader is one action per request to `configd`, each of which may fail, having been
executed or not; `candidate` is what is in its session. `vyatta-load-config.pl` and the
commit of its user are one step, because the session is the user's own until the
commit. A configuration is none, a part, or the whole of it. A saver is shown the
running configuration (`--show-active-only`), so that one that saves while a part is
running saves a part: this sets `tainted` too. A crash takes sessions and running
configuration and leaves the disk.

### ShellApi

`level`, `sid`, `sid_ro` are what the shell exports; each process is one operation of
the table `ops`, which keeps the number of arguments, the use of the level and the
connection from the source. Operations that `main` treats alike and that make the
same request are one entry (the module lists them). A component of a path is a word
and the number of times it has been escaped: this is all that `args_to_path` (of
vyatta-util), `argz_stringify` and `configd`'s splitting change. Getting an edit
environment is three requests (template, existence, set) with other programs in
between. `asked` is the ghost of the user's own words.

`getCompletionEnv` is three requests as well (template, existence, help) over a path
it takes apart, unescapes and writes again; words of the command line have been typed
in full or not begun. What the shell is told is reduced to the path that was asked
about and the names offered; the text around them, and the commands that produce
further suggestions, belong to the shell.

## Runs

| Run | Checks | Shows |
|---|---|---|
| `conn_wire` | `TypeOK`, `OwnAnswer`, `OneReplyPerCall`, `InOrder`, `ImplementsAtomicRpc`, `CallReturns` | with garbage, unsolicited messages, short writes, hang-ups and restarts, a success rests on the call's own answer, the connection implements `AtomicRpc`, and a call returns if `configd` answers or hangs up |
| `conn_memory` | `MemoryOwned`, `SuccessLeavesNoError` | every form of reply through every wrapper, and lists of errors that break off at any entry: nothing leaks, nothing is freed twice, no descriptor stays open, no error is left by a success |
| `system_out` | `OnlyLateOutputLost`, `StatusIsChilds`, `Returns` | only output written after the last timeout can be lost; a status is that of the child; `system_out` returns once the command has ended, daemon or not |
| `boot_config` | `SavedIsWhole`, `DoneIsDurable`, `BootRestores` | the target is a whole configuration after a crash at any point; a reported save stays; a router that comes up without a failure runs a whole configuration, whoever saves and loads meanwhile |
| `compare` | `ReturnsMeaning`, `NoStaleResult`, `ComparesAddresses` | all conditions on all operands with up to two values mean what they say; no pair is judged by an old result; IPv6 addresses and nets are compared as numbers, however they are written |
| `at_value` | `WritesInBuffer`, `LeftIsRest`, `AcceptsMeaning`, `MemorySafe`, `StringsAccountedFor` | `char2val` accepts what it should and hands over all of it; strings are freed at most once and not before their last use, and all of them if the action comes to `free_val`; what a refusal leaves is the value's strings and at most one more; every write of `expand_string` is in its buffer as long as no realloc failed |
| `template_actions` | `ReturnsMeaning`, `Connected`, `Ends` | the result of a list of actions, and the commands, assignments and messages on the way, are those the list means, in order; nothing is run behind a failure; no reference is expanded without a connection, and only `-h` succeeds without having done anything |
| `var_ref` | `GivesMeaning`, `PathPutBack`, `WriteThenRead` | a reference gives the values of the node it names in the schema, or fewer if a request for values failed; the global path is back after each; an assignment sets the node its reference names, and every reference to the values of that node reads what it set |
| `compat_store` | `StatusesTrue`, `ErrorsOnlyHide`, `DeletedAreDeleted`, `AnswersTrue`, `ListsTrue` | observers are right about the children nobody touched; failed RPCs hide or delete and never invent, and are no yes to a question |
| `cfg_client` | `FallsBackToKnown`, `OneContext` | an object falls back only to the session it inherited or one that a call which returned was for, and its two ids differ only after a setup that threw |
| `shell_api` | `EditedExists`, `CompletesBelow`, `LevelMeansAsked`, `QueriesUseLevel` | an edit ends at a node that was there; a completion offers what is below the words typed; edits and ups compose; questions are asked below the level |

One more run, `doc_up`, states what a comment says, and TLC finds a behaviour of the
code that does otherwise: `up` from a tag value below the top level stops at the tag
node (`UpLeavesTheTag`, `cli_shell_api.cpp:137`).

The modules contain other behaviours in which the code does not do what is written
beside it. They are part of the actions, and no property is stated about them:

- a result whose id is not an integer is accepted, so an unsolicited one answers the
  wrong call (`connect.c:592`, against `connectTester.cpp:215`, "'id' is the value that
  matters"); `MissingIds` in `ConfigdConn`;
- after a setup that threw, operations go to a session the object is not attached to
  (`CfgClient.cpp:346`, against `CfgClient.hpp:156`); `refused` in `CfgClientSession`;
- a component of the original path is taken by its position alone
  (`cstore-varref.cpp:253`, against the comment at 252): a reference that leaves the
  path through another tag node of the same depth gets the tag value of the node
  whose action is run; `InScope` in `RefMeaning` leaves these out of `GivesMeaning`;
- when the template of a tag node cannot be had, text goes down without the tag value
  (`cstore-varref.cpp:243`), and `@` behind it gives a component of the original path
  (`TemplateFails`);
- `@@` on a node without a type gives the names of its children and goes on to handle
  the node as a leaf (`cstore-varref.cpp:191`), which repeats a single name;
- an assignment that could not be made counts as true (`cli_new.c:804`);
- delete, comment, discard and save return NULL with an empty error when `configd`
  answers false (`transaction.c:168`, against `transaction.h:43`);
- session setup, teardown and the marks return 1 when `configd` answers false
  (`session.c:52`, against `session.h:32`), which no caller takes for an error:
  `cli-shell-api` exits with 0 (`cli_shell_api.cpp:238`; `Setup` and `Teardown` of
  `ShellApi`), the boot loader goes on without a session, where its load and its commit
  fail (`SetUp` of `BootConfig`), and `SessionSetup` makes the session that was not
  created the context of the object (`CfgClient.cpp:347`, against `CfgClient.hpp:86`;
  `SetupDenied`);
- an assignment takes the last component off the path without looking
  (`cstore-c.cpp:108`, against the comment at 102): from a node without a value a relative
  reference starts a level higher than in a reading, and leads to another node;
- a list of two management errors without a message: the length of NULL is taken
  (`error.c:387`, against `error.h:29`); `pc = "crashed"` in `ConfigdConn`;
- `IN_COND` with several values on the left: only the last one decides
  (`cli_new.c:629`, against `cli_val.h:48`); `LastIsIn` in `TemplateCompare`;
- the loader commits what a failed load left in its session
  (`vyatta-boot-config-loader:43`), and a save made then replaces the saved configuration
  by a part of it; `vyatta-load-config.pl` says that the load is complete without having
  looked;
- with a single type no value is of a wrong type to `char2val` (`cli_new.c:342`, against the
  comment at 281), and `add_val` does not verify that the types are the same
  (against its comment);
- a text that is refused after its first value was taken leaks: `execute_list` returns
  without `free_val` (`cli_new.c:202`, after 361, 384 or 413), and of the tokens read to
  go on after an error (356, 376, 406) one string may be lost; `StringsAccountedFor` says
  what is left;
- `scan_ipv6` combines the prefix length of a net with a dotted end into the last group
  (`cli_new.c:1301`);
- `eval_va` keeps the string of a reference that "caller is supposed to free"
  (`cstore-c.cpp:67`);
- the comment of a node that has none is made a `std::string` of NULL, and a path of
  one component is neither escaped nor given its slash (`cstore-compat.cpp:434`);
- completion compares the last word in its escaped form;
- after a failed realloc the next call believes in a longer buffer than it has
  (`cli_new.c:1083`, against the comment at 1064); this is why `WritesInBuffer` has
  the condition `~failed`;
- a failed status request shows a child of the candidate as deleted
  (`cstore-compat.cpp:307`); the second case of `ErrorsOnlyHide`;
- an error without a text ends the program instead of throwing
  (`CfgClient.cpp:134`, against `CfgClient.hpp:158`); `Terminates`;
- `showConfig` does not use the edit level (`cli_shell_api.cpp:826`, against 613);
  operations marked as needing no connection fail without one (927, against 73);
  `getEditLevelStr` ends in `argz_insert` at every level but the root (974, `Crash`);
  `mergeFile` asks for the escaped name of its file (953, `SameFile` is false).

### Bounds

- `conn_wire`: 4 calls with ids modulo 3, so ids wrap and are used twice on one
  connection. At most 2 unsolicited messages: their number has to stay below the
  modulus (`ConnAssumption`), which is 2^32 in the code. `conn_memory` has 2 calls
  and every form of reply, since no reply depends on one before the last; lists have up
  to three errors, so that a bad entry is first, in the middle and last.
- `system_out`: 5 chunks, a pipe of 2, reads of up to 2: the writers block, a read
  takes less than, exactly and more than there is.
- `boot_config`: 2 savers, interchangeable (symmetry), one crash, every fault but a
  version that is not printed, which the loader does not look at: one saver
  renames while the other writes, the router crashes, boots and is saved again. Each
  saves once; the theorems have any number of savers and crashes.
- `compare`: all pairs of lists of up to 2 over 5 of the texts, and all pairs of single
  values among all 20: numbers, dotted addresses, IPv6 addresses and nets with `::` first,
  last, in the middle and absent, full and with a dotted end. `ComparisonIsMeaning` removes the
  bound on the lists.
- `at_value`: up to 3 lines of at most 2 pieces, lists that grow by 2: a list grows
  once, an error comes after the first and after a later value. A step of 2 bytes,
  values up to 3, 2 items, 2 calls in `expand_string`: values larger than the step,
  several reallocs for one value, a buffer left by another call.
- `template_actions`: expressions of two operators deep over two leaves, of one over
  nine leaves with every kind of operand, lists of up to three entries with and without
  the mark of `commit:`. A result depends on a node and the results of its operands, so
  deeper trees repeat these cases.
- `var_ref`: a schema with every kind of node, two tags at the same depth among them;
  values and containers to start from, one container in another, so that an assignment
  from there sets another node than the one named. References of up to 5 components that
  go up and down, each alone, and five groups of three that lead on different ways to one
  node, to its neighbours and from a container to what is above it (`Together`); 3 calls per
  action, so that an assignment is followed by another reference, or an edit, and by a
  read; one failed request in each call. Two nodes are set and one of them read through a
  reference that set neither; the node of the action itself is set and read by `@` and
  by its name.
- `compat_store`: 2 children, 3 steps of others, 1 call: an edit before, between and
  after the RPCs. Calls share nothing but the connection.
- `cfg_client`: 2 objects, 2 sessions, 6 calls: both objects set up, lose and
  fall back.
- `shell_api`: a tree of 6 templates with a tag at the top and one below, one value
  that has to be escaped; 7 argument lists; 2 commands to complete; others work on the
  subtree of the lower tag. `MaxEscapes` = 2: each relative edit below an escaped value escapes it once
  more, without end; two show that it does.
- `doc_up` has the bounds of `shell_api`.

Deadlock is checked everywhere except in `SystemOut`, whose function returns and
whose processes end. Where the number of calls is bounded, a `Done` step stands for
stopping there.

### Fairness

`ConfigdConn`: weak fairness of `recv_response` (a thread blocked in a read runs when
there is something to read) and of the daemon's serving or hanging up. The code has
no timeout, so without the second a call may wait for ever, as it may in reality;
garbage and unsolicited messages are not fair. `SystemOut`: weak fairness of the
parent and of the command's exit. `TemplateActions`: weak
fairness of the program's steps, which assumes that the commands it runs end, as
`system_out` shows of itself under that assumption. The daemon is under no obligation: that it may
keep the pipe for ever is why the loop polls. The amount of output is bounded;
a daemon that writes more often than every 100ms for ever would keep `system_out`
in its loop.

## Proofs

Proved for every value of the constants under the named assumptions of each
module, from inductive invariants that TLC has checked first:

| Theorems | Inductive invariant and why the property alone is not inductive |
|---|---|
| `ConfigdConnProofs`: `TypeCorrect`, `StreamsInOrder`, `RepliesPaired`, `SuccessIsOwnAnswer`, `Refinement` | `ConnInv`. That a stale answer cannot carry the current id depends on how old an answer in flight can be, which depends on how many messages can be in flight: `InOrder` and `OneReplyPerCall` bound the age by the unsolicited messages, and `ModUnique` turns a distance below the modulus into different ids. `SuccessIsOwnAnswer` and `Refinement` assume `IdsSuffice`: every answer carries an id, or nothing comes unasked; without it an unsolicited answer without an id is taken for the call's own. |
| `ConfigdConnProofs`: `MemoryIsOwned`, `SuccessIsClean` | `MemInv`: the heap between calls is empty and the error is cleared wherever a call returns a value. The step that matters is the receipt of an answer (`ReceivedOwns`), a case analysis of every form of a reply under every wrapper. For lists of management errors of any length it rests on `AllAccounted`: entry by entry, what `process_errlist_array` has built is reachable from the list, or released once. |
| `SystemOutProofs`: `OutputLossIsBounded`, `StatusIsReaped` | `Streaming`: while the parent reads, what it copied followed by what is in the pipe is all that was written; `Marked`: what was there at a timeout has been copied; `Gone`: a child that has ended writes no more. |
| `BootConfigProofs`: `CrashSafe`, `Durable` (of `SaveConfig`) | `Settled`: a file that replaced the target belongs to a saver that will not write again; `WholeFirst`: it was whole, and on the disk, before its rename. A crash may undo renames, so every prefix of the history has to be good. |
| `BootConfigProofs`: `BootsWhole`, `BootCrashSafe`, `BootDurable` | `SaversRefined`: to the savers the composed system is `SaveConfig` again, so their theorems carry over; `Carried`: without a failure the loader's session, and later the running configuration, is whole. It needs `SavedIsWhole` where the file is read, after any crash. |
| `TemplateCompareProofs`: `ComparisonIsMeaning`, `ResultsAreFresh` | `PassedHold` (every comparable pair passed satisfies the condition and `ret` says whether there was one) and, for `IN_COND`, `PassedDiffer`. `NotBothEmpty` shows why `res` is never stale: an operand of a numeric type has a number. |
| `TemplateCompareProofs`: `AddressesAreCompared` | `ScanIsAddress`, for every notation: `HexLoop` gives the state of `scan_ipv6` after each group (what it found, where the `::` was), `EndState` after the dotted end or the prefix length, `FilledParts` with the zeroes put in, place by place; `SameParts`: the places determine the address. A `::` at either end leaves an empty number that counts as one group, which `Fits` shows never makes nine. `FromHexIsDecimal`: the conversion of a decimal that was read as hexadecimal is right for up to three digits. A net with a dotted end is not in the property: `scan_ipv6` combines its prefix length with the last two decimals. |
| `AtValueProofs`: `StaysInBuffer`, `CountIsExact` (of `ExpandString`) | `Room`: where a byte is copied there is space for it and the termination; `Known`: without a failed realloc the believed size is the real one. |
| `AtValueProofs`: `ActionsStayInBuffer`, `ActionsCountExactly` | `ExpandRefined`: to the buffer, reading a value and running the commands is a sequence of calls of `expand_string`, so the two theorems above carry over. |
| `AtValueProofs`: `ValuesAreSafe`, `StringsAreAccountedFor` | `MemInv`. `HoldsBlocks`: at each place, the strings of the value and of its list are allocated and, unless a list could not grow, nothing else is, but for one string where a message was printed; `InRoom`: the lists fit, which needs that the room of the two lists grows in whole steps while they do, and the step for many values, `MULTI_ALLOC`, be at least 2 (with 1 the second value of a list is written behind it); `MoreIsAddress`: after the first value the lexer is called again only for an address. |
| `AtValueProofs`: `ValuesAreMeant` | `TextInv`: where the lexer or `char2val_text` is in the text, in positions (`AtBegin`: at the beginning of a line, `AtAddress`: behind the address of one, `AtCopy`: at the next line to copy), that the lines before it are addresses, and that the value holds one entry for each of them, or the first. `LexBehind` says what the lexer finds at a position, `FirstPiece` what it must find in a well-formed text, `SuitableIs` what a well-formed text should give, `LinecntIs` that the lines counted are those of the text. |
| `ShellApiProofs`: `EditedNodeExists`, `LevelIsAsked`, `QueriesAreBelow`, `CompletionIsBelow` | `ShellInv`. `LevelInv` says word by word what the level is, and that a word which escaping changes is escaped there (read back by `ReadBack`: reading undoes writing once); `ProcInv` says what a process carries between its requests: the path it was started for, and that the node it is about to enter has a template; `StoreInv`: other programs add only nodes with one. `ConfigAssumption`: a node of the running configuration or a file has a template, and so has the node above it. |
| `TemplateActionsProofs`: `WalkMeans` | `WalkInv`: for every waiting call there is a place in the log where its operand began, and a promise: whatever the rules derive for the operand from there on, they derive for the waiting call (`Promise`). A pop keeps the promises of the calls below it (`PopWalks`), a push adds one (`PushWalks`). `MeaningReads` shows that the recursion of `Meaning` defines a function, `MeaningRules` that the rules hold for it. |
| `TemplateActionsProofs`: `StaysConnected` | `ConnInv`: which way of calling the program can be at which place: only `cliexpr` walks, and it has connected; a string with references is expanded only by the ways that connect; what was called with `-h` never leaves `main`. |
| `TemplateActionsProofs`: `PathIsPutBack` (of `VarRef`) | inductive as it stands, by `RefSteps`: a step leaves the path alone, begins a reference, or puts the path back. |
| `TemplateActionsProofs`: `ReferencesGiveMeaning`, `AssignmentsAreRead` (of `VarRef`) | `RefInv`. `Resolves`: the pending calls and the entries found are one of the forms of `Resolution`: one call that stands where the way through the schema stands (`PartWay`), one that asks for a node, for the value of the action or for a leaf, or, for a tag, one call for each of its values not yet found. `AnswersMeaning` says what the answer then is, with the number of words; `SetMeaning` which node was set; `WroteMeaning` that at each node in `wrote` the candidate holds the value assigned and no other, which another assignment keeps since no leaf is above another one in a schema (`LeavesApart`, `SetLeafKeeps`). `FromValue` are the calls in which an assignment starts where a reading does; in others the forms of `Resolution` need not hold and only `RefTyped`, what the variables hold whatever a reference means, carries over. Each step of `process_ref` has a lemma (`RefDotResolves`, ...) that it goes from one form to another; `TextGoesDown` and `DotsGoUp` are about the tag values: what `..` takes off the path and text puts on is what `Way` does. Neither property is inductive alone: between call and return nothing is said of `todo`. |
| `ClientProofs`: `StatusWalk`, `StatusErrors`, `DeletedValues`, `Answers`, `Lists` (of `CompatStore`) | one invariant per child, `ChildInv(c)` for each child not in `touched`, saying what the call knows of it at each of its RPCs; `PcFits` and `TypeKnown` say which call can be where. Stated per child, it holds for levels of any size without an induction. |
| `ClientProofs`: `ContextsAgree`, `FallBack` (of `CfgClientSession`) | the conjunction of `ClientTypeOK` and the two properties is inductive. |

`WalkMeans` is `ReturnsMeaning` for lists of actions of any length and depth. The walk
is compared with rules first (`WalkDerives`): `yes` and `no` are any sets of
`<<tree, first event, event behind the last>>` that the rules (one for leaves, one for each
of `!`, `&&`, `||`, a message, a list) hold for; the list, with the whole log, is in
`yes` if the walk returned true and in `no` if it returned false. Then the sets are those
of `Meaning`. That takes an induction over trees, made with a set of
numbers: the hypothesis of `WalkMeans` is that trees are finite, as a function `Depth`
that gives a node a greater number than the nodes it is made of.

What the proofs showed about the models: three `CASE`s had guards that overlap, with different values
(`Unescape` of `ShellApi`, `check_comp` of `TemplateActions`, the separators of a text in `CompareAddresses`: TLC takes the first that holds,
the language lets any be taken; they say now what the source does), the kinds of a getter
were not named in `ConfigdConn`, and the assumption of `AtValue` on `MULTI_ALLOC` was too weak.

Only model-checked:

- the liveness properties `CallReturns`, `Returns` and `Ends`: TLAPS 1.4.5 proves neither
  liveness nor ENABLED.

Induction over data, which the library's theorems do not give to these provers (they take
an operator), is made by hand with a set of numbers where it is needed: `AllAccounted`
does it for lists of errors, `MeaningReads` for trees, `SetInduction` for the loop of
`scan_ipv6`, for the way of a reference and for the joining of words.

The type invariants of `SystemOut`, `TemplateCompare`, `ExpandString`, `CompatStore` and
`CfgClientSession` are parts of the proved inductive invariants and are not run.

## Not modelled

`configd` (external; modelled only from how the client uses it), the lexer of
templates and the clauses of its grammar without actions, text encodings, logging,
printing and layout, the options of `cli-shell-api` other than `--path`, the generated
bindings, the help texts of `ctemplate.cpp`, bash completion and the packaging. Of
`is_delete` only that references are read from one of two trees; of `rename` and `copy` not
how the path is taken apart. Failing allocations are modelled where the source grows
something (`expand_string`, `add_val`) and nowhere else. Saving to and loading from a
URL, and the migration of a file, are other programs. `getConfigDiff` of
`lib/Vyatta/ConfigLoad.pm` cannot run: it calls `cfgPathGetChildNodesDA`, which
`Cstore.xs` no longer offers. `expand_string("")`, whose loop steps over the
termination, is not among the inputs of `ExpandString`: its callers pass the literals of
templates. `execv` of `/bin/sh` is assumed to succeed.

## Plan

Nothing that the plan had is left to prove.

What is left to model: `compareValueLists` of `Config.pm` (the values that are kept are
a common prefix) and the conversion of a saved file into set commands
(`enumerate_branch`).
