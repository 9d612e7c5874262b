-------------------------- MODULE ShellApiProofs ---------------------------
(***************************************************************************)
(* Theorems about ShellApi, for every tree of templates, every words and   *)
(* every interleaving with other programs: the edit level stays where the  *)
(* user's words lead, questions and completion are about the node below    *)
(* it, and an edit that succeeded was at a node that there was.            *)
(***************************************************************************)
EXTENDS ShellApi, TLAPS

Comps(S) == [name : S, esc : Nat]

-----------------------------------------------------------------------------
(* Paths. *)

\* A sequence over a set is one over a larger set.
LEMMA SeqGrows ==
  ASSUME NEW A, NEW B, A \subseteq B, NEW s \in Seq(A)
  PROVE  s \in Seq(B)
OBVIOUS

\* The length and the elements of two sequences, one after the other.
LEMMA Joined ==
  ASSUME NEW S, NEW a \in Seq(S), NEW b \in Seq(S)
  PROVE  /\ a \o b \in Seq(S) /\ Len(a \o b) = Len(a) + Len(b)
         /\ \A i \in 1..Len(a) : (a \o b)[i] = a[i]
         /\ \A i \in 1..Len(b) : (a \o b)[Len(a) + i] = b[i]
OBVIOUS

\* Words become components.
LEMMA TypedType ==
  ASSUME NEW S, NEW args \in Seq(S)
  PROVE  /\ Typed(args) \in Seq(Comps(S)) /\ Len(Typed(args)) = Len(args)
         /\ \A i \in 1..Len(args) : Typed(args)[i] = [name |-> args[i], esc |-> 0]
<1>1. DOMAIN args = 1..Len(args) /\ \A i \in 1..Len(args) : args[i] \in S
  OBVIOUS
<1>2. Typed(args) = [i \in 1..Len(args) |-> [name |-> args[i], esc |-> 0]]
  BY <1>1 DEF Typed
<1>3. \A i \in 1..Len(args) : [name |-> args[i], esc |-> 0] \in Comps(S)
  BY <1>1 DEF Comps
<1> QED
  BY <1>2, <1>3

\* Escaping a component and reading it gives the component.
LEMMA EscapeBack ==
  ASSUME NEW S, NEW c \in Comps(S)
  PROVE  /\ Escape(c) \in Comps(S) /\ Escape(c).name = c.name
         /\ c.name \notin Special => Escape(c) = c
         /\ Unescape(Escape(c)) = c
<1>1. CASE c.name \notin Special
  <2>1. Escape(c) = c
    BY <1>1 DEF Escape
  <2>2. Unescape(c) = c
    BY <1>1, Zenon DEF Unescape
  <2> QED
    BY <2>1, <2>2
<1>2. CASE c.name \in Special
  <2> DEFINE e == [c EXCEPT !.esc = @ + 1]
  <2>1. Escape(c) = e
    BY <1>2 DEF Escape
  <2>2. e \in Comps(S) /\ e.name = c.name /\ e.esc = c.esc + 1 /\ e.esc > 0
    BY DEF Comps
  <2>3. Unescape(e) = [e EXCEPT !.esc = @ - 1]
    BY <1>2, <2>2, Zenon DEF Unescape
  <2>4. [e EXCEPT !.esc = @ - 1] = c
    <3> DEFINE f == [e EXCEPT !.esc = @ - 1]
    <3> HIDE DEF e
    <3>1. f \in Comps(S) /\ f.name = c.name /\ f.esc = c.esc
      BY <2>2 DEF Comps
    <3> HIDE DEF f
    <3>2. f = c
      BY <3>1 DEF Comps
    <3> QED
      BY <3>2 DEF f
  <2> QED
    BY <1>2, <2>1, <2>2, <2>3, <2>4
<1> QED
  BY <1>1, <1>2

\* So does writing a path and reading it.
LEMMA ReadBack ==
  ASSUME NEW S, NEW cs \in Seq(Comps(S))
  PROVE  /\ args_to_path(cs) \in Seq(Comps(S)) /\ Len(args_to_path(cs)) = Len(cs)
         /\ \A i \in 1..Len(cs) : args_to_path(cs)[i] = Escape(cs[i])
         /\ Read(args_to_path(cs)) = cs
<1>1. \A i \in 1..Len(cs) : Escape(cs[i]) \in Comps(S) /\ Unescape(Escape(cs[i])) = cs[i]
  BY EscapeBack
<1>2. DOMAIN cs = 1..Len(cs)
  OBVIOUS
<1>3. /\ args_to_path(cs) \in Seq(Comps(S)) /\ Len(args_to_path(cs)) = Len(cs)
      /\ \A i \in 1..Len(cs) : args_to_path(cs)[i] = Escape(cs[i])
  BY <1>1, <1>2 DEF args_to_path
<1>4. Read(args_to_path(cs)) = [i \in 1..Len(cs) |-> cs[i]]
  BY <1>1, <1>3 DEF Read
<1> QED
  BY <1>3, <1>4

\* The components before the arguments.
Above == IF level = Unset THEN <<>> ELSE level

\* The operations that put the level before the arguments.
LEMMA LevelFirst ==
  ASSUME NEW op \in LevelQueries \cup {"getEditEnv"}, NEW args \in Seq(Names),
         Above \in Seq(Comps(Names))
  PROVE  CallPath(op, args) = args_to_path(Above \o Typed(args))
<1>1. ops[op].edit = TRUE /\ ops[op].insert = FALSE
  BY DEF ops, OpNames, Queries, LevelQueries, LoadOps, ShowOps, Row
<1>2. op \notin Plain \cup {"getSessionEnv"}
  BY DEF LevelQueries, Plain
<1>3. Typed(args) \in Seq(Comps(Names))
  BY TypedType
<1>4. Components(op, args) = Above \o Typed(args)
  <2>1. CASE level \in {Unset, <<>>}
    <3>1. Above = <<>> /\ Components(op, args) = Typed(args)
      BY <1>1, <2>1 DEF Components, AtLevel, Above
    <3> QED
      BY <1>3, <3>1
  <2>2. CASE level \notin {Unset, <<>>}
    BY <1>1, <2>2 DEF Components, AtLevel, Above
  <2> QED
    BY <2>1, <2>2
<1> QED
  BY <1>2, <1>4 DEF CallPath

\* Completion gets the level after the command; the words of the path are those
\* of the level and those between the command and the last one.
LEMMA CompletionPath ==
  ASSUME NEW cmd, NEW typed, NEW args \in Seq(Names), Above \in Seq(Comps(Names))
  PROVE  Pcomps(CallPath("getCompletionEnv", <<cmd>> \o args \o <<typed>>))
         = args_to_path(Above \o Typed(args))
<1> DEFINE S == Names \cup {cmd, typed}
           call == <<cmd>> \o args \o <<typed>>
           first == [name |-> cmd, esc |-> 0]
           final == [name |-> typed, esc |-> 0]
           cs == <<first>> \o (Above \o Typed(args)) \o <<final>>
<1>1. ops["getCompletionEnv"].edit = TRUE /\ ops["getCompletionEnv"].insert = TRUE
  BY DEF ops, OpNames, Queries, LoadOps, ShowOps, Row
<1>2. call \in Seq(S) /\ Len(call) = Len(args) + 2
      /\ call[1] = cmd /\ call[Len(args) + 2] = typed
      /\ \A i \in 1..Len(args) : call[i + 1] = args[i]
  OBVIOUS
<1>3. /\ Typed(call) \in Seq(Comps(S)) /\ Len(Typed(call)) = Len(args) + 2
      /\ \A i \in 1..(Len(args) + 2) : Typed(call)[i] = [name |-> call[i], esc |-> 0]
  BY <1>2, TypedType
<1>4. /\ Typed(args) \in Seq(Comps(Names)) /\ Len(Typed(args)) = Len(args)
      /\ \A i \in 1..Len(args) : Typed(args)[i] = [name |-> args[i], esc |-> 0]
  BY TypedType
<1> HIDE DEF call
<1>5. /\ Head(Typed(call)) = first
      /\ Tail(Typed(call)) \in Seq(Comps(S)) /\ Len(Tail(Typed(call))) = Len(args) + 1
      /\ \A i \in 1..(Len(args) + 1) : Tail(Typed(call))[i] = [name |-> call[i + 1], esc |-> 0]
  BY <1>2, <1>3
<1>6. first \in Comps(S) /\ final \in Comps(S) /\ Above \in Seq(Comps(S))
      /\ Typed(args) \in Seq(Comps(S))
  <2>1. Comps(Names) \subseteq Comps(S)
    BY DEF Comps
  <2>2. first \in Comps(S) /\ final \in Comps(S)
    BY DEF Comps
  <2> HIDE DEF S, first, final
  <2> QED
    BY <1>4, <2>1, <2>2, SeqGrows
<1> HIDE DEF S, first, final
<1>7. Tail(Typed(call)) = Typed(args) \o <<final>>
  <2> DEFINE t == Tail(Typed(call))
             u == Typed(args) \o <<final>>
  <2>1. u \in Seq(Comps(S)) /\ Len(u) = Len(args) + 1 /\ u[Len(args) + 1] = final
        /\ \A i \in 1..Len(args) : u[i] = Typed(args)[i]
    BY <1>4, <1>6
  <2>2. \A i \in 1..(Len(args) + 1) : t[i] = u[i]
    <3> SUFFICES ASSUME NEW i \in 1..(Len(args) + 1) PROVE t[i] = u[i]
      OBVIOUS
    <3>1. t[i] = [name |-> call[i + 1], esc |-> 0]
      BY <1>5
    <3>2. CASE i = Len(args) + 1
      <4>1. call[i + 1] = typed
        BY <1>2, <3>2
      <4> QED
        BY <2>1, <3>1, <3>2, <4>1 DEF final
    <3>3. CASE i # Len(args) + 1
      <4>1. i \in 1..Len(args)
        BY <3>3
      <4>2. call[i + 1] = args[i] /\ u[i] = [name |-> args[i], esc |-> 0]
        BY <1>2, <1>4, <2>1, <4>1
      <4> QED
        BY <3>1, <4>2
    <3> QED
      BY <3>2, <3>3
  <2> HIDE DEF t, u
  <2>3. t = u
    BY <1>5, <2>1, <2>2 DEF t
  <2> QED
    BY <2>3 DEF t, u
<1>8. Components("getCompletionEnv", call) = cs
  <2>1. CASE level \in {Unset, <<>>}
    <3>1. Above = <<>> /\ Components("getCompletionEnv", call) = Typed(call)
      BY <1>1, <2>1 DEF Components, AtLevel, Above
    <3>2. Typed(call) = <<first>> \o Tail(Typed(call))
      BY <1>3, <1>5
    <3>3. <<first>> \o (Typed(args) \o <<final>>) = <<first>> \o Typed(args) \o <<final>>
      BY <1>6
    <3>4. <<>> \o Typed(args) = Typed(args)
      BY <1>6
    <3> QED
      BY <1>7, <3>1, <3>2, <3>3, <3>4 DEF cs
  <2>2. CASE level \notin {Unset, <<>>}
    <3>1. Above = level
          /\ Components("getCompletionEnv", call) = <<first>> \o level \o Tail(Typed(call))
      BY <1>1, <1>5, <2>2 DEF Components, AtLevel, Above
    <3>2. <<first>> \o level \o (Typed(args) \o <<final>>)
          = <<first>> \o (level \o Typed(args)) \o <<final>>
      BY <1>6, <3>1
    <3> QED
      BY <1>7, <3>1, <3>2 DEF cs
  <2> QED
    BY <2>1, <2>2
<1>9. CallPath("getCompletionEnv", call) = args_to_path(cs)
  <2>1. "getCompletionEnv" \notin Plain \cup {"getSessionEnv"}
    BY DEF Plain
  <2> QED
    BY <1>8, <2>1 DEF CallPath
<1> DEFINE mid == Above \o Typed(args)
<1>10. mid \in Seq(Comps(S)) /\ mid \in Seq(Comps(Names))
  BY <1>4, <1>6
<1> HIDE DEF mid
<1>11. /\ cs \in Seq(Comps(S)) /\ Len(cs) = Len(mid) + 2
       /\ \A i \in 1..Len(mid) : cs[i + 1] = mid[i]
  BY <1>6, <1>10 DEF mid
<1> HIDE DEF cs
<1>12. /\ args_to_path(cs) \in Seq(Comps(S)) /\ Len(args_to_path(cs)) = Len(mid) + 2
       /\ \A i \in 1..Len(cs) : args_to_path(cs)[i] = Escape(cs[i])
  BY <1>11, ReadBack
<1>13. /\ args_to_path(mid) \in Seq(Comps(S)) /\ Len(args_to_path(mid)) = Len(mid)
       /\ \A i \in 1..Len(mid) : args_to_path(mid)[i] = Escape(mid[i])
       /\ Read(args_to_path(mid)) = mid
  BY <1>10, ReadBack
<1>14. Tail(Front(args_to_path(cs))) = args_to_path(mid)
  <2> DEFINE a == args_to_path(cs)
             b == args_to_path(mid)
  <2>1. \A i \in 1..Len(mid) : a[i + 1] = b[i]
    BY <1>11, <1>12, <1>13
  <2>2. Front(a) \in Seq(Comps(S)) /\ Len(Front(a)) = Len(mid) + 1
        /\ \A i \in 1..(Len(mid) + 1) : Front(a)[i] = a[i]
    BY <1>10, <1>12 DEF Front
  <2> HIDE DEF a, b
  <2>3. Tail(Front(a)) \in Seq(Comps(S)) /\ Len(Tail(Front(a))) = Len(mid)
        /\ \A i \in 1..Len(mid) : Tail(Front(a))[i] = Front(a)[i + 1]
    BY <1>10, <2>2
  <2>4. b \in Seq(Comps(S)) /\ Len(b) = Len(mid)
    BY <1>13 DEF b
  <2>5. \A i \in 1..Len(mid) : Tail(Front(a))[i] = b[i]
    BY <1>10, <2>1, <2>2, <2>3
  <2>6. Tail(Front(a)) = b
    BY <1>10, <2>3, <2>4, <2>5
  <2> QED
    BY <2>6 DEF a, b
<1>15. Pcomps(CallPath("getCompletionEnv", call)) = args_to_path(mid)
  BY <1>9, <1>13, <1>14 DEF Pcomps, push_unescape, to_path_string
<1> QED
  BY <1>15 DEF call, mid
-----------------------------------------------------------------------------
(***************************************************************************)
(* The inductive invariant.  It says of the level what LevelMeansAsked     *)
(* says, word by word and also where words are escaped; that the session   *)
(* holds nodes with a template; and what a process that is running knows.  *)
(***************************************************************************)

LevelInv ==
  /\ asked \in Seq(Names)
  /\ Above \in Seq(Comps(Names)) /\ Len(Above) = Len(asked)
  /\ \A i \in 1..Len(asked) :
       Above[i].name = asked[i] /\ (asked[i] \notin Special => Above[i].esc = 0)

Conforms(nodes) == \A q \in nodes : q = <<>> \/ Words(q) \in DOMAIN Kind

StoreInv == in_session \in BOOLEAN /\ Conforms(candidate)

Procs ==
  [pc : {"idle", "exists", "set", "below", "help", "running", "candidate"},
   op : OpNames \cup {""}, args : Seq(Names), path : Seq(Comps(Names \cup {NoName})),
   cmd : Commands \cup {""}, typed : LastWords \cup {""}]

ProcInv ==
  /\ proc \in Procs
  /\ proc.pc \in {"exists", "set"} =>
       proc.op = "getEditEnv" /\ Words(Read(proc.path)) \in DOMAIN Kind
  /\ proc.pc \in {"below", "help"} => proc.op = "getCompletionEnv"
  /\ proc.pc = "help" /\ proc.cmd \in ExistsOnly /\ proc.path # <<>> => last.seen
  /\ proc.pc \in {"exists", "set", "below", "help"} =>
       proc.path = args_to_path(Above \o Typed(proc.args))

ShellInv ==
  /\ LevelInv /\ StoreInv /\ ProcInv
  /\ EditedExists /\ QueriesUseLevel /\ CompletesBelow

-----------------------------------------------------------------------------

LEMMA NoProcType == NoProc \in Procs /\ NoProc.pc = "idle"
<1>1. <<>> \in Seq(Names) /\ <<>> \in Seq(Comps(Names \cup {NoName}))
  OBVIOUS
<1> QED
  BY <1>1 DEF NoProc, Procs

\* What there is to show of a process that ended and left nothing to speak of.
LEMMA QuietEnd ==
  ASSUME proc' = NoProc, last'.op \notin LevelQueries \cup {"getEditEnv", "getCompletionEnv"}
  PROVE  ProcInv' /\ EditedExists' /\ QueriesUseLevel' /\ CompletesBelow'
<1>1. ProcInv'
  BY NoProcType DEF ProcInv
<1> QED
  BY <1>1 DEF EditedExists, Edited, QueriesUseLevel, CompletesBelow

LEMMA EndedIsQuiet ==
  ASSUME NEW exit, Ended(exit)
  PROVE  ProcInv' /\ EditedExists' /\ QueriesUseLevel' /\ CompletesBelow'
<1>1. proc' = NoProc /\ last'.op = ""
  BY DEF Ended, NoLast
<1> QED
  BY <1>1, QuietEnd DEF LevelQueries

LEMMA LevelKept ==
  ASSUME LevelInv, UNCHANGED <<level, asked>>
  PROVE  LevelInv'
BY DEF LevelInv, Above

LEMMA LevelAtRoot ==
  ASSUME level' = <<>>, asked' = <<>>
  PROVE  LevelInv'
<1>1. Above' = <<>>
  BY DEF Above
<1> QED
  BY <1>1 DEF LevelInv

\* A level that is a prefix of the level, with as many of the user's words.
LEMMA LevelUp ==
  ASSUME LevelInv, level # Unset, NEW k \in 0..Len(level),
         level' = SubSeq(level, 1, k), asked' = SubSeq(asked, 1, k)
  PROVE  LevelInv'
<1>1. Above = level /\ level \in Seq(Comps(Names)) /\ Len(level) = Len(asked)
  BY DEF LevelInv, Above
<1>2. /\ level' \in Seq(Comps(Names)) /\ Len(level') = k
      /\ \A i \in 1..k : level'[i] = level[i]
  BY <1>1
<1>3. /\ asked' \in Seq(Names) /\ Len(asked') = k
      /\ \A i \in 1..k : asked'[i] = asked[i]
  BY <1>1 DEF LevelInv
<1>4. Above' = level'
  BY <1>2, ShellAssumption DEF Above, Comps
<1>5. \A i \in 1..k : i \in 1..Len(asked)
  BY <1>1
<1> QED
  BY <1>1, <1>2, <1>3, <1>4, <1>5 DEF LevelInv

\* The components of the level and the arguments.
LEMMA BelowLevel ==
  ASSUME LevelInv, NEW args \in Seq(Names)
  PROVE  /\ Above \o Typed(args) \in Seq(Comps(Names))
         /\ Len(Above \o Typed(args)) = Len(asked) + Len(args)
         /\ \A i \in 1..Len(asked) : (Above \o Typed(args))[i] = Above[i]
         /\ \A i \in 1..Len(args) : (Above \o Typed(args))[Len(asked) + i] = Typed(args)[i]
<1> DEFINE S == Comps(Names)
           b == Typed(args)
<1>1. b \in Seq(S) /\ Len(b) = Len(args)
  BY TypedType
<1>2. Above \in Seq(S) /\ Len(Above) = Len(asked)
  BY DEF LevelInv
<1> HIDE DEF S, b
<1>3. /\ Above \o b \in Seq(S) /\ Len(Above \o b) = Len(Above) + Len(b)
      /\ \A i \in 1..Len(Above) : (Above \o b)[i] = Above[i]
      /\ \A i \in 1..Len(b) : (Above \o b)[Len(Above) + i] = b[i]
  BY <1>1, <1>2
<1> QED
  BY <1>1, <1>2, <1>3 DEF S, b

\* The level entered with arguments below the level.
LEMMA LevelEntered ==
  ASSUME LevelInv, NEW args \in Seq(Names),
         level' = args_to_path(Above \o Typed(args)), asked' = asked \o args
  PROVE  LevelInv'
<1> DEFINE cs == Above \o Typed(args)
<1>1. /\ Typed(args) \in Seq(Comps(Names)) /\ Len(Typed(args)) = Len(args)
      /\ \A i \in 1..Len(args) : Typed(args)[i] = [name |-> args[i], esc |-> 0]
  BY TypedType
<1>2. Above \in Seq(Comps(Names)) /\ Len(Above) = Len(asked) /\ asked \in Seq(Names)
  BY DEF LevelInv
<1>3. cs \in Seq(Comps(Names)) /\ Len(cs) = Len(asked) + Len(args)
  BY <1>1, <1>2, BelowLevel
<1>4. /\ level' \in Seq(Comps(Names)) /\ Len(level') = Len(cs)
      /\ \A i \in 1..Len(cs) : level'[i] = Escape(cs[i])
  <2> HIDE DEF cs
  <2>1. level' = args_to_path(cs)
    BY DEF cs
  <2> QED
    BY <1>3, <2>1, ReadBack
<1>5. asked' \in Seq(Names) /\ Len(asked') = Len(asked) + Len(args)
  BY <1>2
<1>6. ASSUME NEW i \in 1..Len(asked')
      PROVE  cs[i].name = asked'[i] /\ (asked'[i] \notin Special => cs[i].esc = 0)
  <2>1. CASE i \in 1..Len(asked)
    <3>1. cs[i] = Above[i] /\ asked'[i] = asked[i]
      BY <1>1, <1>2, <2>1
    <3> QED
      BY <2>1, <3>1 DEF LevelInv
  <2>2. CASE i \notin 1..Len(asked)
    <3>1. i - Len(asked) \in 1..Len(args)
      BY <1>2, <1>5, <1>6, <2>2
    <3>2. cs[i] = Typed(args)[i - Len(asked)] /\ asked'[i] = args[i - Len(asked)]
      BY <1>1, <1>2, <1>5, <1>6, <2>2
    <3>3. cs[i] = [name |-> args[i - Len(asked)], esc |-> 0]
      BY <1>1, <3>1, <3>2
    <3> QED
      BY <3>2, <3>3
  <2> QED
    BY <2>1, <2>2
<1> HIDE DEF cs
<1>7. Above' = level'
  BY <1>4, ShellAssumption DEF Above, Comps
<1>8. ASSUME NEW i \in 1..Len(asked')
      PROVE  level'[i].name = asked'[i] /\ (asked'[i] \notin Special => level'[i].esc = 0)
  <2>1. cs[i] \in Comps(Names) /\ level'[i] = Escape(cs[i])
    BY <1>3, <1>4, <1>5
  <2>2. Escape(cs[i]).name = cs[i].name /\ (cs[i].name \notin Special => Escape(cs[i]) = cs[i])
    BY <2>1, EscapeBack
  <2> QED
    BY <1>6, <2>1, <2>2
<1> QED
  BY <1>3, <1>4, <1>5, <1>7, <1>8 DEF LevelInv
-----------------------------------------------------------------------------
(* What a path means. *)

\* Below a level that the user's plain words lead to, a path is read as those
\* words and the arguments.
LEMMA ReadsBelow ==
  ASSUME LevelInv, PlainWords(asked), NEW args \in Seq(Names)
  PROVE  Read(args_to_path(Above \o Typed(args))) = Typed(asked \o args)
<1>1. /\ Typed(args) \in Seq(Comps(Names)) /\ Len(Typed(args)) = Len(args)
      /\ \A i \in 1..Len(args) : Typed(args)[i] = [name |-> args[i], esc |-> 0]
  BY TypedType
<1>2. Above \in Seq(Comps(Names)) /\ Len(Above) = Len(asked) /\ asked \in Seq(Names)
  BY DEF LevelInv
<1>3. /\ Above \o Typed(args) \in Seq(Comps(Names))
      /\ Len(Above \o Typed(args)) = Len(asked) + Len(args)
      /\ \A i \in 1..Len(asked) : (Above \o Typed(args))[i] = Above[i]
      /\ \A i \in 1..Len(args) : (Above \o Typed(args))[Len(asked) + i] = Typed(args)[i]
  BY BelowLevel
<1>4. /\ asked \o args \in Seq(Names) /\ Len(asked \o args) = Len(asked) + Len(args)
      /\ \A i \in 1..Len(asked) : (asked \o args)[i] = asked[i]
      /\ \A i \in 1..Len(args) : (asked \o args)[Len(asked) + i] = args[i]
  BY <1>2, Joined
<1> DEFINE cs == Above \o Typed(args)
           ws == asked \o args
<1>5. Read(args_to_path(cs)) = cs
  BY <1>3, ReadBack
<1>6. /\ Typed(ws) \in Seq(Comps(Names)) /\ Len(Typed(ws)) = Len(asked) + Len(args)
      /\ \A i \in 1..(Len(asked) + Len(args)) : Typed(ws)[i] = [name |-> ws[i], esc |-> 0]
  BY <1>4, TypedType
<1> HIDE DEF cs, ws
<1>7. ASSUME NEW i \in 1..(Len(asked) + Len(args)) PROVE cs[i] = Typed(ws)[i]
  <2>1. CASE i \in 1..Len(asked)
    <3>1. cs[i] = Above[i] /\ ws[i] = asked[i]
      BY <1>3, <1>4, <2>1 DEF cs, ws
    <3>2. Above[i].name = asked[i] /\ Above[i].esc = 0 /\ Above[i] \in Comps(Names)
      BY <1>2, <2>1 DEF LevelInv, PlainWords
    <3>3. Above[i] = [name |-> asked[i], esc |-> 0]
      BY <3>2 DEF Comps
    <3> QED
      BY <1>6, <3>1, <3>3
  <2>2. CASE i \notin 1..Len(asked)
    <3>1. PICK j \in 1..Len(args) : i = Len(asked) + j
      <4>1. i - Len(asked) \in 1..Len(args) /\ i = Len(asked) + (i - Len(asked))
        BY <1>2, <2>2
      <4> QED
        BY <4>1
    <3>2. cs[i] = Typed(args)[j] /\ ws[i] = args[j]
      BY <1>3, <1>4, <3>1 DEF cs, ws
    <3> QED
      BY <1>1, <1>6, <3>1, <3>2
  <2> QED
    BY <2>1, <2>2
<1>8. cs \in Seq(Comps(Names)) /\ Len(cs) = Len(asked) + Len(args)
  BY <1>3 DEF cs
<1>9. cs = Typed(ws)
  BY <1>2, <1>6, <1>7, <1>8
<1> QED
  BY <1>5, <1>9 DEF cs, ws

\* Words and components correspond.
LEMMA TypedWords ==
  ASSUME NEW S, NEW args \in Seq(S)
  PROVE  Words(Typed(args)) = args
<1>1. /\ Typed(args) \in Seq(Comps(S)) /\ Len(Typed(args)) = Len(args)
      /\ \A i \in 1..Len(args) : Typed(args)[i] = [name |-> args[i], esc |-> 0]
  BY TypedType
<1>2. DOMAIN Typed(args) = 1..Len(args)
  BY <1>1
<1>3. Words(Typed(args)) = [i \in 1..Len(args) |-> args[i]]
  BY <1>1, <1>2 DEF Words
<1> QED
  BY <1>3

\* The nodes on the way to a node with a template have one.
LEMMA PrefixesConform ==
  ASSUME NEW S, NEW p \in Seq(Comps(S)), Words(p) \in DOMAIN Kind
  PROVE  Conforms(Prefixes(p))
<1> SUFFICES ASSUME NEW k \in 0..Len(p), SubSeq(p, 1, k) # <<>>
             PROVE  Words(SubSeq(p, 1, k)) \in DOMAIN Kind
  BY DEF Conforms, Prefixes
<1>1. DOMAIN p = 1..Len(p)
  OBVIOUS
<1>2. Words(p) \in Seq(Names)
  BY ShellAssumption
<1>3. Words(p) = [i \in 1..Len(p) |-> p[i].name]
  BY <1>1 DEF Words
<1>4. Len(Words(p)) = Len(p)
  BY <1>2, <1>3
<1>5. k \in 1..Len(p)
  OBVIOUS
<1>6. /\ SubSeq(p, 1, k) \in Seq(Comps(S)) /\ Len(SubSeq(p, 1, k)) = k
      /\ \A i \in 1..k : SubSeq(p, 1, k)[i] = p[i]
  BY <1>5
<1>7. Words(SubSeq(p, 1, k)) = [i \in 1..k |-> p[i].name]
  BY <1>5, <1>6 DEF Words
<1>8. SubSeq(Words(p), 1, k) = [i \in 1..k |-> p[i].name]
  BY <1>2, <1>3, <1>4, <1>5
<1> QED
  <2>1. SubSeq(Words(p), 1, k) \in DOMAIN Kind
    BY <1>4, <1>5, ConfigAssumption
  <2> QED
    BY <1>7, <1>8, <2>1
\* What is offered below some words has a template, since configd's answers are
\* the templates' children or nodes of a configuration that has templates.
LEMMA OffersConform ==
  ASSUME StoreInv, NEW ws \in Seq(Names), NEW n \in Completions(Typed(ws))
  PROVE  ws \o <<n>> \in DOMAIN Kind
<1> DEFINE c == [name |-> n, esc |-> 0]
           child == Append(Typed(ws), c)
<1>1. n \in Names /\ (Template(child) # "none" \/ child \in AutoDb)
  BY DEF Completions, Children
<1>2. Conforms(AutoDb)
  <2>1. Conforms(Running)
    BY ConfigAssumption DEF Conforms, Words
  <2> QED
    BY <2>1 DEF AutoDb, StoreInv
<1>3. /\ Typed(ws) \in Seq(Comps(Names)) /\ Len(Typed(ws)) = Len(ws)
      /\ \A i \in 1..Len(ws) : Typed(ws)[i] = [name |-> ws[i], esc |-> 0]
  BY TypedType
<1>4. c \in Comps(Names) /\ c.name = n
  BY <1>1 DEF Comps
<1> HIDE DEF c
<1>5. /\ child \in Seq(Comps(Names)) /\ Len(child) = Len(ws) + 1 /\ child # <<>>
      /\ \A i \in 1..Len(ws) : child[i] = Typed(ws)[i]
      /\ child[Len(ws) + 1] = c
  <2> DEFINE S == Comps(Names)
             t == Typed(ws)
  <2>1. t \in Seq(S) /\ Len(t) = Len(ws) /\ c \in S
    BY <1>3, <1>4
  <2> HIDE DEF S, t
  <2>2. /\ Append(t, c) \in Seq(S) /\ Len(Append(t, c)) = Len(t) + 1
        /\ \A i \in 1..Len(t) : Append(t, c)[i] = t[i]
        /\ Append(t, c)[Len(t) + 1] = c
    BY <2>1
  <2>3. Append(t, c) # <<>>
    <3>1. Len(Append(t, c)) # 0 /\ Len(<<>>) = 0
      BY <2>1, <2>2
    <3> QED
      BY <3>1, Zenon
  <2> QED
    BY <2>1, <2>2, <2>3 DEF child, S, t
<1> HIDE DEF child
<1>6. Words(child) \in DOMAIN Kind
  BY <1>1, <1>2, <1>5 DEF Conforms, Template
<1>7. Words(child) = [i \in 1..(Len(ws) + 1) |-> child[i].name]
  BY <1>5 DEF Words
<1>8. \A i \in 1..(Len(ws) + 1) : child[i].name = (ws \o <<n>>)[i]
  <2>1. /\ \A i \in 1..Len(ws) : (ws \o <<n>>)[i] = ws[i]
        /\ (ws \o <<n>>)[Len(ws) + 1] = n
    BY <1>1
  <2>2. ASSUME NEW i \in 1..Len(ws) PROVE child[i].name = ws[i]
    <3>1. child[i] = [name |-> ws[i], esc |-> 0]
      BY <1>3, <1>5
    <3> QED
      BY <3>1
  <2>3. \A i \in 1..(Len(ws) + 1) : i \in 1..Len(ws) \/ i = Len(ws) + 1
    OBVIOUS
  <2> QED
    BY <1>4, <1>5, <2>1, <2>2, <2>3
<1>9. ws \o <<n>> = [i \in 1..(Len(ws) + 1) |-> (ws \o <<n>>)[i]]
  BY <1>1
<1>10. Words(child) = ws \o <<n>>
  BY <1>7, <1>8, <1>9
<1> QED
  BY <1>6, <1>10

\* getEditEnv, from the template on.
LEMMA EditTemplateStep ==
  ASSUME ShellInv, NEW args \in ArgLists, EditTemplate(args)
  PROVE  ShellInv'
<1> DEFINE path == CallPath("getEditEnv", args)
<1>1. LevelInv' /\ StoreInv'
  BY LevelKept DEF EditTemplate, env, store, ShellInv, StoreInv
<1>2. args \in Seq(Names)
  BY ShellAssumption
<1>3. path = args_to_path(Above \o Typed(args))
  BY <1>2, LevelFirst DEF ShellInv, LevelInv
<1>4. path \in Seq(Comps(Names))
  BY <1>2, <1>3, BelowLevel, ReadBack DEF ShellInv
<1> HIDE DEF path
<1>5. CASE /\ Editable(Read(path))
           /\ proc' = [NoProc EXCEPT !.pc = "exists", !.op = "getEditEnv", !.args = args,
                                     !.path = path]
           /\ UNCHANGED last
  <2>1. path \in Seq(Comps(Names \cup {NoName}))
    BY <1>4, SeqGrows DEF Comps
  <2>2. /\ proc' \in Procs /\ proc'.pc = "exists" /\ proc'.op = "getEditEnv"
        /\ proc'.args = args /\ proc'.path = path
    BY <1>2, <1>5, <2>1 DEF NoProc, Procs, OpNames
  <2>3. Words(Read(path)) \in DOMAIN Kind
    BY <1>5 DEF Editable, Template
  <2>4. Above' = Above /\ asked' = asked
    BY DEF EditTemplate, env, Above
  <2>5. ProcInv'
    BY <1>3, <2>2, <2>3, <2>4 DEF ProcInv
  <2>6. EditedExists' /\ QueriesUseLevel' /\ CompletesBelow'
    BY <1>5, <2>4 DEF ShellInv, EditedExists, Edited, QueriesUseLevel, CompletesBelow
  <2> QED
    BY <1>1, <2>5, <2>6 DEF ShellInv
<1>6. CASE Ended("fail")
  BY <1>1, <1>6, EndedIsQuiet DEF ShellInv
<1> QED
  BY <1>5, <1>6 DEF EditTemplate, path

\* The end of getEditEnv with the level entered or kept; it is entered only when
\* the node was seen.
LEMMA EditEnds ==
  ASSUME ShellInv, proc.pc \in {"exists", "set"}, StoreInv',
         NEW exit, NEW seen, Ends(exit, seen),
         \/ EnterLevel /\ seen
         \/ UNCHANGED <<level, asked>> /\ exit = "fail"
  PROVE  ShellInv'
<1>1. proc.op = "getEditEnv" /\ proc.args \in Seq(Names)
      /\ proc.path = args_to_path(Above \o Typed(proc.args))
  BY DEF ShellInv, ProcInv, Procs
<1>2. LevelInv'
  BY <1>1, LevelKept, LevelEntered DEF ShellInv, EnterLevel
<1>3. proc' = NoProc /\ last'.op = "getEditEnv" /\ last'.exit = exit /\ last'.seen = seen
  BY <1>1 DEF Ends, NoLast
<1>4. ProcInv'
  BY <1>3, NoProcType DEF ProcInv
<1>5. EditedExists'
  BY <1>3 DEF EditedExists, Edited
<1>6. QueriesUseLevel' /\ CompletesBelow'
  BY <1>3 DEF QueriesUseLevel, CompletesBelow, LevelQueries
<1> QED
  BY <1>2, <1>4, <1>5, <1>6 DEF ShellInv

LEMMA EditExistsStep == ASSUME ShellInv, EditExists PROVE ShellInv'
<1>1. proc.pc = "exists" /\ UNCHANGED store
  BY DEF EditExists
<1>2. StoreInv'
  BY <1>1 DEF ShellInv, StoreInv, store
<1>3. PICK answer \in {IF Read(proc.path) \in AutoDb THEN 1 ELSE 0, 2} :
       \/ /\ SaysYes(answer)
          /\ EnterLevel
          /\ Ends("ok", Read(proc.path) \in AutoDb)
       \/ /\ ~SaysYes(answer)
          /\ proc' = [proc EXCEPT !.pc = "set"]
          /\ UNCHANGED <<level, asked, last>>
  BY DEF EditExists
<1>4. CASE SaysYes(answer) /\ EnterLevel /\ Ends("ok", Read(proc.path) \in AutoDb)
  <2>1. Read(proc.path) \in AutoDb
    BY <1>3, <1>4 DEF SaysYes
  <2> QED
    BY <1>1, <1>2, <1>4, <2>1, EditEnds
<1>5. CASE proc' = [proc EXCEPT !.pc = "set"] /\ UNCHANGED <<level, asked, last>>
  <2>1. LevelInv' /\ Above' = Above
    BY <1>5, LevelKept DEF ShellInv, Above
  <2>2. /\ proc' \in Procs /\ proc'.pc = "set" /\ proc'.op = proc.op
        /\ proc'.args = proc.args /\ proc'.path = proc.path
    BY <1>5 DEF ShellInv, ProcInv, Procs
  <2>3. ProcInv'
    BY <1>1, <2>1, <2>2 DEF ShellInv, ProcInv
  <2>4. EditedExists' /\ QueriesUseLevel' /\ CompletesBelow'
    BY <1>5 DEF ShellInv, EditedExists, Edited, QueriesUseLevel, CompletesBelow
  <2> QED
    BY <1>2, <2>1, <2>3, <2>4 DEF ShellInv
<1> QED
  BY <1>3, <1>4, <1>5

LEMMA EditSetStep == ASSUME ShellInv, EditSet PROVE ShellInv'
<1>1. proc.pc = "set" /\ UNCHANGED in_session
  BY DEF EditSet
<1>2. Conforms(Prefixes(Read(proc.path)))
  <2>1. /\ proc.args \in Seq(Names) /\ Words(Read(proc.path)) \in DOMAIN Kind
        /\ proc.path = args_to_path(Above \o Typed(proc.args))
    BY <1>1 DEF ShellInv, ProcInv, Procs
  <2>2. Above \o Typed(proc.args) \in Seq(Comps(Names))
    BY <2>1, BelowLevel DEF ShellInv
  <2>3. Read(proc.path) \in Seq(Comps(Names))
    BY <2>1, <2>2, ReadBack
  <2> QED
    BY <2>1, <2>3, PrefixesConform
<1>3. CASE /\ candidate' = candidate \cup Prefixes(Read(proc.path))
           /\ \/ EnterLevel /\ Ends("ok", TRUE)
              \/ UNCHANGED <<level, asked>> /\ Ends("fail", TRUE)
  <2>1. StoreInv'
    BY <1>1, <1>2, <1>3 DEF ShellInv, StoreInv, Conforms
  <2> QED
    BY <1>1, <1>3, <2>1, EditEnds
<1>4. CASE UNCHANGED <<candidate, level, asked>> /\ Ends("fail", FALSE)
  <2>1. StoreInv'
    BY <1>1, <1>4 DEF ShellInv, StoreInv
  <2> QED
    BY <1>1, <1>4, <2>1, EditEnds
<1> QED
  BY <1>3, <1>4 DEF EditSet
-----------------------------------------------------------------------------
(* Completion. *)

LEMMA CompleteTemplateStep ==
  ASSUME ShellInv, NEW cmd \in Commands, NEW args \in ArgLists, NEW typed \in LastWords,
         CompleteTemplate(cmd, args, typed)
  PROVE  ShellInv'
<1> DEFINE pcomps == Pcomps(CallPath("getCompletionEnv", <<cmd>> \o args \o <<typed>>))
           next == IF pcomps # <<>> /\ cmd \in ExistsOnly THEN "below" ELSE "help"
<1>1. LevelInv' /\ StoreInv'
  BY LevelKept DEF CompleteTemplate, env, store, ShellInv, StoreInv
<1>2. args \in Seq(Names)
  BY ShellAssumption
<1>3. pcomps = args_to_path(Above \o Typed(args))
  BY <1>2, CompletionPath DEF ShellInv, LevelInv
<1>4. pcomps \in Seq(Comps(Names))
  BY <1>2, <1>3, BelowLevel, ReadBack DEF ShellInv
<1>5. \/ /\ proc' = [pc |-> next, op |-> "getCompletionEnv", args |-> args,
                     path |-> pcomps, cmd |-> cmd, typed |-> typed]
         /\ UNCHANGED last
      \/ Ended("fail")
  BY DEF CompleteTemplate
<1> HIDE DEF pcomps
<1>6. CASE /\ proc' = [pc |-> next, op |-> "getCompletionEnv", args |-> args,
                       path |-> pcomps, cmd |-> cmd, typed |-> typed]
           /\ UNCHANGED last
  <2>1. pcomps \in Seq(Comps(Names \cup {NoName}))
    BY <1>4, SeqGrows DEF Comps
  <2>2. /\ proc' \in Procs /\ proc'.pc \in {"below", "help"} /\ proc'.op = "getCompletionEnv"
        /\ proc'.args = args /\ proc'.path = pcomps
        /\ ~(proc'.pc = "help" /\ proc'.cmd \in ExistsOnly /\ proc'.path # <<>>)
    BY <1>2, <1>6, <2>1 DEF Procs, OpNames
  <2>3. Above' = Above /\ asked' = asked
    BY DEF CompleteTemplate, env, Above
  <2>4. ProcInv'
    BY <1>3, <2>2, <2>3 DEF ProcInv
  <2>5. EditedExists' /\ QueriesUseLevel' /\ CompletesBelow'
    BY <1>6, <2>3 DEF ShellInv, EditedExists, Edited, QueriesUseLevel, CompletesBelow
  <2> QED
    BY <1>1, <2>4, <2>5 DEF ShellInv
<1>7. CASE Ended("fail")
  BY <1>1, <1>7, EndedIsQuiet DEF ShellInv
<1> QED
  BY <1>5, <1>6, <1>7

LEMMA CompleteExistsStep == ASSUME ShellInv, CompleteExists PROVE ShellInv'
<1>1. proc.pc = "below" /\ UNCHANGED <<env, store>>
  BY DEF CompleteExists
<1>2. LevelInv' /\ StoreInv' /\ Above' = Above
  BY <1>1, LevelKept DEF ShellInv, StoreInv, env, store, Above
<1>3. PICK answer \in {IF Read(proc.path) \in candidate THEN 1 ELSE 0, 2} :
       \/ /\ SaysYes(answer)
          /\ proc' = [proc EXCEPT !.pc = "help"]
          /\ last' = [NoLast EXCEPT !.seen = Read(proc.path) \in candidate]
       \/ ~SaysYes(answer) /\ Ended("fail")
  BY DEF CompleteExists
<1>4. CASE /\ SaysYes(answer)
           /\ proc' = [proc EXCEPT !.pc = "help"]
           /\ last' = [NoLast EXCEPT !.seen = Read(proc.path) \in candidate]
  <2>1. Read(proc.path) \in candidate
    BY <1>3, <1>4 DEF SaysYes
  <2>2. last'.op = "" /\ last'.seen
    BY <1>4, <2>1 DEF NoLast
  <2>3. /\ proc' \in Procs /\ proc'.pc = "help" /\ proc'.op = proc.op
        /\ proc'.args = proc.args /\ proc'.path = proc.path
    BY <1>4 DEF ShellInv, ProcInv, Procs
  <2>4. ProcInv'
    BY <1>1, <1>2, <2>2, <2>3 DEF ShellInv, ProcInv
  <2>5. EditedExists' /\ QueriesUseLevel' /\ CompletesBelow'
    BY <2>2 DEF EditedExists, Edited, QueriesUseLevel, CompletesBelow, LevelQueries
  <2> QED
    BY <1>2, <2>4, <2>5 DEF ShellInv
<1>5. CASE Ended("fail")
  BY <1>2, <1>5, EndedIsQuiet DEF ShellInv
<1> QED
  BY <1>3, <1>4, <1>5

\* What is offered follows the words the user has typed.
LEMMA CompleteHelpStep == ASSUME ShellInv, CompleteHelp PROVE ShellInv'
<1> DEFINE here == Read(proc.path)
<1>1. proc.pc = "help" /\ UNCHANGED <<env, store>>
  BY DEF CompleteHelp
<1>2. LevelInv' /\ StoreInv' /\ asked' = asked
  BY <1>1, LevelKept DEF ShellInv, StoreInv, env, store
<1>3. /\ proc.op = "getCompletionEnv" /\ proc.args \in Seq(Names)
      /\ proc.path = args_to_path(Above \o Typed(proc.args))
      /\ proc.cmd \in ExistsOnly /\ proc.path # <<>> => last.seen
  BY <1>1 DEF ShellInv, ProcInv, Procs
<1>4. proc.path = <<>> => here = <<>>
  BY DEF Read
<1>5. CASE /\ proc' = NoProc
           /\ last' = [NoLast EXCEPT !.op = proc.op, !.args = proc.args, !.path = here,
                !.cmd = proc.cmd, !.seen = last.seen, !.offered = Completions(here)]
  <2>1. /\ last'.op = "getCompletionEnv" /\ last'.args = proc.args /\ last'.path = here
        /\ last'.cmd = proc.cmd /\ last'.seen = last.seen /\ last'.offered = Completions(here)
    BY <1>3, <1>5 DEF NoLast
  <2>2. ProcInv'
    BY <1>5, NoProcType DEF ProcInv
  <2>3. EditedExists' /\ QueriesUseLevel'
    BY <2>1 DEF EditedExists, Edited, QueriesUseLevel, LevelQueries
  <2>4. CompletesBelow'
    <3> SUFFICES ASSUME PlainWords(asked \o proc.args)
                 PROVE  /\ \A n \in Completions(here) : asked \o proc.args \o <<n>> \in DOMAIN Kind
                        /\ here = Typed(asked \o proc.args)
                        /\ proc.cmd \in ExistsOnly /\ here # <<>> => last.seen
      BY <1>2, <2>1 DEF CompletesBelow
    <3>1. asked \in Seq(Names)
      BY DEF ShellInv, LevelInv
    <3>2. PlainWords(asked) /\ asked \o proc.args \in Seq(Names)
      <4>1. \A i \in 1..Len(asked) : i \in DOMAIN (asked \o proc.args)
                                     /\ (asked \o proc.args)[i] = asked[i]
        BY <1>3, <3>1
      <4>2. DOMAIN asked = 1..Len(asked)
        BY <3>1
      <4> QED
        BY <1>3, <3>1, <4>1, <4>2 DEF PlainWords
    <3>3. here = Typed(asked \o proc.args)
      BY <1>3, <3>2, ReadsBelow DEF ShellInv
    <3>4. \A n \in Completions(here) : asked \o proc.args \o <<n>> \in DOMAIN Kind
      BY <3>2, <3>3, OffersConform DEF ShellInv
    <3> QED
      BY <1>3, <1>4, <3>3, <3>4
  <2> QED
    BY <1>2, <2>2, <2>3, <2>4 DEF ShellInv
<1>6. CASE Ended("fail")
  BY <1>2, <1>6, EndedIsQuiet DEF ShellInv
<1> QED
  BY <1>5, <1>6 DEF CompleteHelp
-----------------------------------------------------------------------------
(* The other operations. *)

\* Without its last component, a prefix is a prefix.
LEMMA FrontOf ==
  ASSUME NEW S, NEW s \in Seq(S), NEW k \in 0..Len(s)
  PROVE  \E j \in 0..k : Front(SubSeq(s, 1, k)) = SubSeq(s, 1, j)
<1> DEFINE t == SubSeq(s, 1, k)
<1>1. t \in Seq(S) /\ Len(t) = k /\ \A i \in 1..k : t[i] = s[i]
  OBVIOUS
<1>2. CASE k = 0
  <2>1. SubSeq(s, 1, 0) = <<>> /\ t = <<>>
    BY <1>2
  <2>2. Front(t) = <<>>
    BY <1>1, <1>2 DEF Front
  <2> HIDE DEF t
  <2>3. Front(t) = SubSeq(s, 1, 0)
    BY <2>1, <2>2, Zenon
  <2>4. 0 \in 0..k
    OBVIOUS
  <2> QED
    BY <2>3, <2>4, Zenon DEF t
<1>3. CASE k # 0
  <2>1. k - 1 \in 0..k /\ Front(t) = SubSeq(t, 1, k - 1)
    BY <1>1, <1>3 DEF Front
  <2>2. SubSeq(t, 1, k - 1) = [i \in 1..(k - 1) |-> t[i]]
    BY <1>1, <1>3
  <2>3. SubSeq(s, 1, k - 1) = [i \in 1..(k - 1) |-> s[i]]
    BY <1>3
  <2>4. \A i \in 1..(k - 1) : t[i] = s[i]
    BY <1>1
  <2> HIDE DEF t
  <2>5. SubSeq(t, 1, k - 1) = SubSeq(s, 1, k - 1)
    BY <2>2, <2>3, <2>4
  <2> QED
    BY <2>1, <2>5 DEF t
<1> QED
  BY <1>2, <1>3

LEMMA QueryStep ==
  ASSUME ShellInv, NEW op \in Queries, NEW args \in ArgLists, Query(op, args)
  PROVE  ShellInv'
<1>1. LevelInv' /\ StoreInv' /\ asked' = asked
  BY LevelKept DEF Query, env, store, ShellInv, StoreInv
<1>2. args \in Seq(Names)
  BY ShellAssumption
<1>3. CASE op \notin LevelQueries
  <2>1. proc' = NoProc /\ last'.op = ""
    BY <1>3 DEF Query, NoLast
  <2> QED
    BY <1>1, <2>1, QuietEnd DEF ShellInv, LevelQueries
<1>4. CASE op \in LevelQueries
  <2>1. /\ proc' = NoProc /\ last'.op = op /\ last'.args = args
        /\ last'.path = Read(CallPath(op, args))
    BY <1>4 DEF Query, NoLast
  <2>2. CallPath(op, args) = args_to_path(Above \o Typed(args))
    BY <1>2, <1>4, LevelFirst DEF ShellInv, LevelInv
  <2>3. PlainWords(asked) => last'.path = Typed(asked \o args)
    BY <1>2, <2>1, <2>2, ReadsBelow DEF ShellInv
  <2>4. QueriesUseLevel'
    BY <1>1, <2>1, <2>3 DEF QueriesUseLevel
  <2>5. EditedExists' /\ CompletesBelow'
    BY <1>4, <2>1 DEF EditedExists, Edited, CompletesBelow, LevelQueries
  <2>6. ProcInv'
    BY <2>1, NoProcType DEF ProcInv
  <2> QED
    BY <1>1, <2>4, <2>5, <2>6 DEF ShellInv
<1> QED
  BY <1>3, <1>4

\* up: the words that are dropped are those of the components that are.
LEMMA UpStep == ASSUME ShellInv, GetEditUpEnv PROVE ShellInv'
<1>1. StoreInv'
  BY DEF GetEditUpEnv, store, ShellInv, StoreInv
<1>2. CASE /\ AtLevel
           /\ \E lost \in BOOLEAN :
                LET said == IF lost THEN "none"
                            ELSE Template(Read(argz_stringify(Front(level)))) IN
                /\ level' = UpTo(said)
                /\ asked' = SubSeq(asked, 1, Len(UpTo(said)))
                /\ proc' = NoProc
                /\ last' = [NoLast EXCEPT !.op = "getEditUpEnv", !.from = level, !.lost = lost]
  <2>1. PICK said : /\ level' = UpTo(said)
                    /\ asked' = SubSeq(asked, 1, Len(UpTo(said)))
    BY <1>2
  <2>2. level # Unset /\ level \in Seq(Comps(Names)) /\ Len(level) \in Nat
    BY <1>2 DEF AtLevel, ShellInv, LevelInv, Above
  <2>3. \E k \in 0..Len(level) : UpTo(said) = SubSeq(level, 1, k) /\ Len(UpTo(said)) = k
    <3>1. SubSeq(level, 1, Len(level)) = level
      BY <2>2
    <3>2. PICK k \in 0..Len(level) : Front(level) = SubSeq(level, 1, k)
      <4>1. Len(level) \in 0..Len(level)
        BY <2>2
      <4>2. \E k \in 0..Len(level) : Front(SubSeq(level, 1, Len(level))) = SubSeq(level, 1, k)
        BY <2>2, <4>1, FrontOf
      <4> QED
        BY <3>1, <4>2
    <3>3. PICK j \in 0..k : Front(Front(level)) = SubSeq(level, 1, j)
      BY <2>2, <3>2, FrontOf
    <3>4. Len(SubSeq(level, 1, k)) = k /\ Len(SubSeq(level, 1, j)) = j /\ j \in 0..Len(level)
      BY <2>2
    <3> QED
      BY <3>2, <3>3, <3>4 DEF UpTo
  <2>4. PICK k \in 0..Len(level) : level' = SubSeq(level, 1, k) /\ asked' = SubSeq(asked, 1, k)
    BY <2>1, <2>3
  <2>5. LevelInv'
    BY <2>2, <2>4, LevelUp DEF ShellInv
  <2>6. proc' = NoProc /\ last'.op = "getEditUpEnv"
    BY <1>2 DEF NoLast
  <2> QED
    BY <1>1, <2>5, <2>6, QuietEnd DEF ShellInv, LevelQueries
<1>3. CASE Ended("fail") /\ UNCHANGED <<level, asked>>
  BY <1>1, <1>3, LevelKept, EndedIsQuiet DEF ShellInv
<1> QED
  BY <1>2, <1>3 DEF GetEditUpEnv

LEMMA ShowAsksStep ==
  ASSUME ShellInv, NEW op \in ShowOps, NEW args \in ArgLists, ShowAsks(op, args)
  PROVE  ShellInv'
<1> DEFINE S == Names \cup {NoName}
<1>1. LevelInv' /\ StoreInv' /\ asked' = asked
  BY LevelKept DEF ShowAsks, env, store, ShellInv, StoreInv
<1>2. args \in Seq(S)
  BY ShellAssumption, SeqGrows
<1>3. Typed(args) \in Seq(Comps(S))
  BY <1>2, TypedType
<1>4. Components(op, args) = Typed(args)
  <2>1. ops[op].edit = FALSE
    BY DEF ops, OpNames, Queries, LevelQueries, LoadOps, ShowOps, Row
  <2> QED
    BY <2>1 DEF Components
<1>5. argz_stringify(Typed(args)) \in Seq(Comps(S))
  <2>1. [name |-> NoName, esc |-> 0] \in Comps(S)
    BY DEF Comps
  <2> QED
    <3>1. <<[name |-> NoName, esc |-> 0]>> \in Seq(Comps(S))
      BY <2>1
    <3> QED
      BY <1>3, <3>1 DEF argz_stringify
<1>6. args_to_path(Typed(args)) \in Seq(Comps(S))
  BY <1>3, ReadBack
<1>7. CallPath(op, args) \in Seq(Comps(S))
  BY <1>4, <1>5, <1>6 DEF CallPath
<1>8. /\ proc' \in Procs /\ proc'.pc \in {"running", "candidate"}
  <2>1. PICK pc \in {"running", "candidate"} :
          proc' = [NoProc EXCEPT !.pc = pc, !.op = op, !.path = CallPath(op, args)]
    BY DEF ShowAsks
  <2>2. op \in OpNames
    BY DEF OpNames
  <2> QED
    BY <1>7, <2>1, <2>2, NoProcType DEF Procs
<1>9. ProcInv'
  BY <1>8 DEF ProcInv
<1>10. EditedExists' /\ QueriesUseLevel' /\ CompletesBelow'
  <2>1. last' = last
    BY DEF ShowAsks
  <2> QED
    BY <1>1, <2>1 DEF ShellInv, EditedExists, Edited, QueriesUseLevel, CompletesBelow
<1> QED
  BY <1>1, <1>9, <1>10 DEF ShellInv

\* Another program changes the configuration only.
LEMMA OtherStep ==
  ASSUME ShellInv, StoreInv', UNCHANGED <<env, proc, last>>
  PROVE  ShellInv'
<1>1. LevelInv' /\ asked' = asked /\ Above' = Above
  BY LevelKept DEF ShellInv, env, Above
<1>2. ProcInv'
  BY <1>1 DEF ShellInv, ProcInv
<1>3. EditedExists' /\ QueriesUseLevel' /\ CompletesBelow'
  BY <1>1 DEF ShellInv, EditedExists, Edited, QueriesUseLevel, CompletesBelow
<1> QED
  BY <1>1, <1>2, <1>3 DEF ShellInv

\* A process that ends without a word leaves the environment as it is.
LEMMA EndedStep ==
  ASSUME ShellInv, NEW exit, Ended(exit), UNCHANGED env, StoreInv'
  PROVE  ShellInv'
<1>1. LevelInv'
  BY LevelKept DEF ShellInv, env
<1> QED
  BY <1>1, EndedIsQuiet DEF ShellInv

\* Every step preserves the invariant.
LEMMA ShellStep == ShellInv /\ [Next]_vars => ShellInv'
<1> SUFFICES ASSUME ShellInv, [Next]_vars
             PROVE  ShellInv'
  OBVIOUS
<1>s. StoreInv /\ (UNCHANGED store => StoreInv')
  BY DEF ShellInv, StoreInv, store
<1>r. Conforms(Running) /\ Conforms(FileNodes) /\ Conforms({})
  BY ConfigAssumption DEF Conforms, Words
<1>1. CASE HookDir
  BY <1>1, <1>s, EndedStep DEF HookDir
<1>2. CASE Setup
  <2>1. StoreInv'
    BY <1>2, <1>s, <1>r DEF Setup, StoreInv
  <2> QED
    BY <1>2, <2>1, EndedStep DEF Setup, Answered
<1>3. CASE Teardown
  <2>1. StoreInv'
    BY <1>3, <1>s, <1>r DEF Teardown, StoreInv
  <2> QED
    BY <1>3, <2>1, EndedStep DEF Teardown, Answered
<1>4. CASE GetEditResetEnv
  BY <1>4, <1>s, LevelAtRoot, EndedIsQuiet DEF GetEditResetEnv, ShellInv
<1>5. CASE EditLevelAtRoot
  BY <1>5, <1>s, EndedStep DEF EditLevelAtRoot
<1>6. CASE GetEditLevelStr
  BY <1>6, <1>s, EndedStep DEF GetEditLevelStr
<1>7. CASE GetEditUpEnv \/ EditExists \/ EditSet \/ CompleteExists \/ CompleteHelp
  BY <1>7, UpStep, EditExistsStep, EditSetStep, CompleteExistsStep, CompleteHelpStep
<1>8. CASE Show
  BY <1>8, <1>s, EndedStep DEF Show
<1>9. CASE OtherTearsDown
  <2>1. StoreInv'
    BY <1>9, <1>r DEF OtherTearsDown, StoreInv
  <2> QED
    BY <1>9, <2>1, OtherStep DEF OtherTearsDown
<1>10. ASSUME NEW args \in ArgLists, GetSessionEnv(args) PROVE ShellInv'
  <2>1. StoreInv'
    BY <1>10, <1>s, <1>r DEF GetSessionEnv, StoreInv
  <2> QED
    BY <1>10, <2>1, LevelAtRoot, EndedIsQuiet DEF GetSessionEnv, ShellInv
<1>11. ASSUME NEW args \in ArgLists, EditTemplate(args) PROVE ShellInv'
  BY <1>11, EditTemplateStep
<1>12. ASSUME NEW args \in ArgLists, NEW op \in OpNames, Refused(op, args) \/ Crash(op, args)
       PROVE  ShellInv'
  BY <1>12, <1>s, EndedStep DEF Refused, Crash
<1>13. ASSUME NEW args \in ArgLists, NEW op \in Queries, Query(op, args) PROVE ShellInv'
  BY <1>13, QueryStep
<1>14. ASSUME NEW args \in ArgLists, NEW op \in LoadOps, LoadFile(op, args) PROVE ShellInv'
  <2>1. in_session' = in_session /\ candidate' \in {candidate, candidate \cup FileNodes, FileNodes}
    BY <1>14 DEF LoadFile, Loaded
  <2>2. StoreInv'
    BY <2>1, <1>s, <1>r DEF StoreInv, Conforms
  <2> QED
    BY <1>14, <2>2, EndedStep DEF LoadFile, Answered
<1>15. ASSUME NEW args \in ArgLists, NEW op \in ShowOps, ShowAsks(op, args) PROVE ShellInv'
  BY <1>15, ShowAsksStep
<1>16. ASSUME NEW args \in ArgLists, NEW cmd \in Commands, NEW typed \in LastWords,
              CompleteTemplate(cmd, args, typed)
       PROVE  ShellInv'
  BY <1>16, CompleteTemplateStep
<1>17. ASSUME NEW p \in OtherPaths, OtherSets(p) PROVE ShellInv'
  <2>1. p \in DOMAIN Kind /\ p \in Seq(Names)
    BY ShellAssumption
  <2>2. Conforms(Prefixes(Typed(p)))
    BY <2>1, TypedType, TypedWords, PrefixesConform
  <2>3. StoreInv'
    BY <1>17, <1>s, <2>2 DEF OtherSets, StoreInv, Conforms
  <2> QED
    BY <1>17, <2>3, OtherStep DEF OtherSets
<1>18. ASSUME NEW p \in OtherPaths, OtherDeletes(p) PROVE ShellInv'
  <2>1. StoreInv'
    BY <1>18, <1>s DEF OtherDeletes, StoreInv, Conforms
  <2> QED
    BY <1>18, <2>1, OtherStep DEF OtherDeletes
<1>19. CASE UNCHANGED vars
  BY <1>19, <1>s, OtherStep DEF vars, env, store
<1> QED
  BY <1>1, <1>2, <1>3, <1>4, <1>5, <1>6, <1>7, <1>8, <1>9, <1>10, <1>11, <1>12, <1>13,
     <1>14, <1>15, <1>16, <1>17, <1>18, <1>19 DEF Next

\* The invariant holds in every reachable state.
LEMMA ShellInvariant == Spec => []ShellInv
<1>1. Init => ShellInv
  <2> SUFFICES ASSUME Init PROVE ShellInv
    OBVIOUS
  <2>1. Above = <<>> /\ asked = <<>>
    BY DEF Init, Above
  <2>2. LevelInv
    BY <2>1 DEF LevelInv
  <2>3. StoreInv
    BY ConfigAssumption DEF Init, StoreInv, Conforms, Words
  <2>4. ProcInv
    BY NoProcType DEF Init, ProcInv
  <2>5. last.op = ""
    BY DEF Init, NoLast
  <2>6. EditedExists /\ QueriesUseLevel /\ CompletesBelow
    BY <2>5 DEF EditedExists, Edited, QueriesUseLevel, CompletesBelow, LevelQueries
  <2> QED
    BY <2>2, <2>3, <2>4, <2>6 DEF ShellInv
<1>2. ShellInv /\ [Next]_vars => ShellInv'
  BY ShellStep
<1> QED
  BY <1>1, <1>2, PTL DEF Spec

\* An edit that succeeded was at a node the session had while configd_edit_get_env
\* ran, whatever other programs do between its three requests.
THEOREM EditedNodeExists == Spec => []EditedExists
<1>1. ShellInv => EditedExists
  BY DEF ShellInv
<1> QED
  BY <1>1, ShellInvariant, PTL

\* Relative edits and ups compose: VYATTA_EDIT_LEVEL is where the user's words
\* lead, for any sequence of edits of words that need no escape.
THEOREM LevelIsAsked == Spec => []LevelMeansAsked
<1>1. ShellInv => LevelMeansAsked
  <2> SUFFICES ASSUME LevelInv, level # Unset, PlainWords(asked)
               PROVE  Read(level) = Typed(asked)
    BY DEF ShellInv, LevelMeansAsked
  <2>1. /\ Above = level /\ asked \in Seq(Names) /\ level \in Seq(Comps(Names))
        /\ Len(level) = Len(asked)
    BY DEF Above, LevelInv
  <2>2. DOMAIN level = 1..Len(asked) /\ DOMAIN asked = 1..Len(asked)
    BY <2>1
  <2>3. ASSUME NEW i \in 1..Len(asked)
        PROVE  Unescape(level[i]) = [name |-> asked[i], esc |-> 0]
    <3>1. /\ level[i] \in Comps(Names) /\ level[i].name = asked[i] /\ level[i].esc = 0
          /\ asked[i] \notin Special
      BY <2>1, <2>2 DEF LevelInv, PlainWords
    <3>2. Unescape(level[i]) = level[i]
      BY <3>1, Zenon DEF Unescape
    <3> QED
      BY <3>1, <3>2 DEF Comps
  <2> QED
    BY <2>2, <2>3 DEF Read, Typed
<1> QED
  BY <1>1, ShellInvariant, PTL

\* A question that is relative to the level is about the node below it, for every
\* arguments, those that are escaped included.
THEOREM QueriesAreBelow == Spec => []QueriesUseLevel
<1>1. ShellInv => QueriesUseLevel
  BY DEF ShellInv
<1> QED
  BY <1>1, ShellInvariant, PTL

\* Completion offers only what a template allows below the user's words, and for
\* a command on existing nodes only below a node the session was seen to have.
THEOREM CompletionIsBelow == Spec => []CompletesBelow
<1>1. ShellInv => CompletesBelow
  BY DEF ShellInv
<1> QED
  BY <1>1, ShellInvariant, PTL
=============================================================================
