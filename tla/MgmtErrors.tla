----------------------------- MODULE MgmtErrors -----------------------------
(***************************************************************************)
(* process_errlist_array: the management errors of a reply, entry by       *)
(* entry, down to the blocks of memory each of them takes, and what is     *)
(* given back when one of them is bad.                                     *)
(*                                                                         *)
(* An entry may be no object, may lack the message (every other field is   *)
(* optional too and is treated like it), and may have an error-info, which *)
(* may hold something that is not a string.                                *)
(***************************************************************************)
EXTENDS Integers, Sequences

Entries == [object : BOOLEAN, message : BOOLEAN, info : {"none", "map", "bad"}]

\* A block by its use and the entry it belongs to, and the array of entries.
Block(use, i) == <<use, i>>
Array == Block("array", 0)

\* What configd_mgmt_error_free releases of an entry, and the entry.
Blocks(i, entry) ==
  {Block("entry", i), Block("strings", i)}
  \cup (IF entry.info = "map" THEN {Block("info", i)} ELSE {})

\* What mgmt_err_list_free releases of a list of so many entries.
ListBlocks(entries, count) == {Array} \cup UNION {Blocks(i, entries[i]) : i \in 1..count}

\* The array is allocated; fields is the entry whose map it points to, 0 is
\* NULL; sound, that no block has been released twice.
Start == [at |-> "loop", heap |-> {Array}, count |-> 0, fields |-> 0, sound |-> TRUE]

Release(s, blocks) ==
  [s EXCEPT !.heap = @ \ blocks, !.sound = @ /\ blocks \subseteq s.heap]

\* Mutant: only the array is released.
UnwindArray(s, entries) == [Release(s, {Array}) EXCEPT !.at = "error"]

\* error: the map of the bad entry, if there is one, the entries before it and
\* the array.
Unwind(s, entries) ==
  [Release(s, ListBlocks(entries, s.count)
              \cup (IF s.fields = 0 THEN {} ELSE {Block("fields", s.fields)}))
   EXCEPT !.at = "error", !.count = 0]

\* The new entry copies its strings from the fields and takes over the
\* error-info.
configd_mgmt_error_set_from_maps(s, i, entries) ==
  [s EXCEPT !.heap = @ \cup Blocks(i, entries[i]), !.count = @ + 1]

\* One entry: its fields, its error-info, the entry itself, and the fields
\* released.
Decode(s, i, entries) ==
  LET read  == [s EXCEPT !.fields = i, !.heap = @ \cup {Block("fields", i)}]
      taken == configd_mgmt_error_set_from_maps(read, i, entries)
  IN  CASE s.at = "error" -> s
        [] s.at = "loop" /\ ~entries[i].object -> Unwind(s, entries)
        [] s.at = "loop" /\ entries[i].object /\ entries[i].info = "bad" -> Unwind(read, entries)
        [] OTHER -> [Release(taken, {Block("fields", i)}) EXCEPT !.fields = 0]

process_errlist_array(entries) ==
  LET walk[i \in 0..Len(entries)] ==
        IF i = 0 THEN Start ELSE Decode(walk[i - 1], i, entries)
  IN  walk[Len(entries)]

Extracted(entries) == process_errlist_array(entries).at = "loop"

\* What is allocated is what the list reaches: nothing after an error.
Accounted(entries) ==
  LET s == process_errlist_array(entries)
  IN  s.sound = TRUE /\ s.heap = (IF s.at = "loop" THEN ListBlocks(entries, s.count) ELSE {})

\* merge_messages takes the length of every message of a list of two or more;
\* a single error without a message leaves the text unset.
LengthOfNull(entries) == Len(entries) > 1 /\ \E i \in DOMAIN entries : ~entries[i].message
NoText(entries) == Len(entries) = 1 /\ ~entries[1].message
=============================================================================
