---------------------------- MODULE ConfigdReply ---------------------------
(***************************************************************************)
(* What the client makes of one decoded reply: the extractors, the four    *)
(* getters' switch and the wrappers' conversion, down to the memory each   *)
(* of them owns.                                                           *)
(*                                                                         *)
(* A reply body is the JSON form of its three members:                     *)
(*   result  "null", or the type of the value; "array_bad", "object_bad"   *)
(*           hold a member that is not a string; "real" stands for a type  *)
(*           extract_result has no case for                                *)
(*   error   "null", "string" or "other"                                   *)
(*   list    mgmterrorlist: its form is "null", "malformed" (not an object,*)
(*           no array, an empty array) or "array" with its entries         *)
(*                                                                         *)
(* Memory: "reply" is what recv_response allocates for the member it       *)
(* extracts, "text" the error text, "fmt" the text reformatted for commit  *)
(* and validate, "dup" a wrapper's strdup("").  "none" is NULL.  "stray"   *)
(* stands for blocks nobody has a pointer to, or that were freed twice.    *)
(***************************************************************************)
EXTENDS MgmtErrors

RespTypes == {"INT", "STRING", "VECTOR", "MAP", "ERROR", "MGMTERROR"}

\* What get_int, get_str, get_vector and get_map expect.
Kinds == {"INT", "STRING", "VECTOR", "MAP"}

\* resp->type is an int on the stack: what it holds before it is assigned.
StackValue == RespTypes \cup {"OTHER"}

Bodies ==
  [result : {"null", "true", "false", "integer", "string", "array",
             "array_bad", "object", "object_bad", "real"},
   error  : {"null", "string", "other"},
   list   : [form : {"null", "malformed", "array"}, entries : Seq(Entries)]]

Resp(ok, type, obj, num) ==
  [ok |-> ok, type |-> type, obj |-> obj, num |-> num, stray |-> FALSE]

Resps == [ok : BOOLEAN, type : StackValue, obj : BOOLEAN, num : 0..2, stray : BOOLEAN]

\* The type is never assigned; the union was zeroed by memset.
Untyped == {Resp(TRUE, t, FALSE, 0) : t \in StackValue}

extract_result(form) ==
  CASE form = "true"       -> {Resp(TRUE, "INT", FALSE, 1)}
    [] form = "false"      -> {Resp(TRUE, "INT", FALSE, 0)}
    [] form = "integer"    -> {Resp(TRUE, "INT", FALSE, 2)}
    [] form = "string"     -> {Resp(TRUE, "STRING", TRUE, 0)}
    [] form = "array"      -> {Resp(TRUE, "VECTOR", TRUE, 0)}
    [] form = "array_bad"  -> {Resp(FALSE, "VECTOR", FALSE, 0)}
    [] form = "object"     -> {Resp(TRUE, "MAP", TRUE, 0)}
    [] form = "object_bad" -> {Resp(FALSE, "MAP", FALSE, 0)}
    [] OTHER               -> Untyped

extract_error(form) ==
  IF form = "string" THEN {Resp(TRUE, "ERROR", TRUE, 0)}
                     ELSE {Resp(FALSE, "ERROR", FALSE, 0)}

\* A list of which an entry is bad is freed, and none is left.
extract_mgmt_error_list(list) ==
  IF list.form = "malformed" THEN {Resp(FALSE, "MGMTERROR", FALSE, 0)}
  ELSE {[Resp(Extracted(list.entries), "MGMTERROR", Extracted(list.entries), 0)
         EXCEPT !.stray = ~Accounted(list.entries)]}

\* The first member that is not null decides; with none the type is unset.
Extract(body) ==
  CASE body.result # "null" -> extract_result(body.result)
    [] body.result = "null" /\ body.error # "null" -> extract_error(body.error)
    [] body.result = "null" /\ body.error = "null" /\ body.list.form # "null" ->
         extract_mgmt_error_list(body.list)
    [] OTHER -> Untyped

\* What recv_response holds in ret when it finds that the id is no integer,
\* which it then returns: 0 once a result or a list was extracted.
GoodWithoutId(body) ==
  body.result # "null" \/ (body.error = "null" /\ body.list.form # "null")

\* The replies after which resp->type is read without having been assigned.
ReadsUnsetType(body) ==
  \/ body.result = "real"
  \/ body.result = "null" /\ body.error = "null" /\ body.list.form = "null"

-----------------------------------------------------------------------------

(***************************************************************************)
(* What a call leaves behind.  val is the int result, or, for a function   *)
(* returning a pointer, 0 for a pointer and -1 for NULL; obj is what that  *)
(* pointer owns; text, list and mgmt are the fields of the caller's        *)
(* configd_error; heap is what is allocated when the call returns.         *)
(***************************************************************************)
Outcomes ==
  [val : -1..2, obj : {"none", "reply", "dup"},
   text : {"none", "text", "fmt"}, list : {"none", "reply"}, mgmt : BOOLEAN,
   heap : SUBSET {"reply", "text", "fmt", "dup", "stray"}, crash : BOOLEAN]

\* error_init, and a zeroed struct configd_error: no text, no list.
Fresh ==
  [val |-> -1, obj |-> "none", text |-> "none", list |-> "none",
   mgmt |-> FALSE, heap |-> {}, crash |-> FALSE]

\* error_setf with a NULL error does nothing.
error_setf(o, hasErr) ==
  IF hasErr THEN [o EXCEPT !.text = "text", !.heap = @ \cup {"text"}] ELSE o

\* What response_free releases of a response.
response_free(resp) ==
  IF resp.obj /\ resp.type \in RespTypes \ {"INT"} THEN {"reply"} ELSE {}

\* The list moves from the response to the error.
error_set_from_mgmt_error_list(o, resp, entries) ==
  [o EXCEPT
     !.list  = IF resp.obj THEN "reply" ELSE "none",
     !.mgmt  = TRUE,
     !.text  = IF resp.obj /\ NoText(entries) THEN "none" ELSE "text",
     !.heap  = IF resp.obj /\ NoText(entries) THEN @ ELSE @ \cup {"text"},
     !.crash = resp.obj /\ LengthOfNull(entries)]

\* Mutant: the response keeps the list it handed over.
KeptList(resp) == resp

\* The response once error_set_from_mgmt_error_list has taken its list.
Disowned(resp) == [resp EXCEPT !.obj = FALSE]

\* get_int, get_str, get_vector, get_map, from the received response on.
Get(kind, hasErr, resp, entries) ==
  LET got   == [Fresh EXCEPT !.heap = {b \in {"reply", "stray"} :
                                         \/ b = "reply" /\ resp.obj
                                         \/ b = "stray" /\ resp.stray}]
      Freed(o, r) == [o EXCEPT !.heap = @ \ response_free(r)]
  IN CASE ~resp.ok -> Freed(error_setf(got, hasErr), resp)
       [] resp.ok /\ resp.type = kind /\ kind = "INT" ->
            [got EXCEPT !.val = resp.num]
       [] resp.ok /\ resp.type = kind /\ kind # "INT" ->
            [got EXCEPT !.val = IF resp.obj THEN 0 ELSE -1,
                        !.obj = IF resp.obj THEN "reply" ELSE "none"]
       [] resp.ok /\ resp.type = "ERROR" -> Freed(error_setf(got, hasErr), resp)
       [] resp.ok /\ resp.type = "MGMTERROR" /\ hasErr ->
            Freed(error_set_from_mgmt_error_list(got, resp, entries), Disowned(resp))
       [] OTHER -> Freed(got, resp)

\* The text is replaced when the error came as a list; without the list the
\* new text is dropped on the floor.
configd_error_format_for_commit_or_val(o, hasErr) ==
  IF ~hasErr \/ ~o.mgmt THEN o
  ELSE IF o.list = "none" THEN [o EXCEPT !.heap = @ \cup {"fmt"}]
  ELSE [o EXCEPT !.text = "fmt", !.heap = (@ \ {o.text}) \cup {"fmt"}]

\* Mutant: the negation is applied to the error value too.
NegatedError(val) == IF val = 0 THEN 1 ELSE 0

\* result != -1 ? !result : -1.
Negated(val) == IF val = -1 THEN -1 ELSE IF val = 0 THEN 1 ELSE 0

\* What the wrapper returns of what its getter returned.
Convert(conv, o, hasErr) ==
  CASE conv = "raw" -> o
    [] conv = "not" -> [o EXCEPT !.val = Negated(@)]
    [] conv = "one" ->
         IF o.val = 1
         THEN [o EXCEPT !.val = 0, !.obj = "dup", !.heap = @ \cup {"dup"}]
         ELSE [o EXCEPT !.val = -1]
    [] OTHER -> configd_error_format_for_commit_or_val(o, hasErr)

\* What the caller holds pointers to.
Owned(o) == {o.obj, o.text, o.list} \ {"none"}
=============================================================================
