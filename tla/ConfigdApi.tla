---------------------------- MODULE ConfigdApi ----------------------------
(***************************************************************************)
(* The functions of libvyatta-config that make one RPC, as a table.        *)
(***************************************************************************)

(***************************************************************************)
(* The wrappers.  Each packs its arguments, calls one getter and converts  *)
(* the result, so a wrapper is the getter's type and the conversion:       *)
(*   raw   the int, or the pointer, is returned as it is                   *)
(*   not   result != -1 ? !result : -1                                     *)
(*   one   (result == 1) ? strdup("") : NULL                               *)
(*   fmt   the pointer, after the error text is reformatted for the CLI    *)
(***************************************************************************)
Wrapper(k, c) == [kind |-> k, conv |-> c]

SessionApi ==
  [sess_exists       |-> Wrapper("INT", "raw"),
   sess_setup        |-> Wrapper("INT", "not"),
   sess_setup_shared |-> Wrapper("INT", "not"),
   sess_teardown     |-> Wrapper("INT", "not"),
   sess_lock         |-> Wrapper("INT", "raw"),
   sess_unlock       |-> Wrapper("INT", "raw"),
   sess_locked       |-> Wrapper("INT", "raw"),
   sess_changed      |-> Wrapper("INT", "raw"),
   sess_saved        |-> Wrapper("INT", "raw"),
   sess_mark_saved   |-> Wrapper("INT", "not"),
   sess_mark_unsaved |-> Wrapper("INT", "not")]

GetHelpApi == [get_help |-> Wrapper("MAP", "raw")]

NodeApi ==
  [node_exists      |-> Wrapper("INT", "raw"),
   node_is_default  |-> Wrapper("INT", "raw"),
   node_get         |-> Wrapper("VECTOR", "raw"),
   node_get_status  |-> Wrapper("INT", "raw"),
   node_get_type    |-> Wrapper("INT", "raw"),
   node_get_comment |-> Wrapper("STRING", "raw"),
   tree_get         |-> Wrapper("STRING", "raw"),
   tree_get_full    |-> Wrapper("STRING", "raw")]

TemplateApi ==
  [schema_get           |-> Wrapper("STRING", "raw"),
   get_schemas          |-> Wrapper("STRING", "raw"),
   get_features         |-> Wrapper("MAP", "raw"),
   tmpl_get             |-> Wrapper("MAP", "raw"),
   tmpl_get_children    |-> Wrapper("VECTOR", "raw"),
   tmpl_get_allowed     |-> Wrapper("VECTOR", "raw"),
   tmpl_validate_path   |-> Wrapper("INT", "raw"),
   tmpl_validate_values |-> Wrapper("INT", "raw")]

EditApi ==
  [show          |-> Wrapper("STRING", "raw"),
   set           |-> Wrapper("STRING", "raw"),
   validate_path |-> Wrapper("STRING", "raw"),
   delete        |-> Wrapper("INT", "one"),
   rename        |-> Wrapper("STRING", "raw"),
   copy          |-> Wrapper("STRING", "raw"),
   comment       |-> Wrapper("INT", "one")]

CommitApi ==
  [commit           |-> Wrapper("STRING", "fmt"),
   confirmed_commit |-> Wrapper("STRING", "fmt"),
   cancel_commit    |-> Wrapper("STRING", "raw"),
   discard          |-> Wrapper("INT", "one"),
   save             |-> Wrapper("INT", "one"),
   load             |-> Wrapper("INT", "raw"),
   load_report_warnings |-> Wrapper("INT", "raw"),
   merge            |-> Wrapper("INT", "raw")]

ValidateApi ==
  [validate        |-> Wrapper("STRING", "fmt"),
   validate_config |-> Wrapper("STRING", "fmt"),
   edit_config_xml |-> Wrapper("STRING", "raw"),
   copy_config     |-> Wrapper("STRING", "raw")]

CallRpcApi == [call_rpc |-> Wrapper("STRING", "raw")]

AuthApi ==
  [auth_getperms   |-> Wrapper("MAP", "raw"),
   auth_authorized |-> Wrapper("INT", "raw")]

FileApi ==
  [file_read    |-> Wrapper("STRING", "raw"),
   file_migrate |-> Wrapper("STRING", "raw")]

RangeOf(f) == {f[x] : x \in DOMAIN f}

Wrappers ==
  UNION {RangeOf(SessionApi), RangeOf(GetHelpApi), RangeOf(NodeApi),
         RangeOf(TemplateApi), RangeOf(EditApi), RangeOf(CommitApi),
         RangeOf(ValidateApi), RangeOf(CallRpcApi), RangeOf(AuthApi),
         RangeOf(FileApi)}
=============================================================================
