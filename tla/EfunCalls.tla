----------------------------- MODULE EfunCalls -----------------------------
(***************************************************************************)
(* Every efun called with every combination of kinds of arguments its      *)
(* declaration and the interpreter's checks let through: what the ways of  *)
(* Efuns and PackageEfuns do to the stack.                                 *)
(***************************************************************************)
EXTENDS PackageEfuns

CONSTANTS
    Excluded,    \* efuns that are not called (README)
    Careful      \* those during which LPC code destructs no argument

-----------------------------------------------------------------------------
(***************************************************************************)
(* func_spec.c and the *_spec.c of the packages.  An argument is the set   *)
(* of the kinds it may have; the first min of them must be given, and with *)
(* rest any number of others may follow.                                   *)
(***************************************************************************)
Value(min, types, rest) == [void |-> FALSE, min |-> min, types |-> types, rest |-> rest]
Void(min, types, rest) == [void |-> TRUE, min |-> min, types |-> types, rest |-> rest]

Mixed == AnyKind

MainSpec ==
    [call_other |-> Value(2, <<{"o", "s", "a"}, {"s", "a"}>>, TRUE),
     evaluate |-> Value(1, <<Mixed>>, TRUE),
     this_object |-> Value(0, <<>>, FALSE),
     to_int |-> Value(1, <<{"s", "r", "n", "b"}>>, FALSE),
     to_float |-> Value(1, <<{"s", "r", "n"}>>, FALSE),
     clone_object |-> Value(1, <<{"s"}>>, TRUE),
     bind |-> Value(2, <<{"f"}, {"o"}>>, FALSE),
     this_player |-> Value(1, <<{"n"}>>, FALSE),
     previous_object |-> Value(1, <<{"n"}>>, FALSE),
     call_stack |-> Value(1, <<{"n"}>>, FALSE),
     sizeof |-> Value(1, <<Mixed>>, FALSE),
     destruct |-> Void(1, <<{"o"}>>, FALSE),
     file_name |-> Value(1, <<{"o"}>>, FALSE),
     capitalize |-> Value(1, <<{"s"}>>, FALSE),
     explode |-> Value(2, <<{"s"}, {"s"}>>, FALSE),
     implode |-> Value(2, <<{"a"}, {"s", "f"}, Mixed>>, FALSE),
     call_out |-> Value(2, <<{"s", "f"}, {"n"}>>, TRUE),
     member_array |-> Value(2, <<Mixed, {"s", "a"}, {"n"}>>, FALSE),
     input_to |-> Value(1, <<{"s", "f"}>>, TRUE),
     random |-> Value(1, <<{"n"}>>, FALSE),
     environment |-> Value(0, <<{"o"}>>, FALSE),
     all_inventory |-> Value(1, <<{"o"}>>, FALSE),
     deep_inventory |-> Value(1, <<{"o"}>>, FALSE),
     first_inventory |-> Value(1, <<{"o", "s"}>>, FALSE),
     next_inventory |-> Value(1, <<{"o"}>>, FALSE),
     say |-> Void(1, <<{"s"}, {"o", "a"}>>, FALSE),
     tell_room |-> Void(2, <<{"o", "s"}, {"s", "o", "n", "r"}, {"a"}>>, FALSE),
     present |-> Value(1, <<{"o", "s"}, {"o"}>>, FALSE),
     move_object |-> Void(1, <<{"o", "s"}>>, FALSE),
     add_action |-> Void(2, <<{"s", "f"}, {"s", "a"}, {"n"}>>, FALSE),
     query_verb |-> Value(0, <<>>, FALSE),
     command |-> Value(1, <<{"s"}>>, FALSE),
     remove_action |-> Value(2, <<{"s"}, {"s"}>>, FALSE),
     living |-> Value(1, <<{"o"}>>, FALSE),
     commands |-> Value(0, <<>>, FALSE),
     disable_commands |-> Void(0, <<>>, FALSE),
     enable_commands |-> Void(0, <<>>, FALSE),
     set_living_name |-> Void(1, <<{"s"}>>, FALSE),
     livings |-> Value(0, <<>>, FALSE),
     find_living |-> Value(1, <<{"s"}>>, FALSE),
     find_player |-> Value(1, <<{"s"}>>, FALSE),
     notify_fail |-> Void(1, <<{"s", "f"}>>, FALSE),
     lower_case |-> Value(1, <<{"s"}>>, FALSE),
     replace_string |-> Value(3, <<{"s"}, {"s"}, {"s"}>>, TRUE),
     restore_object |-> Value(1, <<{"s"}, {"n"}>>, FALSE),
     save_object |-> Value(1, <<{"s"}, {"n"}>>, FALSE),
     save_variable |-> Value(1, <<Mixed>>, FALSE),
     restore_variable |-> Value(1, <<{"s"}>>, FALSE),
     users |-> Value(0, <<>>, FALSE),
     get_dir |-> Value(2, <<{"s"}, {"n"}>>, FALSE),
     strsrch |-> Value(3, <<{"s"}, {"s", "n"}, {"n"}>>, FALSE),
     write |-> Void(1, <<Mixed>>, FALSE),
     tell_object |-> Void(2, <<{"o"}, {"s"}>>, FALSE),
     shout |-> Void(1, <<{"s"}>>, FALSE),
     receive |-> Void(1, <<{"s"}>>, FALSE),
     message |-> Void(3, <<Mixed, Mixed, {"s", "a", "o"}, {"o", "a"}>>, FALSE),
     find_object |-> Value(2, <<{"s"}, {"n"}>>, FALSE),
     find_call_out |-> Value(1, <<{"n", "s"}>>, FALSE),
     allocate_mapping |-> Value(1, <<{"n"}>>, FALSE),
     values |-> Value(1, <<{"m"}>>, FALSE),
     keys |-> Value(1, <<{"m"}>>, FALSE),
     map_delete |-> Void(2, <<{"m"}, Mixed>>, FALSE),
     match_path |-> Value(2, <<{"m"}, {"s"}>>, FALSE),
     clonep |-> Value(1, <<Mixed>>, FALSE),
     intp |-> Value(1, <<Mixed>>, FALSE),
     undefinedp |-> Value(1, <<Mixed>>, FALSE),
     floatp |-> Value(1, <<Mixed>>, FALSE),
     stringp |-> Value(1, <<Mixed>>, FALSE),
     virtualp |-> Value(1, <<{"o"}>>, FALSE),
     functionp |-> Value(1, <<Mixed>>, FALSE),
     pointerp |-> Value(1, <<Mixed>>, FALSE),
     objectp |-> Value(1, <<Mixed>>, FALSE),
     classp |-> Value(1, <<Mixed>>, FALSE),
     typeof |-> Value(1, <<Mixed>>, FALSE),
     bufferp |-> Value(1, <<Mixed>>, FALSE),
     inherits |-> Value(2, <<{"s"}, {"o"}>>, FALSE),
     allocate_buffer |-> Value(1, <<{"n"}>>, FALSE)]

MoreSpec ==
    [regexp |-> Value(2, <<{"s", "a"}, {"s"}, {"n"}>>, FALSE),
     reg_assoc |-> Value(3, <<{"s"}, {"a"}, {"a"}, Mixed>>, FALSE),
     allocate |-> Value(1, <<{"n"}>>, FALSE),
     call_out_info |-> Value(0, <<>>, FALSE),
     crc32 |-> Value(1, <<{"s", "b"}>>, FALSE),
     read_buffer |-> Value(1, <<{"s", "b"}, {"n"}, {"n"}>>, FALSE),
     write_file |-> Value(2, <<{"s"}, {"s"}, {"n"}>>, FALSE),
     rename |-> Value(2, <<{"s"}, {"s"}>>, FALSE),
     write_bytes |-> Value(3, <<{"s"}, {"n"}, {"s"}>>, FALSE),
     write_buffer |-> Value(3, <<{"s", "b"}, {"n"}, {"s", "b", "n"}>>, FALSE),
     file_size |-> Value(1, <<{"s"}>>, FALSE),
     read_bytes |-> Value(1, <<{"s"}, {"n"}, {"n"}>>, FALSE),
     read_file |-> Value(1, <<{"s"}, {"n"}, {"n"}>>, FALSE),
     cp |-> Value(2, <<{"s"}, {"s"}>>, FALSE),
     link |-> Value(2, <<{"s"}, {"s"}>>, FALSE),
     mkdir |-> Value(1, <<{"s"}>>, FALSE),
     rm |-> Value(1, <<{"s"}>>, FALSE),
     rmdir |-> Value(1, <<{"s"}>>, FALSE),
     clear_bit |-> Value(2, <<{"s"}, {"n"}>>, FALSE),
     test_bit |-> Value(2, <<{"s"}, {"n"}>>, FALSE),
     set_bit |-> Value(2, <<{"s"}, {"n"}>>, FALSE),
     next_bit |-> Value(2, <<{"s"}, {"n"}>>, FALSE),
     crypt |-> Value(2, <<{"s"}, {"s", "n"}>>, FALSE),
     oldcrypt |-> Value(2, <<{"s"}, {"s", "n"}>>, FALSE),
     ctime |-> Value(1, <<{"n"}>>, FALSE),
     exec |-> Value(2, <<{"o"}, {"o"}>>, FALSE),
     localtime |-> Value(1, <<{"n"}>>, FALSE),
     function_exists |-> Value(1, <<{"s"}, {"o"}, {"n"}>>, FALSE),
     objects |-> Value(0, <<{"s", "f"}, {"o"}>>, FALSE),
     query_host_name |-> Value(0, <<>>, FALSE),
     query_idle |-> Value(1, <<{"o"}>>, FALSE),
     query_ip_name |-> Value(0, <<{"o"}>>, FALSE),
     query_ip_number |-> Value(0, <<{"o"}>>, FALSE),
     query_snoop |-> Value(1, <<{"o"}>>, FALSE),
     query_snooping |-> Value(1, <<{"o"}>>, FALSE),
     remove_call_out |-> Value(0, <<{"n", "s"}>>, FALSE),
     set_heart_beat |-> Void(1, <<{"n"}>>, FALSE),
     query_heart_beat |-> Value(1, <<{"o"}>>, FALSE),
     set_hide |-> Void(1, <<{"n"}>>, FALSE),
     generate_source |-> Value(1, <<{"s", "a"}, {"s"}>>, FALSE),
     lpc_info |-> Value(0, <<>>, FALSE),
     set_reset |-> Void(1, <<{"o"}, {"n"}>>, FALSE),
     shadow |-> Value(2, <<{"o"}, {"n"}>>, FALSE),
     query_shadowing |-> Value(1, <<{"o"}>>, FALSE),
     snoop |-> Value(1, <<{"o"}, {"o"}>>, FALSE),
     sort_array |-> Value(2, <<{"a"}, {"n", "s", "f"}>>, TRUE),
     tail |-> Value(1, <<{"s"}>>, FALSE),
     throw |-> Void(1, <<Mixed>>, FALSE),
     time |-> Value(0, <<>>, FALSE),
     unique_array |-> Value(2, <<{"a"}, {"s", "f"}, Mixed>>, FALSE),
     unique_mapping |-> Value(2, <<{"a"}, {"s", "f"}>>, TRUE),
     deep_inherit_list |-> Value(1, <<{"o"}>>, FALSE),
     shallow_inherit_list |-> Value(1, <<{"o"}>>, FALSE),
     printf |-> Void(1, <<{"s"}>>, TRUE),
     sprintf |-> Value(1, <<{"s"}>>, TRUE),
     mapp |-> Value(1, <<Mixed>>, FALSE),
     stat |-> Value(2, <<{"s"}, {"n"}>>, FALSE),
     interactive |-> Value(1, <<{"o"}>>, FALSE),
     in_edit |-> Value(1, <<{"o"}>>, FALSE),
     in_input |-> Value(1, <<{"o"}>>, FALSE),
     userp |-> Value(1, <<{"o"}>>, FALSE),
     enable_wizard |-> Void(0, <<>>, FALSE),
     disable_wizard |-> Void(0, <<>>, FALSE),
     wizardp |-> Value(1, <<{"o"}>>, FALSE),
     master |-> Value(0, <<>>, FALSE),
     memory_info |-> Value(0, <<{"o"}>>, FALSE),
     get_config |-> Value(1, <<{"n"}>>, FALSE),
     query_privs |-> Value(1, <<{"o"}>>, FALSE),
     set_privs |-> Void(2, <<{"o"}, {"n", "s"}>>, FALSE),
     get_char |-> Value(1, <<{"s", "f"}>>, TRUE),
     children |-> Value(1, <<{"s"}>>, FALSE),
     reload_object |-> Void(1, <<{"o"}>>, FALSE),
     error |-> Void(1, <<{"s"}>>, FALSE),
     uptime |-> Value(0, <<>>, FALSE),
     strcmp |-> Value(2, <<{"s"}, {"s"}>>, FALSE),
     flush_messages |-> Void(0, <<{"o"}>>, FALSE),
     ed |-> Void(0, <<{"s"}, {"s"}, {"s", "n"}, {"n"}>>, FALSE),
     cache_stats |-> Value(0, <<>>, FALSE),
     filter |-> Value(2, <<{"a", "m"}, {"s", "f"}>>, TRUE),
     map |-> Value(2, <<{"s", "m", "a"}, {"s", "f"}>>, TRUE),
     malloc_status |-> Value(0, <<>>, FALSE),
     mud_status |-> Value(1, <<{"n"}>>, FALSE),
     dumpallobj |-> Void(0, <<{"s"}>>, FALSE),
     dump_file_descriptors |-> Value(0, <<>>, FALSE),
     query_load_average |-> Value(0, <<>>, FALSE),
     origin |-> Value(0, <<>>, FALSE),
     reclaim_objects |-> Value(0, <<>>, FALSE),
     set_eval_limit |-> Value(1, <<{"n"}>>, FALSE),
     resolve |-> Value(2, <<{"s"}, {"s"}>>, FALSE)]

PackageSpec ==
    [remove_shadow |-> Value(1, <<{"o"}>>, FALSE),
     query_notify_fail |-> Value(0, <<>>, FALSE),
     named_livings |-> Value(0, <<>>, FALSE),
     copy |-> Value(1, <<Mixed>>, FALSE),
     functions |-> Value(2, <<{"o"}, {"n"}>>, FALSE),
     variables |-> Value(2, <<{"o"}, {"n"}>>, FALSE),
     heart_beats |-> Value(0, <<>>, FALSE),
     terminal_colour |-> Value(2, <<{"s"}, {"m"}, {"n"}, {"n"}>>, FALSE),
     pluralize |-> Value(1, <<{"s"}>>, FALSE),
     file_length |-> Value(1, <<{"s"}>>, FALSE),
     upper_case |-> Value(1, <<{"s"}>>, FALSE),
     replaceable |-> Value(1, <<{"o"}, {"a"}>>, FALSE),
     program_info |-> Value(0, <<{"o"}>>, FALSE),
     store_variable |-> Void(2, <<{"s"}, Mixed>>, FALSE),
     fetch_variable |-> Value(1, <<{"s"}>>, FALSE),
     remove_interactive |-> Value(1, <<{"o"}>>, FALSE),
     query_ip_port |-> Value(0, <<{"o"}>>, FALSE),
     debug_message |-> Void(1, <<{"s"}>>, FALSE),
     function_owner |-> Value(1, <<{"f"}>>, FALSE),
     repeat_string |-> Value(2, <<{"s"}, {"n"}>>, FALSE),
     memory_summary |-> Value(0, <<>>, FALSE),
     debug_info |-> Value(2, <<{"n"}, {"o"}>>, FALSE),
     refs |-> Value(1, <<Mixed>>, FALSE),
     cos |-> Value(1, <<{"r"}>>, FALSE),
     sin |-> Value(1, <<{"r"}>>, FALSE),
     tan |-> Value(1, <<{"r"}>>, FALSE),
     asin |-> Value(1, <<{"r"}>>, FALSE),
     acos |-> Value(1, <<{"r"}>>, FALSE),
     atan |-> Value(1, <<{"r"}>>, FALSE),
     sqrt |-> Value(1, <<{"r"}>>, FALSE),
     log |-> Value(1, <<{"r"}>>, FALSE),
     pow |-> Value(2, <<{"r"}, {"r"}>>, FALSE),
     exp |-> Value(1, <<{"r"}>>, FALSE),
     floor |-> Value(1, <<{"r"}>>, FALSE),
     ceil |-> Value(1, <<{"r"}>>, FALSE),
     socket_create |-> Value(2, <<{"n"}, {"s", "f"}, {"s", "f"}>>, FALSE),
     socket_bind |-> Value(2, <<{"n"}, {"n"}>>, FALSE),
     socket_listen |-> Value(2, <<{"n"}, {"s", "f"}>>, FALSE),
     socket_accept |-> Value(3, <<{"n"}, {"s", "f"}, {"s", "f"}>>, FALSE),
     socket_connect |-> Value(4, <<{"n"}, {"s"}, {"s", "f"}, {"s", "f"}>>, FALSE),
     socket_write |-> Value(2, <<{"n"}, Mixed, {"s"}>>, FALSE),
     socket_close |-> Value(1, <<{"n"}>>, FALSE),
     socket_release |-> Value(3, <<{"n"}, {"o"}, {"s", "f"}>>, FALSE),
     socket_acquire |-> Value(4, <<{"n"}, {"s", "f"}, {"s", "f"}, {"s", "f"}>>, FALSE),
     socket_error |-> Value(1, <<{"n"}>>, FALSE),
     socket_address |-> Value(1, <<{"n", "o"}>>, FALSE),
     dump_socket_status |-> Value(0, <<>>, FALSE),
     external_start |-> Value(4, <<{"n"}, {"s"}, {"s", "f"}, {"s", "f"}, {"s", "f"}>>, FALSE),
     export_uid |-> Value(1, <<{"o"}>>, FALSE),
     geteuid |-> Value(1, <<{"f", "o"}>>, FALSE),
     getuid |-> Value(1, <<{"o"}>>, FALSE),
     seteuid |-> Value(1, <<{"s", "n"}>>, FALSE)]

Signature(name) ==
    IF name \in DOMAIN MainSpec THEN MainSpec[name]
    ELSE IF name \in DOMAIN MoreSpec THEN MoreSpec[name] ELSE PackageSpec[name]

Called == (DOMAIN MainSpec \cup DOMAIN MoreSpec \cup DOMAIN PackageSpec) \ Excluded

-----------------------------------------------------------------------------
\* efun_table: the function of each instruction.
MainEfun(name, a) ==
    CASE name = "call_other" -> f_call_other(a)
      [] name = "evaluate" -> f_evaluate(a)
      [] name = "this_object" -> f_this_object(a)
      [] name = "to_int" -> f_to_int(a)
      [] name = "to_float" -> f_to_float(a)
      [] name = "clone_object" -> f_clone_object(a)
      [] name = "bind" -> f_bind(a)
      [] name = "this_player" -> f_this_player(a)
      [] name = "previous_object" -> f_previous_object(a)
      [] name = "call_stack" -> f_call_stack(a)
      [] name = "sizeof" -> f_sizeof(a)
      [] name = "destruct" -> f_destruct(a)
      [] name = "file_name" -> f_file_name(a)
      [] name = "capitalize" -> f_capitalize(a)
      [] name = "explode" -> f_explode(a)
      [] name = "implode" -> f_implode(a)
      [] name = "call_out" -> f_call_out(a)
      [] name = "member_array" -> f_member_array(a)
      [] name = "input_to" -> f_input_to(a)
      [] name = "random" -> f_random(a)
      [] name = "environment" -> f_environment(a)
      [] name = "all_inventory" -> f_all_inventory(a)
      [] name = "deep_inventory" -> f_deep_inventory(a)
      [] name = "first_inventory" -> f_first_inventory(a)
      [] name = "next_inventory" -> f_next_inventory(a)
      [] name = "say" -> f_say(a)
      [] name = "tell_room" -> f_tell_room(a)
      [] name = "present" -> f_present(a)
      [] name = "move_object" -> f_move_object(a)
      [] name = "add_action" -> f_add_action(a)
      [] name = "query_verb" -> f_query_verb(a)
      [] name = "command" -> f_command(a)
      [] name = "remove_action" -> f_remove_action(a)
      [] name = "living" -> f_living(a)
      [] name = "commands" -> f_commands(a)
      [] name = "disable_commands" -> f_disable_commands(a)
      [] name = "enable_commands" -> f_enable_commands(a)
      [] name = "set_living_name" -> f_set_living_name(a)
      [] name = "livings" -> f_livings(a)
      [] name = "find_living" -> f_find_living(a)
      [] name = "find_player" -> f_find_player(a)
      [] name = "notify_fail" -> f_notify_fail(a)
      [] name = "lower_case" -> f_lower_case(a)
      [] name = "replace_string" -> f_replace_string(a)
      [] name = "restore_object" -> f_restore_object(a)
      [] name = "save_object" -> f_save_object(a)
      [] name = "save_variable" -> f_save_variable(a)
      [] name = "restore_variable" -> f_restore_variable(a)
      [] name = "users" -> f_users(a)
      [] name = "get_dir" -> f_get_dir(a)
      [] name = "strsrch" -> f_strsrch(a)
      [] name = "write" -> f_write(a)
      [] name = "tell_object" -> f_tell_object(a)
      [] name = "shout" -> f_shout(a)
      [] name = "receive" -> f_receive(a)
      [] name = "message" -> f_message(a)
      [] name = "find_object" -> f_find_object(a)
      [] name = "find_call_out" -> f_find_call_out(a)
      [] name = "allocate_mapping" -> f_allocate_mapping(a)
      [] name = "values" -> f_values(a)
      [] name = "keys" -> f_keys(a)
      [] name = "map_delete" -> f_map_delete(a)
      [] name = "match_path" -> f_match_path(a)
      [] name = "clonep" -> f_clonep(a)
      [] name = "intp" -> f_intp(a)
      [] name = "undefinedp" -> f_undefinedp(a)
      [] name = "floatp" -> f_floatp(a)
      [] name = "stringp" -> f_stringp(a)
      [] name = "virtualp" -> f_virtualp(a)
      [] name = "functionp" -> f_functionp(a)
      [] name = "pointerp" -> f_pointerp(a)
      [] name = "objectp" -> f_objectp(a)
      [] name = "classp" -> f_classp(a)
      [] name = "typeof" -> f_typeof(a)
      [] name = "bufferp" -> f_bufferp(a)
      [] name = "inherits" -> f_inherits(a)
      [] name = "allocate_buffer" -> f_allocate_buffer(a)

MoreEfun(name, a) ==
    CASE name = "regexp" -> f_regexp(a)
      [] name = "reg_assoc" -> f_reg_assoc(a)
      [] name = "allocate" -> f_allocate(a)
      [] name = "call_out_info" -> f_call_out_info(a)
      [] name = "crc32" -> f_crc32(a)
      [] name = "read_buffer" -> f_read_buffer(a)
      [] name = "write_file" -> f_write_file(a)
      [] name = "rename" -> f_rename(a)
      [] name = "write_bytes" -> f_write_bytes(a)
      [] name = "write_buffer" -> f_write_buffer(a)
      [] name = "file_size" -> f_file_size(a)
      [] name = "read_bytes" -> f_read_bytes(a)
      [] name = "read_file" -> f_read_file(a)
      [] name = "cp" -> f_cp(a)
      [] name = "link" -> f_link(a)
      [] name = "mkdir" -> f_mkdir(a)
      [] name = "rm" -> f_rm(a)
      [] name = "rmdir" -> f_rmdir(a)
      [] name = "clear_bit" -> f_clear_bit(a)
      [] name = "test_bit" -> f_test_bit(a)
      [] name = "set_bit" -> f_set_bit(a)
      [] name = "next_bit" -> f_next_bit(a)
      [] name = "crypt" -> f_crypt(a)
      [] name = "oldcrypt" -> f_oldcrypt(a)
      [] name = "ctime" -> f_ctime(a)
      [] name = "exec" -> f_exec(a)
      [] name = "localtime" -> f_localtime(a)
      [] name = "function_exists" -> f_function_exists(a)
      [] name = "objects" -> f_objects(a)
      [] name = "query_host_name" -> f_query_host_name(a)
      [] name = "query_idle" -> f_query_idle(a)
      [] name = "query_ip_name" -> f_query_ip_name(a)
      [] name = "query_ip_number" -> f_query_ip_number(a)
      [] name = "query_snoop" -> f_query_snoop(a)
      [] name = "query_snooping" -> f_query_snooping(a)
      [] name = "remove_call_out" -> f_remove_call_out(a)
      [] name = "set_heart_beat" -> f_set_heart_beat(a)
      [] name = "query_heart_beat" -> f_query_heart_beat(a)
      [] name = "set_hide" -> f_set_hide(a)
      [] name = "generate_source" -> f_generate_source(a)
      [] name = "lpc_info" -> f_lpc_info(a)
      [] name = "set_reset" -> f_set_reset(a)
      [] name = "shadow" -> f_shadow(a)
      [] name = "query_shadowing" -> f_query_shadowing(a)
      [] name = "snoop" -> f_snoop(a)
      [] name = "sort_array" -> f_sort_array(a)
      [] name = "tail" -> f_tail(a)
      [] name = "throw" -> f_throw(a)
      [] name = "time" -> f_time(a)
      [] name = "unique_array" -> f_unique_array(a)
      [] name = "unique_mapping" -> f_unique_mapping(a)
      [] name = "deep_inherit_list" -> f_deep_inherit_list(a)
      [] name = "shallow_inherit_list" -> f_shallow_inherit_list(a)
      [] name = "printf" -> f_printf(a)
      [] name = "sprintf" -> f_sprintf(a)
      [] name = "mapp" -> f_mapp(a)
      [] name = "stat" -> f_stat(a)
      [] name = "interactive" -> f_interactive(a)
      [] name = "in_edit" -> f_in_edit(a)
      [] name = "in_input" -> f_in_input(a)
      [] name = "userp" -> f_userp(a)
      [] name = "enable_wizard" -> f_enable_wizard(a)
      [] name = "disable_wizard" -> f_disable_wizard(a)
      [] name = "wizardp" -> f_wizardp(a)
      [] name = "master" -> f_master(a)
      [] name = "memory_info" -> f_memory_info(a)
      [] name = "get_config" -> f_get_config(a)
      [] name = "query_privs" -> f_query_privs(a)
      [] name = "set_privs" -> f_set_privs(a)
      [] name = "get_char" -> f_get_char(a)
      [] name = "children" -> f_children(a)
      [] name = "reload_object" -> f_reload_object(a)
      [] name = "error" -> f_error(a)
      [] name = "uptime" -> f_uptime(a)
      [] name = "strcmp" -> f_strcmp(a)
      [] name = "flush_messages" -> f_flush_messages(a)
      [] name = "ed" -> f_ed(a)
      [] name = "cache_stats" -> f_cache_stats(a)
      [] name = "filter" -> f_filter(a)
      [] name = "map" -> f_map(a)
      [] name = "malloc_status" -> f_malloc_status(a)
      [] name = "mud_status" -> f_mud_status(a)
      [] name = "dumpallobj" -> f_dumpallobj(a)
      [] name = "dump_file_descriptors" -> f_dump_file_descriptors(a)
      [] name = "query_load_average" -> f_query_load_average(a)
      [] name = "origin" -> f_origin(a)
      [] name = "reclaim_objects" -> f_reclaim_objects(a)
      [] name = "set_eval_limit" -> f_set_eval_limit(a)
      [] name = "resolve" -> f_resolve(a)

PackageEfun(name, a) ==
    CASE name = "remove_shadow" -> f_remove_shadow(a)
      [] name = "query_notify_fail" -> f_query_notify_fail(a)
      [] name = "named_livings" -> f_named_livings(a)
      [] name = "copy" -> f_copy(a)
      [] name = "functions" -> f_functions(a)
      [] name = "variables" -> f_variables(a)
      [] name = "heart_beats" -> f_heart_beats(a)
      [] name = "terminal_colour" -> f_terminal_colour(a)
      [] name = "pluralize" -> f_pluralize(a)
      [] name = "file_length" -> f_file_length(a)
      [] name = "upper_case" -> f_upper_case(a)
      [] name = "replaceable" -> f_replaceable(a)
      [] name = "program_info" -> f_program_info(a)
      [] name = "store_variable" -> f_store_variable(a)
      [] name = "fetch_variable" -> f_fetch_variable(a)
      [] name = "remove_interactive" -> f_remove_interactive(a)
      [] name = "query_ip_port" -> f_query_ip_port(a)
      [] name = "debug_message" -> f_debug_message(a)
      [] name = "function_owner" -> f_function_owner(a)
      [] name = "repeat_string" -> f_repeat_string(a)
      [] name = "memory_summary" -> f_memory_summary(a)
      [] name = "debug_info" -> f_debug_info(a)
      [] name = "refs" -> f_refs(a)
      [] name = "cos" -> f_cos(a)
      [] name = "sin" -> f_sin(a)
      [] name = "tan" -> f_tan(a)
      [] name = "asin" -> f_asin(a)
      [] name = "acos" -> f_acos(a)
      [] name = "atan" -> f_atan(a)
      [] name = "sqrt" -> f_sqrt(a)
      [] name = "log" -> f_log(a)
      [] name = "pow" -> f_pow(a)
      [] name = "exp" -> f_exp(a)
      [] name = "floor" -> f_floor(a)
      [] name = "ceil" -> f_ceil(a)
      [] name = "socket_create" -> f_socket_create(a)
      [] name = "socket_bind" -> f_socket_bind(a)
      [] name = "socket_listen" -> f_socket_listen(a)
      [] name = "socket_accept" -> f_socket_accept(a)
      [] name = "socket_connect" -> f_socket_connect(a)
      [] name = "socket_write" -> f_socket_write(a)
      [] name = "socket_close" -> f_socket_close(a)
      [] name = "socket_release" -> f_socket_release(a)
      [] name = "socket_acquire" -> f_socket_acquire(a)
      [] name = "socket_error" -> f_socket_error(a)
      [] name = "socket_address" -> f_socket_address(a)
      [] name = "dump_socket_status" -> f_dump_socket_status(a)
      [] name = "external_start" -> f_external_start(a)
      [] name = "export_uid" -> f_export_uid(a)
      [] name = "geteuid" -> f_geteuid(a)
      [] name = "getuid" -> f_getuid(a)
      [] name = "seteuid" -> f_seteuid(a)

Ways(name, a) ==
    IF name \in DOMAIN MainSpec THEN MainEfun(name, a)
    ELSE IF name \in DOMAIN MoreSpec THEN MoreEfun(name, a) ELSE PackageEfun(name, a)

-----------------------------------------------------------------------------
(***************************************************************************)
(* F_EFUN0..F_EFUN3 check every argument; F_EFUNV, used for four or more   *)
(* arguments and where any number may follow, only those that must be      *)
(* given.  What nobody checked is of some kind.                            *)
(***************************************************************************)
Unchecked == {"n", "s", "o", "a"}
Extras == {<<>>, <<"n">>, <<"s">>, <<"o">>, <<"n", "n">>, <<"o", "s">>, <<"n", "n", "n">>}

Checked(s, n) ==
    {a \in [1..n -> AnyKind] :
        \A i \in 1..n : a[i] \in (IF n > 3 /\ i > s.min THEN Unchecked ELSE s.types[i])}

Arguments(s) ==
    IF s.rest THEN {a \o e : a \in Checked(s, s.min), e \in Extras}
    ELSE UNION {Checked(s, n) : n \in s.min..Len(s.types)}

F_EFUN ==
    /\ efun = <<>>
    /\ \E name \in Called : \E a \in Arguments(Signature(name)) :
          \E ways \in {Ways(name, a)} : Starts(name, a, ways)

CalledCode == CallReturned \/ (efun[1] \notin Careful /\ CallDestructed)

EfunInit == StackInit

EfunNext ==
    \/ F_EFUN
    \/ Popped \/ WentDown \/ Freed \/ Wrote \/ Pushed \/ Moved \/ Copied \/ Used
    \/ (way # <<>> /\ CalledCode)
    \/ Errs \/ Passed \/ Destructed

EfunSpec == EfunInit /\ [][EfunNext]_stackVars

-----------------------------------------------------------------------------
(***************************************************************************)
(* The properties.                                                         *)
(***************************************************************************)
\* The efun is through and did not raise an error.
Returned == efun # <<>> /\ way = <<>> /\ sp >= 0 /\ fault = "none"

\* "Bad stack after efun": what call_the_efun in interpret.c asserts, that sp
\* is where the declaration says, and that the result is a live value.
StackAsDeclared ==
    Returned => IF Signature(efun[1]).void THEN sp = 0 ELSE sp = 1 /\ mem[1] \notin Gone

\* Every reference the efun found in its arguments was freed or handed on.
NothingLeaks == Returned => ~LostAbove

\* Whatever its arguments, whichever way it goes and whatever LPC code does
\* while it waits for it (return, raise an error, destruct an argument), an
\* efun frees each reference once and as what it is, reads no slot that was
\* overwritten, leaves nothing for error() to free twice, loses none, and
\* leaves the stack as declared.
EfunsSound == fault = "none" /\ StackAsDeclared /\ NothingLeaks

\* "They might have been destructed" (f_exec), "the object might have been
\* dested an removed from the stack" (f_socket_release), "It may have been
\* dested" (f_remove_interactive): an object argument that LPC code has
\* destructed meanwhile is not freed as an object any more.
\* Refuted; see the README, section 6.
DestructedLeftAlone == fault # "freed as another kind"

=============================================================================
