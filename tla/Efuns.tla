------------------------------- MODULE Efuns -------------------------------
(***************************************************************************)
(* What each efun does to the value stack: efuns_main.c, the efuns that    *)
(* array.c, mapping.c, eoperators.c and efuns_port.c keep.                 *)
(* f_x(a) is the set of ways through the function f_x() of the driver when *)
(* the arguments on the stack are of the kinds a.                          *)
(***************************************************************************)
EXTENDS EfunStack

\* Ways that several efuns share.
Nothing == <<>>
AsNumber(k) == {<<Free(k), Put("n")>>}
IsA(k, a) == {IF a[1] = k THEN <<Free(k), Put("n")>> ELSE <<Free("?"), Put("n")>>}
Unlinked == <<Free("s"), Put("s")>>
If(c, w) == IF c THEN w ELSE <<>>

f_add_action(a) ==
    {If(Len(a) = 3, <<Down(1)>>) \o
     <<Fail, Free(IF a[2] = "a" THEN "a" ELSE "s"), Down(1), Pop(1)>>}

f_all_inventory(a) == {<<Ask, Free("o"), Put("a")>>, <<Free("o"), Put("a")>>}

f_allocate(a) == {<<Fail, Put("a")>>}

f_allocate_buffer(a) == {<<Fail, Pop(1), Push("b")>>, <<Fail, Free("?"), Put("n")>>}

f_allocate_mapping(a) == {<<Put("m")>>}

\* The new owner was read before valid_bind() was asked.
f_bind(a) ==
    {<<Free("o"), Down(1)>>, <<Raise>>} \cup
    {<<Push(me), Push(owner), Push("o"), Call(3), Fail, UseAt(0, "o"), MoveAt(0),
       FreeAt(-1, "f"), Down(1), Put("f")>> : me \in {"o", "n"}, owner \in {"o", "n"}}

f_cache_stats(a) == {<<Push("s")>>}

\* call_all_other(): the results are pushed, each object is called with
\* copies of the arguments, then both go.
call_all_other(n) ==
    <<Fail, Push("a")>> \o Repeat(Push("v"), n) \o <<Call(n), MoveAt(0), Down(1), Pop(n)>>

\* The arguments that come with the function's name in an array are merged
\* with the ones on the stack.
f_call_other(a) ==
    LET Extra(i) == If(a[2] = "a", <<Fail>> \o Repeat(Push("v"), i))
        Num(i) == Len(a) - 2 + i
        More == IF a[2] = "a" THEN {0, 1} ELSE {0} IN
    {<<Pop(Len(a)), Push("n")>>} \cup
    (IF a[1] = "a"
     THEN {Extra(i) \o call_all_other(Num(i)) \o <<Pop(1), Free("a"), Put("a")>> : i \in More}
     ELSE UNION {LET go == Extra(i) \o If(a[1] = "s", <<Fail, Ask>>) IN
             {go \o <<Pop(Num(i)), Pop(2), Push("n")>>,
              go \o <<Call(Num(i)), Push("v"), Down(1), Free("?"), Down(1), Free("?"),
                      CopyAt(0, 2)>>} : i \in More})

f_call_out(a) ==
    LET num == Len(a) - 2 IN
    {[i \in 1..num |-> MoveAt(1 - i)] \o <<Down(num + 1), Free("?"), Put("n")>>,
     <<Pop(num), Down(1), Free("?"), Put("n")>>}

f_call_out_info(a) == {<<Push("a")>>}

f_call_stack(a) == {<<Raise>>, <<Put("a")>>}

f_capitalize(a) == {Nothing, Unlinked}

f_children(a) == {<<Ask, Free("s"), Put("a")>>, <<Fail, Free("s"), Put("a")>>}

f_classp(a) == IsA("c", a)

\* The string is unlinked before its bits are looked at.
f_clear_bit(a) ==
    {<<Raise>>, <<Down(1), Raise>>, <<Down(1)>>, <<Down(1)>> \o Unlinked \o <<Fail>>}

f_clonep(a) == {IF a[1] = "o" THEN <<Free("o"), Put("n")>> ELSE <<Free("?"), Put("n")>>}

\* clone_object() hands the other arguments to create().
f_clone_object(a) ==
    {<<Fail, Ask, Call(Len(a) - 1), Free("s"), Put("o")>>,
     <<Fail, Ask, Call(Len(a) - 1), Free("s"), Put("n")>>,
     <<Fail, Pop(Len(a) - 1), Free("s"), Put("n")>>}

f_command(a) == {<<Fail, Ask, Free("s"), Put("n")>>}

f_commands(a) == {<<Push("a")>>}

TwoStrings == {<<Ask, Free("s"), Down(1), Free("s"), Put("n")>>}

f_cp(a) == TwoStrings

f_crc32(a) == {<<Free("?"), Put("n")>>}

f_ctime(a) == {<<Put("s")>>}

f_deep_inherit_list(a) == {<<Free("o"), Put("a")>>}

f_deep_inventory(a) == f_all_inventory(a)

\* "Ok since the object was removed from the stack"
f_destruct(a) == {<<UseAt(0, "o"), Fail, Ask, Destruct, Down(1)>>}

f_disable_commands(a) == {Nothing}

f_dumpallobj(a) == {If(Len(a) = 0, <<Ask>>) \o If(Len(a) = 1, <<Ask, Free("s"), Down(1)>>)}

\* The last argument tells the forms of three and of four apart; of four
\* only the last two are looked at.
f_ed(a) ==
    {<<Pop(Len(a))>>,
     CASE Len(a) = 0 -> <<Fail, Ask>>
       [] Len(a) = 1 -> <<UseAt(0, "s"), Fail, Ask, Pop(1)>>
       [] Len(a) = 2 -> <<UseAt(-1, "s"), UseAt(0, "s"), Fail, Ask, Pop(2)>>
       [] Len(a) = 3 -> IF a[3] \in {"n", "s"}
                        THEN <<UseAt(-2, "s"), UseAt(-1, "s"), Fail, Ask, Pop(3)>>
                        ELSE <<Raise>>
       [] OTHER -> IF a[3] = "s" /\ a[4] = "n"
                   THEN <<UseAt(-3, "s"), UseAt(-2, "s"), Fail, Ask, Pop(4)>>
                   ELSE <<Raise>>}

f_enable_commands(a) == {Nothing}

f_enable_wizard(a) == {Nothing}

f_error(a) == {<<UseAt(0, "s"), Raise>>}

f_disable_wizard(a) == {Nothing}

f_environment(a) ==
    IF Len(a) = 1 THEN {<<Fail, Free("o"), Down(1), Push(k)>> : k \in {"o", "n"}}
    ELSE {<<Raise>>, <<Push("o")>>, <<Push("n")>>}

\* "They might have been destructed"
f_exec(a) == {<<Fail, Free("?"), Down(1), Free("?"), Put("n")>>}

\* The same without freeing the delimiter, for comparison.
ForgetsDelimiter(a) == {<<Fail, Down(1), Free("s"), Put("a")>>}

f_explode(a) == {<<Fail, Free("s"), Down(1), Free("s"), Put("a")>>}

f_file_name(a) == {<<Free("o"), Put("s")>>}

f_file_size(a) == {<<Ask, Free("s"), Put("n")>>}

f_find_call_out(a) == {If(a[1] # "n", <<Free("s")>>) \o <<Put("n")>>}

f_find_living(a) == {<<Free("s"), Put("o")>>, <<Free("s"), Put("n")>>}

\* The name is freed before object_visible() asks the master object.
f_find_object(a) ==
    {<<Down(1), Fail, Free("s"), Put("n")>>, <<Down(1), Fail, Free("s"), Put("o")>>,
     <<Down(1), Fail, Free("s"), Ask, Put("o")>>, <<Down(1), Fail, Free("s"), Ask, Put("n")>>}

f_find_player(a) == f_find_living(a)

f_function_exists(a) ==
    LET go == If(Len(a) = 3, <<Down(1)>>) \o If(Len(a) > 1, <<Free("o"), Down(1)>>) IN
    {go \o <<Fail, Free("s"), Put("s")>>, go \o <<Fail, Free("s"), Put("n")>>} \cup
    (IF Len(a) = 1 THEN {<<Free("s"), Put("n")>>} ELSE {})

f_generate_source(a) ==
    {If(Len(a) = 2, <<UseAt(0, "s"), Fail, Pop(1)>>) \o <<Fail, Free("?"), Put("n")>>}

\* The arguments get_char() keeps are handed on; when it refuses they stay.
f_get_char(a) ==
    LET n == Len(a)
        tmp == IF n = 1 THEN 0 ELSE IF a[2] = "n" THEN 1 ELSE 0
        kept == [i \in 1..(n - 1 - tmp) |-> MoveAt(1 - i)] IN
    {<<Fail>> \o kept \o <<FreeAt(1 - n, "?"), Down(n - 1), Put("n")>>,
     <<Fail, FreeAt(1 - n, "?"), Down(n - 1), Put("n")>>}

f_get_config(a) == {<<Raise>>, <<Put("s")>>, <<Put("n")>>}

f_get_dir(a) == {<<Ask, Down(1), Free("s"), Put(k)>> : k \in {"a", "n"}}

\* implode_array(): the function folds the elements into the slot of the
\* array, whose reference f_implode() keeps aside.
implode_array(flag) ==
    IF flag THEN {<<Down(1), MoveAt(-1), CopyAt(-1, 1)>>,
                  <<Push("v"), Call(2), MoveAt(-1), PutAt(-1, "v")>>}
    ELSE {<<MoveAt(-1), PutAt(-1, "n")>>, <<MoveAt(-1), PutAt(-1, "v")>>,
          <<Push("v"), Push("v"), Call(2), MoveAt(-1), PutAt(-1, "v")>>}

f_implode(a) ==
    IF a[2] = "s"
    THEN {IF Len(a) = 3 THEN <<Raise>>
          ELSE <<Fail, Free("s"), Down(1), Free("a"), Put("s")>>}
    ELSE {w \o <<MoveAt(0), Down(1)>> : w \in implode_array(Len(a) = 3)}

f_in_edit(a) == {<<Free("o"), Put("s")>>, <<Free("o"), Put("n")>>}

f_in_input(a) == AsNumber("o")

\* The object to look in is off the stack while the name is looked up.
f_inherits(a) == {<<Down(1), FreeAt(1, "o"), Free("?"), Put("n")>>,
                  <<Down(1), FreeAt(1, "o"), Free("s"), Put("n")>>}

f_shallow_inherit_list(a) == {<<Free("o"), Put("a")>>}

f_input_to(a) == f_get_char(a)

f_interactive(a) == AsNumber("o")

f_intp(a) == {IF a[1] = "n" THEN <<Put("n")>> ELSE <<Free("?"), Put("n")>>}

f_functionp(a) == IsA("f", a)

f_keys(a) == {<<Fail, Free("m"), Put("a")>>}

f_values(a) == f_keys(a)

f_link(a) == {<<Push("s"), Push("s"), Call(2), Ask, Down(1), Put("n")>>,
              <<Push("s"), Push("s"), Call(2), Down(1), Put("n")>>}

f_living(a) == AsNumber("o")

f_livings(a) == {<<Ask, Push("a")>>}

f_lower_case(a) == {Nothing, Unlinked}

f_lpc_info(a) == {<<Push("s")>>}

f_malloc_status(a) == {<<Push("s")>>}

f_map_delete(a) == {<<Pop(1), Free("m"), Down(1)>>}

f_mapp(a) == IsA("m", a)

\* process_efun_callback(), call_efun_callback(): the function may be named,
\* with the object to call it in, or be a function pointer; the arguments
\* behind it are copied for every call.
process_efun_callback(a) ==
    If(a[2] = "s" /\ Len(a) > 2, IF a[3] = "s" THEN <<Fail, Ask>>
                                 ELSE IF a[3] = "o" THEN <<Fail>> ELSE <<Raise>>)

CallbackArgs(a) == IF a[2] = "f" \/ Len(a) = 2 THEN Len(a) - 2 ELSE Len(a) - 3

call_efun_callback(a, n) ==
    Repeat(Push("v"), n + CallbackArgs(a)) \o <<Fail, Call(n + CallbackArgs(a))>>

\* The flags of the elements kept are a string on the stack.
filter_array(a) ==
    {<<Pop(Len(a) - 1)>>,
     process_efun_callback(a) \o <<Push("s")>> \o call_efun_callback(a, 1) \o
     <<Free("s"), Down(1), Pop(Len(a) - 1), Free("a"), Put("a")>>}

filter_mapping(a) ==
    {process_efun_callback(a) \o <<Push("m")>> \o call_efun_callback(a, 2) \o
     <<Fail, MoveAt(0), Down(1), Pop(Len(a)), Push("m")>>}

f_filter(a) == IF a[1] = "m" THEN filter_mapping(a) ELSE filter_array(a)

map_array(a) ==
    {<<Pop(Len(a)), Push("a")>>,
     process_efun_callback(a) \o <<Fail, Push("a")>> \o call_efun_callback(a, 1) \o
     <<MoveAt(0), Down(1), Pop(Len(a)), Push("a")>>}

map_mapping(a) ==
    {process_efun_callback(a) \o <<Fail, Push("m")>> \o call_efun_callback(a, 2) \o
     <<MoveAt(0), Down(1), Pop(Len(a)), Push("m")>>}

\* The string is changed in its own slot; an object that is neither given
\* nor named is called all the same.
map_string(a) ==
    LET n == Len(a) IN
    {<<FreeAt(1 - n, "s"), PutAt(1 - n, "s")>> \o
     If(a[2] = "s" /\ n > 2, IF a[3] = "s" THEN <<Fail, Ask>> ELSE <<UseAt(3 - n, "o")>>) \o
     <<Push("n")>> \o Repeat(Push("v"), CallbackArgs(a)) \o
     <<Call(1 + CallbackArgs(a)), Pop(n - 1)>>}

f_map(a) ==
    CASE a[1] = "m" -> map_mapping(a)
      [] a[1] = "a" -> map_array(a)
      [] OTHER -> map_string(a)

f_master(a) == {<<Push("n")>>, <<Push("o")>>}

f_match_path(a) == {<<Free("s"), Down(1), MoveAt(0), Put("v")>>}

f_member_array(a) ==
    {If(Len(a) = 3, <<Down(1), Fail>>) \o
     IF a[2] = "s" THEN (IF a[1] = "n" THEN <<Fail, Free("s"), Down(1), Put("n")>> ELSE <<Raise>>)
     ELSE <<Free("a"), FreeAt(-1, "?"), Down(1), Put("n")>>}

\* A target or an excluded object is put in an array that takes its place.
f_message(a) ==
    LET n == Len(a)
        Boxed(i) == <<MoveAt(i - n), PutAt(i - n, "a")>> IN
    {IF a[3] \notin {"o", "s", "a"} THEN <<Raise>>
     ELSE If(a[3] # "a", Boxed(3)) \o If(n = 4, If(a[Len(a)] = "o", Boxed(4))) \o
          <<Ask, Pop(n)>>}

FileMade == {<<Ask, Free("s"), Put("n")>>}

f_mkdir(a) == FileMade

f_move_object(a) == {If(a[1] = "s", <<Fail, Ask>>) \o <<Fail, Ask, Pop(1)>>}

f_mud_status(a) == {<<Down(1), Push("s")>>}

f_notify_fail(a) == {IF a[1] = "s" THEN <<Free("s"), Down(1)>> ELSE <<Free("f"), Down(1)>>}

f_objectp(a) == IsA("o", a)

f_origin(a) == {<<Push("s")>>}

f_pointerp(a) == IsA("a", a)

f_present(a) == {<<Ask, Pop(Len(a)), Push(k)>> : k \in {"o", "n"}}

f_previous_object(a) == {<<Raise>>, <<Put("n")>>, <<Put("a")>>, <<Put("o")>>}

f_printf(a) == {<<Pop(Len(a))>>, <<UseAt(1 - Len(a), "s"), Fail, Ask, Pop(Len(a))>>}

f_query_host_name(a) == {<<Push("s")>>, <<Push("n")>>}

f_query_idle(a) == {<<Fail, Free("o"), Put("n")>>}

f_query_ip_name(a) == {If(Len(a) = 1, <<Free("o"), Down(1)>>) \o <<Push(k)>> : k \in {"n", "s"}}

f_query_ip_number(a) == f_query_ip_name(a)

f_query_load_average(a) == {<<Push("s")>>}

f_query_privs(a) == {<<Free("o"), Put("s")>>, <<Free("o"), Put("n")>>}

f_query_snooping(a) == {<<Free("o"), Put("o")>>, <<Free("o"), Put("n")>>}

f_query_snoop(a) == f_query_snooping(a)

f_query_verb(a) == {<<Push("n")>>, <<Push("s")>>}

f_random(a) == {<<Put("n")>>}

f_read_bytes(a) == {<<Ask, Fail, Pop(Len(a)), Push(k)>> : k \in {"n", "s"}}

f_read_buffer(a) ==
    IF a[1] = "s" THEN {<<Ask, Fail, Pop(Len(a)), Push("n")>>,
                        <<Ask, Fail, Pop(Len(a)), Fail, Push("b")>>}
    ELSE {<<Pop(Len(a)), Push("n")>>, <<Pop(Len(a)), Push("s")>>}

f_read_file(a) == {<<Down(Len(a) - 1), Ask, Free("s"), Put(k)>> : k \in {"n", "s"}}

f_receive(a) == {<<Fail, Ask, Free("s"), Down(1)>>, <<Free("s"), Down(1)>>}

f_reg_assoc(a) ==
    {IF a[3] # "a" THEN <<Raise>>
     ELSE <<Fail, Pop(IF Len(a) = 4 THEN 3 ELSE 2), Free("s"), Put("a")>>}

f_regexp(a) ==
    {IF Len(a) = 3 /\ (a[Len(a)] # "n" \/ a[1] = "s") THEN <<Raise>>
     ELSE If(Len(a) = 3, <<Down(1)>>) \o <<Fail, Free("s"), Down(1)>> \o
          IF a[1] = "s" THEN <<Free("s"), Put("n")>> ELSE <<Free("a"), Put("a")>>}

f_remove_action(a) == {<<Free("s"), Down(1), Free("s"), Put("n")>>}

f_remove_call_out(a) ==
    {IF Len(a) = 0 THEN <<Push("n")>> ELSE If(a[1] = "s", <<Free("s")>>) \o <<Put("n")>>}

f_rename(a) == TwoStrings

f_replace_string(a) ==
    LET n == Len(a) IN
    IF n > 5 \/ \E i \in 4..n : a[i] # "n" THEN {<<Raise>>}
    ELSE {<<Pop(n - 1)>>,
          <<FreeAt(1 - n, "s"), PutAt(1 - n, "s"), Pop(n - 1)>>,
          <<Pop(n), Push("n")>>, <<Pop(n), Push("s")>>}

f_resolve(a) == TwoStrings

f_restore_object(a) ==
    {If(Len(a) = 2, <<Down(1)>>) \o <<Fail, Ask, Fail, Free("s"), Put("n")>>}

f_restore_variable(a) == {Unlinked \o <<Fail, Free("s"), Put("v")>>}

f_rm(a) == FileMade

f_rmdir(a) == FileMade

f_save_object(a) == f_restore_object(a)

f_save_variable(a) == {<<Fail, Pop(1), Push("s")>>}

f_say(a) == {<<Ask, Pop(Len(a))>>}

f_set_eval_limit(a) == {<<Put("n")>>}

\* A string too short is replaced before its bits are looked at.
f_set_bit(a) == {<<Raise>>, <<Down(1), Raise>>, <<Down(1)>> \o Unlinked \o <<Fail>>}

f_set_heart_beat(a) == {<<Down(1)>>}

f_query_heart_beat(a) == AsNumber("o")

f_set_hide(a) == {<<Ask, Down(1)>>}

f_set_living_name(a) == {<<Free("s"), Down(1)>>}

f_set_privs(a) ==
    {If(a[2] = "s", <<Free("s")>>) \o <<Down(1), Free("o"), Down(1)>>}

\* valid_shadow() is asked while the object is on the stack.
f_shadow(a) ==
    {<<Down(1), Free("o"), Put("o")>>, <<Down(1), Free("o"), Put("n")>>, <<Down(1), Raise>>,
     <<Down(1), Fail, Ask, Free("o"), Put("o")>>, <<Down(1), Fail, Ask, Free("o"), Put("n")>>}

f_shout(a) == {<<Fail, Ask, Free("s"), Down(1)>>}

f_sizeof(a) ==
    {<<Free(IF a[1] \in {"c", "a", "m", "b", "s"} THEN a[1] ELSE "?"), Put("n")>>}

f_snoop(a) ==
    IF Len(a) = 1 THEN {<<Fail, Ask, UseAt(0, "o")>>, <<Fail, Ask, Free("o"), Put("n")>>}
    ELSE {<<Fail, Ask, UseAt(0, "o"), Free("o"), Down(1), Free("o"), Put("n")>>,
          <<Fail, Ask, UseAt(0, "o"), Down(1), Free("o"), CopyAt(0, 1)>>}

f_sprintf(a) == {<<UseAt(1 - Len(a), "s"), Fail, Ask, Pop(Len(a)), Push("s")>>}

\* The flag is read from above sp after check_valid_path() has asked.
f_stat(a) ==
    {<<Down(1), Ask, Free("s"), Put("n")>>,
     <<Down(1), Ask, Ask, Free("s"), Put("a")>>,
     <<Down(1), Ask, UseAt(1, "n"), Ask, Free("s"), Put("a")>>}

f_strsrch(a) ==
    {<<Down(1), UseAt(1, "n")>> \o If(a[2] = "s", <<Free("s")>>) \o
     <<Down(1), Free("s"), Put("n")>>}

f_strcmp(a) == {<<Free("s"), Down(1), Free("s"), Put("n")>>}

f_stringp(a) == IsA("s", a)

f_bufferp(a) == IsA("b", a)

f_tail(a) == FileMade

f_tell_object(a) == {<<Fail, Ask, Free("s"), Down(1), Pop(1)>>}

f_tell_room(a) ==
    {If(a[1] = "s", <<Fail, Ask>>) \o <<Ask>> \o
     If(Len(a) = 3, <<Free("a"), Down(1)>>) \o
     <<Free("?"), FreeAt(-1, "?"), Down(2)>>}

f_test_bit(a) == {<<Down(1), Free("s"), Put("n")>>, <<Down(1), Raise>>}

f_next_bit(a) == {<<Down(1), Free("s"), Put("n")>>}

f_this_object(a) == {<<Push("n")>>, <<Push("o")>>}

f_this_player(a) == {<<Put("o")>>, <<Put("n")>>}

f_throw(a) == {<<MoveAt(0), Down(1), Raise>>}

f_time(a) == {<<Push("n")>>}

f_to_float(a) == {CASE a[1] = "n" -> <<Put("r")>> [] a[1] = "s" -> <<Free("s"), Put("r")>>
                    [] OTHER -> Nothing}

f_to_int(a) ==
    {CASE a[1] = "r" -> <<Put("n")>> [] a[1] = "s" -> <<Free("s"), Put("n")>>
       [] a[1] = "b" -> <<Free("b"), Put("n")>> [] OTHER -> Nothing}

f_typeof(a) == {<<Free("?"), Put("s")>>}

f_undefinedp(a) == f_intp(a)

f_uptime(a) == {<<Push("n")>>}

f_userp(a) == AsNumber("o")

f_users(a) == {<<Ask, Push("a")>>}

f_wizardp(a) == AsNumber("o")

f_virtualp(a) == AsNumber("o")

f_write(a) == {<<Fail, Ask, Pop(1)>>}

f_write_bytes(a) ==
    IF a[3] \notin {"n", "b", "s"} THEN {<<Raise>>}
    ELSE {If(a[3] = "n", <<Fail>>) \o
          <<UseAt(-2, "s"), Ask, Free("?"), Down(2), Free("s"), Put("n")>>}

\* A buffer is freed as if it were the name of a file.
f_write_buffer(a) ==
    IF a[1] = "s" THEN f_write_bytes(a)
    ELSE IF a[3] \notin {"n", "b", "s"} THEN {<<Raise>>}
    ELSE {<<UseAt(-2, "b"), Free("?"), Down(2), Free("s"), Put("n")>>}

f_write_file(a) ==
    {If(Len(a) = 3, <<Down(1)>>) \o <<Ask, Free("s"), Down(1), Free("s"), Put("n")>>}

f_dump_file_descriptors(a) == {<<Push("s")>>}

f_reclaim_objects(a) == {<<Push("n")>>}

f_memory_info(a) ==
    {IF Len(a) = 0 THEN <<Push("n")>>
     ELSE IF a[1] # "o" THEN <<Raise>> ELSE <<Free("o"), Put("n")>>}

f_reload_object(a) == {<<UseAt(0, "o"), Ask, Free("o"), Down(1)>>}

f_query_shadowing(a) == {<<MoveAt(0), Put("o")>>, <<Free("?"), Put("n")>>}

f_set_reset(a) == {If(Len(a) = 2, <<Down(1)>>) \o <<Free("o"), Down(1)>>}

f_floatp(a) == {IF a[1] = "r" THEN <<Put("n")>> ELSE <<Free("?"), Put("n")>>}

f_flush_messages(a) == {If(Len(a) = 1, <<Pop(1)>>)}

f_first_inventory(a) == {<<Fail, Ask, Free("?"), Put(k)>> : k \in {"o", "n"}}

\* The object is freed before object_visible() asks about the next ones.
f_next_inventory(a) ==
    {<<Free("o"), Put("o")>>, <<Free("o"), Put("n")>>,
     <<Free("o"), Ask, Put("o")>>, <<Free("o"), Ask, Put("n")>>}

-----------------------------------------------------------------------------
(***************************************************************************)
(* array.c, mapping.c, eoperators.c, efuns_port.c.                         *)
(***************************************************************************)
\* What was found so far hangs on an error handler kept on the stack.
f_unique_array(a) ==
    {<<Free("?"), Down(1)>> \o If(Len(a) = 3, <<Free("?"), Down(1)>>),
     <<Push("v")>> \o If(a[2] = "f", <<Push("v")>>) \o
     <<Call(IF a[2] = "f" THEN 1 ELSE 0), MoveAt(0), Down(1), Pop(Len(a) - 1), Free("a"), Put("a")>>}

f_unique_mapping(a) ==
    {process_efun_callback(a) \o <<Pop(Len(a) - 1), Free("a"), Put("m")>>,
     process_efun_callback(a) \o <<Push("v")>> \o call_efun_callback(a, 1) \o
     <<Fail, MoveAt(0), Down(1), Pop(Len(a) - 1), Free("a"), Put("m")>>}

f_sort_array(a) ==
    {IF a[2] = "n" THEN <<Fail, Pop(Len(a)), Push("a")>>
     ELSE process_efun_callback(a) \o call_efun_callback(a, 2) \o <<Pop(Len(a)), Push("a")>>}

\* The last argument is taken for the function, whatever its kind.
f_objects(a) ==
    LET n == Len(a)
        f == If(n > 0, IF a[n] = "f" THEN <<UseAt(0, "f")>> ELSE <<UseAt(0, "s")>>)
        go == f \o <<Push("s")>> \o If(n > 0, <<Push("o"), Call(1)>>) IN
    {go \o <<Ask, Free("s"), Down(1), Pop(n), Push("a")>>} \cup
    (IF n = 0 THEN {} ELSE {go \o <<Free("s"), Down(1), Free("?"), Put("n")>>})

f_evaluate(a) ==
    IF a[1] # "f" THEN {<<Pop(Len(a) - 1)>>}
    ELSE {<<Pop(Len(a)), Push("n")>>, <<Call(Len(a) - 1), Free("f"), Put("v")>>}

f_crypt(a) == {<<Pop(1), Free("s"), Put("s")>>}

f_oldcrypt(a) ==
    {If(a[2] = "s", <<Free("s"), Down(1)>>) \o If(a[2] # "s", <<Pop(1)>>) \o
     <<Free("s"), Put("s")>>}

f_localtime(a) == {<<Put("a")>>}
=============================================================================
