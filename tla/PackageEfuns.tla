---------------------------- MODULE PackageEfuns ----------------------------
(***************************************************************************)
(* The efuns of the packages sockets, external, uids, math, contrib and    *)
(* develop, in the way of Efuns.                                           *)
(***************************************************************************)
EXTENDS Efuns

\* check_valid_socket() asks valid_socket(); the result goes where the
\* descriptor was.
SocketCall(a) == <<Ask, Pop(Len(a) - 1), Put("n")>>
NotCallable(k) == k \notin {"s", "f"}

f_socket_create(a) ==
    {IF Len(a) = 3 /\ NotCallable(a[Len(a)]) THEN <<Raise>> ELSE SocketCall(a)}

f_socket_bind(a) == {<<Ask, Down(1), Put("n")>>}

f_socket_listen(a) == {SocketCall(a)}

f_socket_accept(a) == {IF NotCallable(a[3]) THEN <<Raise>> ELSE <<Ask, PutAt(-2, "n"), Pop(2)>>}

f_socket_connect(a) ==
    {IF NotCallable(a[3]) \/ NotCallable(a[4]) THEN <<Raise>>
     ELSE <<UseAt(-2, "s"), Ask, PutAt(-3, "n"), Pop(3)>>}

f_socket_write(a) ==
    {IF Len(a) = 3 /\ a[Len(a)] # "s" THEN <<Raise>> ELSE SocketCall(a)}

f_socket_close(a) == {<<Ask, Ask, Put("n")>>}

\* "the object might have been dested an removed from the stack"
f_socket_release(a) ==
    {IF NotCallable(a[3]) THEN <<Raise>>
     ELSE <<Ask, Ask, PutAt(-2, "n"), Pop(1), Free("?"), Down(1)>>}

f_socket_acquire(a) ==
    {IF NotCallable(a[3]) \/ NotCallable(a[4]) THEN <<Raise>>
     ELSE <<Ask, PutAt(-3, "n"), Pop(3)>>}

f_socket_error(a) == {<<Put("s")>>}

f_socket_address(a) ==
    IF a[1] = "o" THEN {<<Free("o"), Put("n")>>, <<Free("o"), Put("s")>>} ELSE {<<Put("s")>>}

f_dump_socket_status(a) == {<<Push("s")>>}

f_external_start(a) == {SocketCall(a)}

f_export_uid(a) == {<<Fail, Free("o"), Put("n")>>}

f_geteuid(a) == {<<MoveAt(0), Put("s")>>, <<Free("?"), Put("n")>>}

f_getuid(a) == {<<MoveAt(0), Put("s")>>}

f_seteuid(a) ==
    IF a[1] = "n" THEN {<<Fail, Put("n")>>}
    ELSE {<<Push("o"), Push("s"), Call(2), Free("s"), Put("n")>>}

\* The efuns on reals work in place; some refuse their argument.
f_cos(a) == {<<Put("r")>>}
f_sin(a) == {<<Put("r")>>}
f_tan(a) == {<<Put("r")>>}
f_asin(a) == {<<Fail, Put("r")>>}
f_acos(a) == {<<Fail, Put("r")>>}
f_atan(a) == {<<Put("r")>>}
f_sqrt(a) == {<<Fail, Put("r")>>}
f_log(a) == {<<Fail, Put("r")>>}
f_pow(a) == {<<Down(1), Put("r")>>}
f_exp(a) == {<<Put("r")>>}
f_floor(a) == {<<Put("r")>>}
f_ceil(a) == {<<Put("r")>>}

f_named_livings(a) == {<<Ask, Push("a")>>}

f_remove_shadow(a) == {<<Pop(1), Push("n")>>}

f_query_notify_fail(a) == {<<Push("f")>>, <<Push("s")>>, <<Push("n")>>}

f_store_variable(a) == {<<Fail, MoveAt(0), Down(1), Free("s"), Down(1)>>}

f_fetch_variable(a) == {<<Fail, Free("s"), Down(1), Push("v")>>}

f_copy(a) == {<<Fail, Free("?"), Put("v")>>}

f_functions(a) == {<<Down(1), Fail, Pop(1), Push("a")>>}

f_variables(a) == {<<Down(1), Fail, Pop(1), Push("a")>>}

f_heart_beats(a) == {<<Push("a")>>}

\* The width and the indent are taken for numbers and not looked at.
f_terminal_colour(a) ==
    LET go == <<Down(Len(a) - 2)>> IN
    {go \o <<Pop(1)>>, go \o <<Pop(1), Free("s"), Put("s")>>}

f_pluralize(a) == {<<Pop(1), Push("n")>>, <<Pop(1), Push("s")>>}

f_file_length(a) == {<<Ask, Pop(1), Push("n")>>}

f_upper_case(a) == {Nothing, Unlinked}

f_replaceable(a) == {If(Len(a) = 2, <<Free("a"), Down(1)>>) \o <<Free("?"), Put("n")>>}

f_program_info(a) == {If(Len(a) = 1, <<Pop(1)>>) \o <<Push("s")>>}

\* "It may have been dested"
f_remove_interactive(a) == {<<Free("o"), Put("n")>>, <<Ask, Free("?"), Put("n")>>}

f_query_ip_port(a) == {IF Len(a) = 1 THEN <<Free("o"), Put("n")>> ELSE <<Push("n")>>}

f_debug_message(a) == {<<Free("s"), Down(1)>>}

f_function_owner(a) == {<<Free("f"), Put("o")>>, <<Free("f"), Put("n")>>}

f_repeat_string(a) == {<<Down(1)>>, <<Down(1), Free("s"), Put("s")>>}

f_memory_summary(a) == {<<Fail, Push("m")>>}

f_debug_info(a) == {<<Raise>>, <<Ask, Pop(2), Push("s")>>}

f_refs(a) == {<<Free("?"), Put("n")>>}
=============================================================================
