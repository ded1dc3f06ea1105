------------------------------ MODULE Sockets ------------------------------
(***************************************************************************)
(* The efun sockets of src/src/socket_efuns.c: the table lpc_socks[], the  *)
(* efuns LPC code opens, uses, hands over and closes sockets with, and the *)
(* handlers process_io() calls for the descriptors select() has marked.    *)
(* Handlers call LPC code back, and so do socket_close() and               *)
(* socket_release(), half way through; `stack' holds these calls.  What is *)
(* read and written, addresses and the names of callbacks are left out;    *)
(* an LPC call never fails beyond the callback (safe_apply()).             *)
(***************************************************************************)
EXTENDS Integers, Sequences, TLC

CONSTANTS
  Objects,       \* objects that use sockets
  Slots,         \* bound on max_lpc_socks: the entries are 0 .. Slots - 1
  Descriptors,   \* bound on the descriptors of the system: 0 .. Descriptors - 1
  Modes,         \* of "STREAM" (also for MUD mode) and "DATAGRAM"
  MaxDepth,      \* bound on the nesting of LPC calls
  Precautions,   \* what the mudlib keeps away from:
                 \*  "close":   a close callback that closes its own socket,
                 \*  "alive":   socket efuns called by an object that is, or
                 \*             is about to be, destructed,
                 \*  "acquire": socket_acquire() by an object that has not
                 \*             used a socket before
  Null

ASSUME SocketsAssumption ==
  /\ Slots \in Nat \ {0} /\ Descriptors \in Nat \ {0} /\ MaxDepth \in Nat \ {0}
  /\ Modes \subseteq {"STREAM", "DATAGRAM"}
  /\ Precautions \subseteq {"close", "alive", "acquire"}
  /\ Null \notin Objects

VARIABLES
  lpc_socks,     \* the table of lpc_socket_t
  open,          \* the descriptors that are open
  O_EFUN_SOCKET, \* the objects with that flag
  destructed,
  readmask, writemask,
  at,            \* the entry process_io() is at; Slots outside of its loop,
  half,          \* and which handler is next there: "read" or "write"
  stack          \* LPC calls under way, each with the entry or object it is for

vars == <<lpc_socks, open, O_EFUN_SOCKET, destructed, readmask, writemask, at, half, stack>>

Entries == 0..(Slots - 1)
Fds == 0..(Descriptors - 1)
States == {"CLOSED", "FLUSHING", "UNBOUND", "BOUND", "LISTEN", "DATA_XFER"}

lpc_socket_t ==
  [fd: Fds, mode: {"STREAM", "DATAGRAM"}, state: States,
   S_BLOCKED: BOOLEAN, S_WACCEPT: BOOLEAN, S_RELEASE: BOOLEAN,
   owner_ob: Objects \cup {Null}, release_ob: Objects \cup {Null},
   close_callback: BOOLEAN,  \* there may be one
   w_buf: BOOLEAN]           \* data that is still to be written

Frame == [fun: {"lpc", "callback", "close", "release", "destruct"},
          which: Entries \cup Objects \cup {Null}]

(* Every field has its type.                                               *)
TypeOK ==
  /\ lpc_socks \in [Entries -> lpc_socket_t]
  /\ open \subseteq Fds
  /\ O_EFUN_SOCKET \subseteq Objects /\ destructed \subseteq Objects
  /\ readmask \subseteq Fds /\ writemask \subseteq Fds
  /\ at \in 0..Slots /\ half \in {"read", "write"}
  /\ stack \in Seq(Frame) /\ Len(stack) <= MaxDepth

Unused ==
  [fd |-> 0, mode |-> "STREAM", state |-> "CLOSED", S_BLOCKED |-> FALSE, S_WACCEPT |-> FALSE,
   S_RELEASE |-> FALSE, owner_ob |-> Null, release_ob |-> Null, close_callback |-> FALSE, w_buf |-> FALSE]

Init ==
  /\ lpc_socks = [i \in Entries |-> Unused]
  /\ open = {} /\ O_EFUN_SOCKET = {} /\ destructed = {}
  /\ readmask = {} /\ writemask = {} /\ at = Slots /\ half = "read"
  /\ stack = <<>>
-----------------------------------------------------------------------------
Call(fun, which) == [fun |-> fun, which |-> which]
Push(frame) == Len(stack) < MaxDepth /\ stack' = Append(stack, frame)
Top == stack[Len(stack)]
Pop == SubSeq(stack, 1, Len(stack) - 1)
LpcRuns == stack # <<>>

(* The frame is on the stack.                                              *)
Under(fun, which) == \E n \in DOMAIN stack : stack[n] = Call(fun, which)

(* The state in which efuns work on the socket.                            *)
Usable(i) == lpc_socks[i].state \notin {"CLOSED", "FLUSHING"}

(* Object me runs and calls a socket efun.                                 *)
Caller(me) ==
  /\ LpcRuns
  /\ "alive" \in Precautions => me \notin destructed /\ ~Under("destruct", me)

(* me is the owner of the socket and may use it.                           *)
Owns(me, i) == Caller(me) /\ Usable(i) /\ lpc_socks[i].owner_ob = me

(* Mutant of find_new_socket: a FLUSHING socket counts as closed.          *)
FindFlushingToo == CHOOSE i \in Entries :
  /\ lpc_socks[i].state \in {"CLOSED", "FLUSHING"}
  /\ \A j \in 0..(i - 1) : lpc_socks[j].state \notin {"CLOSED", "FLUSHING"}

(* The entry find_new_socket() picks.                                      *)
find_new_socket == CHOOSE i \in Entries :
  lpc_socks[i].state = "CLOSED" /\ \A j \in 0..(i - 1) : lpc_socks[j].state # "CLOSED"

(* Mutant of Opened: the flag of the object is not set.                    *)
OpenedUnnoticed(table, me, mode, state, blocked) ==
  /\ \E i \in Entries : lpc_socks[i].state = "CLOSED"
  /\ \E fd \in Fds \ open :
       /\ open' = open \cup {fd}
       /\ lpc_socks' = [table EXCEPT ![find_new_socket] =
            [Unused EXCEPT !.fd = fd, !.mode = mode, !.state = state,
                           !.S_BLOCKED = blocked, !.owner_ob = me,
                           !.close_callback = mode # "DATAGRAM"]]
  /\ O_EFUN_SOCKET' = O_EFUN_SOCKET

(* A new socket of the object fills an entry of the table; its descriptor  *)
(* is one nobody uses (the driver has others, for users and files).  A     *)
(* datagram socket has no close callback at first.                         *)
Opened(table, me, mode, state, blocked) ==
  /\ \E i \in Entries : lpc_socks[i].state = "CLOSED"
  /\ \E fd \in Fds \ open :
       /\ open' = open \cup {fd}
       /\ lpc_socks' = [table EXCEPT ![find_new_socket] =
            [Unused EXCEPT !.fd = fd, !.mode = mode, !.state = state,
                           !.S_BLOCKED = blocked, !.owner_ob = me,
                           !.close_callback = mode # "DATAGRAM"]]
  /\ O_EFUN_SOCKET' = O_EFUN_SOCKET \cup {me}

loop == <<readmask, writemask, at, half>>

socket_create(me, mode) ==
  /\ Caller(me)
  /\ Opened(lpc_socks, me, mode, "UNBOUND", FALSE)
  /\ UNCHANGED <<destructed, loop, stack>>

socket_bind(me, i) ==
  /\ Owns(me, i) /\ lpc_socks[i].state = "UNBOUND"
  /\ lpc_socks' = [lpc_socks EXCEPT ![i].state = "BOUND"]
  /\ UNCHANGED <<open, O_EFUN_SOCKET, destructed, loop, stack>>

socket_listen(me, i) ==
  /\ Owns(me, i) /\ lpc_socks[i].mode # "DATAGRAM" /\ lpc_socks[i].state = "BOUND"
  /\ lpc_socks' = [lpc_socks EXCEPT ![i].state = "LISTEN"]
  /\ O_EFUN_SOCKET' = O_EFUN_SOCKET \cup {me}
  /\ UNCHANGED <<open, destructed, loop, stack>>

(* accept() finds a connection, whose socket may not be writable yet, or   *)
(* none; both end the wait of the listening socket.                        *)
socket_accept(me, i) ==
  LET table == [lpc_socks EXCEPT ![i].S_WACCEPT = FALSE]
  IN  /\ Owns(me, i) /\ lpc_socks[i].state = "LISTEN"
      /\ \/ \E blocked \in BOOLEAN : Opened(table, me, lpc_socks[i].mode, "DATA_XFER", blocked)
         \/ lpc_socks' = table /\ UNCHANGED <<open, O_EFUN_SOCKET>>
      /\ UNCHANGED <<destructed, loop, stack>>

(* connect() has begun, and the socket is writable once it is through, or  *)
(* it fails.                                                               *)
socket_connect(me, i) ==
  /\ Owns(me, i) /\ lpc_socks[i].mode # "DATAGRAM" /\ lpc_socks[i].state \in {"UNBOUND", "BOUND"}
  /\ lpc_socks' \in {lpc_socks, [lpc_socks EXCEPT ![i].state = "DATA_XFER", ![i].S_BLOCKED = TRUE]}
  /\ O_EFUN_SOCKET' = O_EFUN_SOCKET \cup {me}
  /\ UNCHANGED <<open, destructed, loop, stack>>

(* Only a write the system takes part of leaves a trace; a datagram is     *)
(* sent at once.                                                           *)
socket_write(me, i) ==
  /\ Owns(me, i) /\ lpc_socks[i].mode # "DATAGRAM" /\ lpc_socks[i].state = "DATA_XFER"
  /\ ~lpc_socks[i].S_BLOCKED
  /\ lpc_socks' = [lpc_socks EXCEPT ![i].S_BLOCKED = TRUE, ![i].w_buf = TRUE]
  /\ UNCHANGED <<open, O_EFUN_SOCKET, destructed, loop, stack>>
-----------------------------------------------------------------------------
(* Closing.                                                                *)

(* The second half of socket_close(), for the entries in S: with data to   *)
(* write the socket is FLUSHING, otherwise its descriptor is closed.       *)
FinishClose(S) ==
  LET later == {i \in S : lpc_socks[i].S_BLOCKED}
  IN  /\ lpc_socks' = [i \in Entries |->
           IF i \in S THEN [lpc_socks[i] EXCEPT !.state = IF i \in later THEN "FLUSHING" ELSE "CLOSED"]
           ELSE lpc_socks[i]]
      /\ open' = open \ {lpc_socks[i].fd : i \in S \ later}

(* SC_FINAL_CLOSE: nothing is left to write, or writing has failed.        *)
FinalClose(i) ==
  /\ lpc_socks' = [lpc_socks EXCEPT ![i].state = "CLOSED", ![i].S_BLOCKED = FALSE, ![i].w_buf = FALSE]
  /\ open' = open \ {lpc_socks[i].fd}

(* The efun: no callback.                                                  *)
socket_close(me, i) ==
  /\ Owns(me, i)
  /\ "close" \in Precautions => ~Under("close", i)
  /\ FinishClose({i})
  /\ UNCHANGED <<O_EFUN_SOCKET, destructed, loop, stack>>

(* SC_DO_CALLBACK: the close callback, if there is one, comes first.       *)
CloseWithCallback(i) ==
  \/ /\ lpc_socks[i].close_callback /\ Push(Call("close", i))
     /\ UNCHANGED <<lpc_socks, open>>
  \/ FinishClose({i}) /\ stack' = stack

CloseCallbackReturns ==
  /\ LpcRuns /\ Top.fun = "close"
  /\ FinishClose({Top.which})
  /\ stack' = Pop
  /\ UNCHANGED <<O_EFUN_SOCKET, destructed, loop>>

(* close_referencing_sockets(), if the flag says that there may be some.   *)
close_referencing_sockets(o) ==
  IF o \in O_EFUN_SOCKET
    THEN FinishClose({i \in Entries : Usable(i) /\ lpc_socks[i].owner_ob = o})
    ELSE UNCHANGED <<lpc_socks, open>>

(* destruct_object() closes the sockets, and calls move() in the contents  *)
(* of the object before that is marked as destructed.                      *)
destruct_object(o) ==
  /\ LpcRuns /\ o \notin destructed
  /\ "close" \in Precautions =>
       \A i \in Entries : Under("close", i) => lpc_socks[i].owner_ob # o
  /\ close_referencing_sockets(o)
  /\ Push(Call("destruct", o))
  /\ UNCHANGED <<O_EFUN_SOCKET, destructed, loop>>

(* It goes on, unless there was an error.                                  *)
MoveReturns ==
  /\ LpcRuns /\ Top.fun = "destruct"
  /\ destructed' \in {destructed, destructed \cup {Top.which}}
  /\ stack' = Pop
  /\ UNCHANGED <<lpc_socks, open, O_EFUN_SOCKET, loop>>
-----------------------------------------------------------------------------
(* Handing a socket over: the owner releases it, and while the callback    *)
(* runs the object it is released to may acquire it, with callbacks of its *)
(* own.                                                                    *)
socket_release(me, i, ob) ==
  /\ Owns(me, i) /\ ob \notin destructed /\ ~lpc_socks[i].S_RELEASE
  /\ lpc_socks' = [lpc_socks EXCEPT ![i].S_RELEASE = TRUE, ![i].release_ob = ob]
  /\ Push(Call("release", i))
  /\ UNCHANGED <<open, O_EFUN_SOCKET, destructed, loop>>

ReleaseCallbackReturns ==
  /\ LpcRuns /\ Top.fun = "release"
  /\ lpc_socks' = IF lpc_socks[Top.which].S_RELEASE
                  THEN [lpc_socks EXCEPT ![Top.which].S_RELEASE = FALSE, ![Top.which].release_ob = Null]
                  ELSE lpc_socks
  /\ stack' = Pop
  /\ UNCHANGED <<open, O_EFUN_SOCKET, destructed, loop>>

socket_acquire(me, i) ==
  /\ Caller(me) /\ Usable(i)
  /\ lpc_socks[i].S_RELEASE /\ lpc_socks[i].release_ob = me
  /\ "acquire" \in Precautions => me \in O_EFUN_SOCKET
  /\ lpc_socks' = [lpc_socks EXCEPT
       ![i].S_RELEASE = FALSE, ![i].owner_ob = me, ![i].release_ob = Null,
       ![i].close_callback = TRUE]
  /\ UNCHANGED <<open, O_EFUN_SOCKET, destructed, loop, stack>>
-----------------------------------------------------------------------------
(* The backend.                                                            *)

(* A command, a heart beat or a call out runs LPC code; and so do new and  *)
(* old users, whom process_io() sees to after select() and before the      *)
(* sockets.                                                                *)
OtherLpc ==
  /\ stack = <<>>
  /\ at = Slots \/ (at = 0 /\ half = "read")
  /\ stack' = <<Call("lpc", Null)>>
  /\ UNCHANGED <<lpc_socks, open, O_EFUN_SOCKET, destructed, loop>>

LpcReturns ==
  /\ LpcRuns /\ Top.fun \in {"lpc", "callback"}
  /\ stack' = Pop
  /\ UNCHANGED <<lpc_socks, open, O_EFUN_SOCKET, destructed, loop>>

(* make_selectmasks() and select(): some of the descriptors asked for are  *)
(* ready.                                                                  *)
Polled == {i \in Entries : Usable(i) /\ ~lpc_socks[i].S_WACCEPT}
Blocked == {i \in Entries : lpc_socks[i].state # "CLOSED" /\ lpc_socks[i].S_BLOCKED}

make_selectmasks ==
  /\ stack = <<>> /\ at = Slots
  /\ readmask' \in SUBSET {lpc_socks[i].fd : i \in Polled}
  /\ writemask' \in SUBSET {lpc_socks[i].fd : i \in Blocked}
  /\ at' = 0 /\ half' = "read"
  /\ UNCHANGED <<lpc_socks, open, O_EFUN_SOCKET, destructed, stack>>

(* process_io() goes on to the write handler, or to the next entry.        *)
GoOn ==
  /\ IF half = "read" THEN at' = at /\ half' = "write" ELSE at' = at + 1 /\ half' = "read"
  /\ UNCHANGED <<O_EFUN_SOCKET, destructed, readmask, writemask>>

InLoop(h) == stack = <<>> /\ at < Slots /\ half = h

(* The masks are not changed when a descriptor is closed and another       *)
(* socket gets it: they may be out of date here.                           *)
Marked ==
  /\ lpc_socks[at].state # "CLOSED"
  /\ lpc_socks[at].fd \in (IF half = "read" THEN readmask ELSE writemask)

NotMarked ==
  /\ stack = <<>> /\ at < Slots /\ ~Marked
  /\ GoOn
  /\ UNCHANGED <<lpc_socks, open, stack>>

(* The socket is one that data is read from.                               *)
Readable(i) ==
  \/ lpc_socks[i].state = "BOUND" /\ lpc_socks[i].mode = "DATAGRAM"
  \/ lpc_socks[i].state = "DATA_XFER"

(* The end of the data, an error, or data where there can be none closes   *)
(* the socket.                                                             *)
ReadEnds(i) ==
  /\ lpc_socks[i].state \in {"UNBOUND", "BOUND"} \/ Readable(i)
  /\ CloseWithCallback(i)

(* A listening socket is not polled again until accept() is called; data   *)
(* goes to the read callback, unless there is none or not all of a packet  *)
(* yet.                                                                    *)
socket_read_select_handler ==
  /\ InLoop("read") /\ Marked
  /\ \/ lpc_socks[at].state = "FLUSHING" /\ UNCHANGED <<lpc_socks, open, stack>>
     \/ /\ lpc_socks[at].state = "LISTEN"
        /\ lpc_socks' = [lpc_socks EXCEPT ![at].S_WACCEPT = TRUE]
        /\ Push(Call("callback", at)) /\ open' = open
     \/ /\ Readable(at)
        /\ Push(Call("callback", at)) \/ stack' = stack
        /\ UNCHANGED <<lpc_socks, open>>
     \/ ReadEnds(at)
  /\ GoOn

(* The write handler: the system takes part of the data or fails; it takes *)
(* the rest, or there was none because the socket was connecting.          *)
WriteLater ==
  /\ InLoop("write") /\ Marked
  /\ ~lpc_socks[at].S_BLOCKED \/ lpc_socks[at].w_buf
  /\ GoOn
  /\ UNCHANGED <<lpc_socks, open, stack>>

(* Mutant of WriteDone: a FLUSHING socket is treated like the others.      *)
WriteNeverCloses ==
  /\ InLoop("write") /\ Marked /\ lpc_socks[at].S_BLOCKED
  /\ lpc_socks' = [lpc_socks EXCEPT ![at].S_BLOCKED = FALSE, ![at].w_buf = FALSE]
  /\ Push(Call("callback", at)) /\ open' = open
  /\ GoOn

WriteDone ==
  /\ InLoop("write") /\ Marked /\ lpc_socks[at].S_BLOCKED
  /\ \/ lpc_socks[at].state = "FLUSHING" /\ FinalClose(at) /\ stack' = stack
     \/ /\ lpc_socks[at].state # "FLUSHING"
        /\ lpc_socks' = [lpc_socks EXCEPT ![at].S_BLOCKED = FALSE, ![at].w_buf = FALSE]
        /\ Push(Call("callback", at)) /\ open' = open
  /\ GoOn

socket_write_select_handler == WriteLater \/ WriteDone

Return ==
  LpcReturns \/ CloseCallbackReturns \/ MoveReturns \/ ReleaseCallbackReturns

Next ==
  \/ \E me \in Objects :
       \/ \E mode \in Modes : socket_create(me, mode)
       \/ \E i \in Entries :
            \/ socket_bind(me, i) \/ socket_listen(me, i) \/ socket_accept(me, i)
            \/ socket_connect(me, i) \/ socket_write(me, i) \/ socket_close(me, i)
            \/ socket_acquire(me, i) \/ \E ob \in Objects : socket_release(me, i, ob)
       \/ destruct_object(me)
  \/ Return
  \/ OtherLpc \/ make_selectmasks \/ NotMarked
  \/ socket_read_select_handler \/ socket_write_select_handler

Spec == Init /\ [][Next]_vars
-----------------------------------------------------------------------------
(* Every socket in use has an open descriptor of its own, and no other is  *)
(* open: none is left open, closed twice, or closed under another socket   *)
(* that was given the same entry or descriptor during a callback.          *)
DescriptorsSound ==
  LET used == {i \in Entries : lpc_socks[i].state # "CLOSED"}
  IN  /\ open = {lpc_socks[i].fd : i \in used}
      /\ \A i, j \in used : lpc_socks[i].fd = lpc_socks[j].fd => i = j

(* A socket with data to write is polled for writing, whatever was called  *)
(* meanwhile, and a FLUSHING one is, or it would stay open for ever.       *)
WillBeWritten ==
  \A i \in Entries :
    /\ lpc_socks[i].state = "FLUSHING" => lpc_socks[i].S_BLOCKED
    /\ lpc_socks[i].state # "CLOSED" /\ lpc_socks[i].w_buf =>
         lpc_socks[i].S_BLOCKED /\ lpc_socks[i].state \in {"DATA_XFER", "FLUSHING"}

(* simulate.c:905-907 says of destruct_object(): "check if object has an   *)
(* efun socket referencing it for a callback. if so, close the efun        *)
(* socket".  A callback would else be applied to a destructed object.      *)
OwnersAlive == \A i \in Entries : Usable(i) => lpc_socks[i].owner_ob \notin destructed

(* A socket can be acquired only while socket_release() of its owner is    *)
(* under way, even if that closes it and the entry is used again.          *)
ReleaseEnds ==
  \A i \in Entries : Usable(i) /\ lpc_socks[i].S_RELEASE => Under("release", i)

(* The calls on the stack are for entries or objects as their efun needs.  *)
FramesTyped ==
  \A n \in DOMAIN stack :
    /\ stack[n].fun \in {"close", "release"} => stack[n].which \in Entries
    /\ stack[n].fun = "destruct" => stack[n].which \in Objects

(* What an efun that is half way through finds when its callback returns:  *)
(* the socket to be closed is still in use, and an object to be destructed *)
(* has got no new one.  The flag tells who may own a socket at all.        *)
CallsSound ==
  /\ \A n \in DOMAIN stack :
       /\ stack[n].fun = "close" => n = 1 /\ Usable(stack[n].which)
       /\ stack[n].fun = "destruct" =>
            \A i \in Entries : Usable(i) => lpc_socks[i].owner_ob # stack[n].which
  /\ \A i \in Entries : Usable(i) => lpc_socks[i].owner_ob \in O_EFUN_SOCKET

(* Table entries and descriptors match one to one, and efuns that call     *)
(* LPC code back end as they began, whatever callbacks do to the entry.    *)
TableSound == TypeOK /\ DescriptorsSound /\ ReleaseEnds /\ FramesTyped /\ CallsSound

(* The objects differ in nothing.                                        *)
ObjectSymmetry == Permutations(Objects)
=============================================================================
