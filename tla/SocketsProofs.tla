--------------------------- MODULE SocketsProofs ---------------------------
(***************************************************************************)
(* Proofs about the efun sockets, for any objects, any size of the table,  *)
(* any number of descriptors and any nesting of callbacks.  What holds of  *)
(* every mudlib comes first, then what holds of one that takes the three   *)
(* precautions.                                                            *)
(***************************************************************************)
EXTENDS Sockets, Lemmas, SequenceTheorems, TLAPS

(* What WillBeWritten says of one entry.                                   *)
EntryWritten(e) ==
  /\ e.state = "FLUSHING" => e.S_BLOCKED
  /\ e.state # "CLOSED" /\ e.w_buf => e.S_BLOCKED /\ e.state \in {"DATA_XFER", "FLUSHING"}

InUse(e) == e.state \notin {"CLOSED", "FLUSHING"}

AnyMudlib == TypeOK /\ FramesTyped /\ WillBeWritten /\ ReleaseEnds
-----------------------------------------------------------------------------
(* The stack of calls.                                                     *)

(* The stack is a sequence of frames.                                      *)
LEMMA StackFacts ==
  ASSUME TypeOK
  PROVE  /\ Len(stack) \in Nat /\ DOMAIN stack = 1..Len(stack)
         /\ \A n \in 1..Len(stack) : stack[n] \in Frame
         /\ LpcRuns => Len(stack) >= 1 /\ Top \in Frame
<1>1. stack \in Seq(Frame)
  BY DEF TypeOK
<1>2. Len(stack) \in Nat /\ DOMAIN stack = 1..Len(stack) /\ \A n \in 1..Len(stack) : stack[n] \in Frame
  BY <1>1, LenProperties, ElementOfSeq
<1>3. LpcRuns => Len(stack) # 0
  BY <1>1, EmptySeq DEF LpcRuns
<1> QED
  BY <1>2, <1>3 DEF Top

(* A call goes on top of the others.                                       *)
LEMMA Pushed ==
  ASSUME TypeOK, NEW f \in Frame, Push(f)
  PROVE  /\ stack' \in Seq(Frame) /\ Len(stack') <= MaxDepth
         /\ DOMAIN stack' = 1..(Len(stack) + 1) /\ DOMAIN stack = 1..Len(stack)
         /\ Len(stack) \in Nat
         /\ \A n \in 1..Len(stack) : stack'[n] = stack[n]
         /\ stack'[Len(stack) + 1] = f
<1>1. stack \in Seq(Frame) /\ Len(stack) \in Nat /\ DOMAIN stack = 1..Len(stack)
  BY StackFacts DEF TypeOK
<1>2. stack' = Append(stack, f) /\ Len(stack) < MaxDepth
  BY DEF Push
<1>3. /\ stack' \in Seq(Frame) /\ Len(stack') = Len(stack) + 1
      /\ \A n \in 1..Len(stack) : stack'[n] = stack[n]
      /\ stack'[Len(stack) + 1] = f
  BY <1>1, <1>2, AppendProperties
<1>4. DOMAIN stack' = 1..(Len(stack) + 1)
  BY <1>3, LenProperties
<1>5. Len(stack') <= MaxDepth
  BY <1>1, <1>2, <1>3, SocketsAssumption
<1> QED
  BY <1>1, <1>3, <1>4, <1>5

(* The call on top returns.                                                *)
LEMMA Popped ==
  ASSUME TypeOK, LpcRuns, stack' = Pop
  PROVE  /\ stack' \in Seq(Frame) /\ Len(stack') <= MaxDepth
         /\ DOMAIN stack' = 1..(Len(stack) - 1) /\ DOMAIN stack = 1..Len(stack)
         /\ Len(stack) \in Nat /\ Len(stack) >= 1
         /\ \A n \in 1..(Len(stack) - 1) : stack'[n] = stack[n]
<1>1. stack \in Seq(Frame) /\ Len(stack) \in Nat /\ DOMAIN stack = 1..Len(stack) /\ Len(stack) >= 1
      /\ Len(stack) <= MaxDepth /\ \A n \in 1..Len(stack) : stack[n] \in Frame
  BY StackFacts DEF TypeOK
<1>2. \A n \in 1..(Len(stack) - 1) : stack[n] \in Frame
  BY <1>1
<1>3. /\ SubSeq(stack, 1, Len(stack) - 1) \in Seq(Frame)
      /\ Len(SubSeq(stack, 1, Len(stack) - 1)) =
           IF 1 <= Len(stack) - 1 THEN Len(stack) - 1 - 1 + 1 ELSE 0
      /\ \A n \in 1..(Len(stack) - 1 - 1 + 1) :
           SubSeq(stack, 1, Len(stack) - 1)[n] = stack[1 + n - 1]
  BY <1>1, <1>2, SubSeqProperties
<1>4. /\ stack' \in Seq(Frame) /\ Len(stack') = Len(stack) - 1
      /\ \A n \in 1..(Len(stack) - 1) : stack'[n] = stack[n]
  BY <1>1, <1>3 DEF Pop
<1>5. DOMAIN stack' = 1..(Len(stack) - 1)
  BY <1>4, LenProperties
<1>6. Len(stack') <= MaxDepth
  BY <1>1, <1>4, SocketsAssumption
<1> QED
  BY <1>1, <1>4, <1>5, <1>6

(* What a step that calls or returns does to the frames of other calls.    *)
LEMMA UnderPushed ==
  ASSUME TypeOK, NEW f \in Frame, Push(f), NEW fun, NEW which, Under(fun, which)
  PROVE  Under(fun, which)'
<1>1. PICK n \in DOMAIN stack : stack[n] = Call(fun, which)
  BY DEF Under
<1>2. n \in 1..Len(stack) /\ stack'[n] = stack[n] /\ n \in DOMAIN stack'
  BY <1>1, Pushed
<1> QED
  BY <1>1, <1>2 DEF Under, Call

(* The calls under the one that returns stay.                              *)
LEMMA UnderPopped ==
  ASSUME TypeOK, LpcRuns, stack' = Pop, NEW fun, NEW which, Under(fun, which),
         Top # Call(fun, which)
  PROVE  Under(fun, which)'
<1>1. PICK n \in DOMAIN stack : stack[n] = Call(fun, which)
  BY DEF Under
<1>2. n \in 1..Len(stack) /\ n # Len(stack)
  BY <1>1, Popped DEF Top
<1>3. n \in 1..(Len(stack) - 1)
  BY <1>2, Popped
<1> QED
  BY <1>1, <1>3, Popped DEF Under, Call

(* A frame for an entry, an object or nobody is one.                       *)
LEMMA FrameIs ==
  ASSUME NEW fun \in {"lpc", "callback", "close", "release", "destruct"},
         NEW which \in Entries \cup Objects \cup {Null}
  PROVE  /\ Call(fun, which) \in Frame
         /\ Call(fun, which).fun = fun /\ Call(fun, which).which = which
BY DEF Call, Frame

(* Frames stay well formed when a call is made.                            *)
LEMMA TypedPushed ==
  ASSUME TypeOK, FramesTyped, NEW f \in Frame, Push(f),
         f.fun \in {"close", "release"} => f.which \in Entries,
         f.fun = "destruct" => f.which \in Objects
  PROVE  FramesTyped'
<1>1. ASSUME NEW n \in DOMAIN stack'
      PROVE  /\ stack'[n].fun \in {"close", "release"} => stack'[n].which \in Entries
             /\ stack'[n].fun = "destruct" => stack'[n].which \in Objects
  <2>1. n \in 1..Len(stack) \/ n = Len(stack) + 1
    BY Pushed
  <2>2. CASE n \in 1..Len(stack)
    BY <2>2, Pushed DEF FramesTyped
  <2>3. CASE n = Len(stack) + 1
    BY <2>3, Pushed
  <2> QED
    BY <2>1, <2>2, <2>3
<1> QED
  BY <1>1 DEF FramesTyped

(* Frames stay well formed when a call returns.                            *)
LEMMA TypedPopped ==
  ASSUME TypeOK, FramesTyped, LpcRuns, stack' = Pop
  PROVE  FramesTyped'
<1>1. ASSUME NEW n \in DOMAIN stack' PROVE n \in DOMAIN stack /\ stack'[n] = stack[n]
  BY Popped
<1> QED
  BY <1>1 DEF FramesTyped

(* The frame on top has the type its efun needs.                           *)
LEMMA TopTyped ==
  ASSUME TypeOK, FramesTyped, LpcRuns
  PROVE  /\ Top.fun \in {"close", "release"} => Top.which \in Entries
         /\ Top.fun = "destruct" => Top.which \in Objects
<1>1. Len(stack) \in DOMAIN stack
  BY StackFacts
<1> QED
  BY <1>1 DEF FramesTyped, Top
-----------------------------------------------------------------------------
(* The table.                                                              *)

(* An entry of the table has the fields of one.                            *)
LEMMA EntryFacts ==
  ASSUME TypeOK, NEW i \in Entries
  PROVE  lpc_socks[i] \in lpc_socket_t /\ (Usable(i) <=> InUse(lpc_socks[i]))
BY DEF TypeOK, Usable, InUse

(* Steps that write one entry of the table.                                *)
LEMMA OneEntry ==
  ASSUME TypeOK, NEW i \in Entries, NEW e \in lpc_socket_t, lpc_socks' = [lpc_socks EXCEPT ![i] = e]
  PROVE  /\ lpc_socks' \in [Entries -> lpc_socket_t]
         /\ lpc_socks'[i] = e
         /\ \A j \in Entries : j # i => lpc_socks'[j] = lpc_socks[j]
BY DEF TypeOK

(* A change of one entry that is in order by itself.                       *)
LEMMA OneWritten ==
  ASSUME TypeOK, WillBeWritten, NEW i \in Entries, NEW e \in lpc_socket_t,
         lpc_socks' = [lpc_socks EXCEPT ![i] = e], EntryWritten(e)
  PROVE  WillBeWritten'
<1>1. ASSUME NEW j \in Entries PROVE EntryWritten(lpc_socks'[j])
  <2>1. CASE j = i
    BY <2>1, OneEntry
  <2>2. CASE j # i
    BY <2>2, OneEntry DEF WillBeWritten, EntryWritten
  <2> QED
    BY <2>1, <2>2
<1> QED
  BY <1>1 DEF WillBeWritten, EntryWritten

(* A change of one entry that does not release it.                         *)
LEMMA OneReleased ==
  ASSUME TypeOK, ReleaseEnds, NEW i \in Entries, NEW e \in lpc_socket_t,
         lpc_socks' = [lpc_socks EXCEPT ![i] = e],
         InUse(e) /\ e.S_RELEASE => Usable(i) /\ lpc_socks[i].S_RELEASE,
         \A j \in Entries : Under("release", j) => Under("release", j)'
  PROVE  ReleaseEnds'
<1>1. ASSUME NEW j \in Entries, InUse(lpc_socks'[j]), lpc_socks'[j].S_RELEASE
      PROVE  Under("release", j)'
  <2>1. CASE j = i
    BY <1>1, <2>1, OneEntry DEF ReleaseEnds
  <2>2. CASE j # i
    BY <1>1, <2>2, OneEntry DEF ReleaseEnds, InUse, Usable
  <2> QED
    BY <2>1, <2>2
<1> QED
  BY <1>1 DEF ReleaseEnds, InUse, Usable

(* The second half of socket_close().                                      *)
LEMMA FinishCloseEntries ==
  ASSUME TypeOK, NEW S, FinishClose(S)
  PROVE  /\ lpc_socks' \in [Entries -> lpc_socket_t]
         /\ open' \subseteq open
         /\ \A i \in Entries \ S : lpc_socks'[i] = lpc_socks[i]
         /\ \A i \in Entries \cap S :
              /\ lpc_socks'[i].state = IF lpc_socks[i].S_BLOCKED THEN "FLUSHING" ELSE "CLOSED"
              /\ lpc_socks'[i].fd = lpc_socks[i].fd
              /\ lpc_socks'[i].S_BLOCKED = lpc_socks[i].S_BLOCKED
<1> DEFINE later == {i \in S : lpc_socks[i].S_BLOCKED}
           new(i) == [lpc_socks[i] EXCEPT !.state = IF i \in later THEN "FLUSHING" ELSE "CLOSED"]
<1>1. /\ lpc_socks' = [i \in Entries |-> IF i \in S THEN new(i) ELSE lpc_socks[i]]
      /\ open' = open \ {lpc_socks[i].fd : i \in S \ later}
  BY DEF FinishClose
<1>2. \A i \in Entries : lpc_socks[i] \in lpc_socket_t
  BY EntryFacts
<1>3. ASSUME NEW i \in Entries
      PROVE  /\ new(i) \in lpc_socket_t
             /\ new(i).state = IF i \in later THEN "FLUSHING" ELSE "CLOSED"
             /\ new(i).fd = lpc_socks[i].fd /\ new(i).S_BLOCKED = lpc_socks[i].S_BLOCKED
  BY <1>2 DEF lpc_socket_t, States
<1> HIDE DEF new
<1>4. lpc_socks' \in [Entries -> lpc_socket_t]
  BY <1>1, <1>2, <1>3
<1> QED
  BY <1>1, <1>3, <1>4

(* The second half of socket_close() keeps the invariant.                  *)
LEMMA FinishCloseSound ==
  ASSUME AnyMudlib, NEW S, FinishClose(S),
         \A j \in Entries : Under("release", j) => Under("release", j)'
  PROVE  /\ lpc_socks' \in [Entries -> lpc_socket_t] /\ open' \subseteq Fds
         /\ WillBeWritten' /\ ReleaseEnds'
<1> USE DEF AnyMudlib
<1>1. ASSUME NEW j \in Entries PROVE EntryWritten(lpc_socks'[j])
  <2>1. CASE j \in S
    BY <2>1, FinishCloseEntries DEF EntryWritten
  <2>2. CASE j \notin S
    BY <2>2, FinishCloseEntries DEF EntryWritten, WillBeWritten
  <2> QED
    BY <2>1, <2>2
<1>2. ASSUME NEW j \in Entries, InUse(lpc_socks'[j]), lpc_socks'[j].S_RELEASE
      PROVE  Under("release", j)'
  <2>1. j \notin S
    BY <1>2, FinishCloseEntries DEF InUse
  <2> QED
    BY <1>2, <2>1, FinishCloseEntries DEF InUse, Usable, ReleaseEnds
<1> QED
  BY <1>1, <1>2, FinishCloseEntries DEF WillBeWritten, EntryWritten, ReleaseEnds, InUse, Usable, TypeOK

(* find_new_socket() finds the first closed entry.                         *)
LEMMA NewSocketClosed ==
  ASSUME TypeOK, \E i \in Entries : lpc_socks[i].state = "CLOSED"
  PROVE  find_new_socket \in Entries /\ lpc_socks[find_new_socket].state = "CLOSED"
<1> DEFINE S == {i \in Entries : lpc_socks[i].state = "CLOSED"}
<1>1. S \subseteq Nat /\ S # {} /\ S \subseteq Entries
  BY SocketsAssumption DEF Entries
<1>2. PICK i \in S : \A j \in S : i <= j
  BY <1>1, LeastNat
<1>3. \A j \in 0..(i - 1) : j \in Entries /\ ~(i <= j)
  BY <1>1, <1>2, SocketsAssumption DEF Entries
<1>4. \E k \in Entries : lpc_socks[k].state = "CLOSED" /\ \A j \in 0..(k - 1) : lpc_socks[j].state # "CLOSED"
  BY <1>2, <1>3
<1> QED
  BY <1>4 DEF find_new_socket

(* What a new socket is.                                                   *)
NewSocket(e, fd, me) ==
  /\ e \in lpc_socket_t /\ e.fd = fd /\ e.owner_ob = me /\ InUse(e)
  /\ ~e.S_RELEASE /\ EntryWritten(e)

(* What opening a socket does to the table.                                *)
LEMMA OpenedEntries ==
  ASSUME TypeOK, NEW table \in [Entries -> lpc_socket_t], NEW me \in Objects,
         NEW mode \in {"STREAM", "DATAGRAM"}, NEW state \in {"UNBOUND", "DATA_XFER"},
         NEW blocked \in BOOLEAN, Opened(table, me, mode, state, blocked)
  PROVE  \E k \in Entries, fd \in Fds, e \in lpc_socket_t :
           /\ lpc_socks[k].state = "CLOSED" /\ fd \notin open /\ NewSocket(e, fd, me)
           /\ open' = open \cup {fd} /\ O_EFUN_SOCKET' = O_EFUN_SOCKET \cup {me}
           /\ lpc_socks' \in [Entries -> lpc_socket_t]
           /\ lpc_socks'[k] = e
           /\ \A j \in Entries : j # k => lpc_socks'[j] = table[j]
<1> DEFINE k == find_new_socket
<1>1. k \in Entries /\ lpc_socks[k].state = "CLOSED"
  BY NewSocketClosed DEF Opened
<1>2. PICK fd \in Fds \ open :
        /\ open' = open \cup {fd}
        /\ lpc_socks' = [table EXCEPT ![k] =
             [Unused EXCEPT !.fd = fd, !.mode = mode, !.state = state,
                            !.S_BLOCKED = blocked, !.owner_ob = me,
                            !.close_callback = mode # "DATAGRAM"]]
  BY DEF Opened
<1> DEFINE e == [Unused EXCEPT !.fd = fd, !.mode = mode, !.state = state,
                               !.S_BLOCKED = blocked, !.owner_ob = me,
                               !.close_callback = mode # "DATAGRAM"]
<1>3. Unused \in lpc_socket_t /\ ~Unused.S_RELEASE /\ ~Unused.w_buf
  <2> 0 \in Fds
    BY SocketsAssumption DEF Fds
  <2> QED
    BY DEF Unused, lpc_socket_t, States
<1>4. NewSocket(e, fd, me)
  <2>1. /\ e \in lpc_socket_t /\ e.fd = fd /\ e.owner_ob = me /\ e.state = state
        /\ ~e.S_RELEASE /\ ~e.w_buf
    BY <1>3 DEF lpc_socket_t, States
  <2> QED
    BY <2>1 DEF NewSocket, InUse, EntryWritten
<1> HIDE DEF e, k
<1>5. /\ lpc_socks' \in [Entries -> lpc_socket_t] /\ lpc_socks'[k] = e
      /\ \A j \in Entries : j # k => lpc_socks'[j] = table[j]
  BY <1>1, <1>2, <1>4 DEF NewSocket, e
<1>6. O_EFUN_SOCKET' = O_EFUN_SOCKET \cup {me}
  BY DEF Opened
<1> QED
  BY <1>1, <1>2, <1>4, <1>5, <1>6 DEF NewSocket
-----------------------------------------------------------------------------
(* What every mudlib can rely on.                                          *)

(* An entry in use changes, and the calls under way stay.                  *)
LEMMA EntryChanged ==
  ASSUME AnyMudlib, NEW i \in Entries, NEW e \in lpc_socket_t,
         lpc_socks' = [lpc_socks EXCEPT ![i] = e], EntryWritten(e),
         InUse(e) /\ e.S_RELEASE => Usable(i) /\ lpc_socks[i].S_RELEASE,
         UNCHANGED <<destructed, loop, stack>>,
         open' \subseteq Fds, O_EFUN_SOCKET' \subseteq Objects
  PROVE  AnyMudlib'
<1>1. UNCHANGED <<destructed, readmask, writemask, at, half, stack>>
  BY DEF loop
<1>2. \A j \in Entries : Under("release", j) => Under("release", j)'
  BY <1>1 DEF Under, Call
<1>3. WillBeWritten' /\ ReleaseEnds'
  BY <1>2, OneWritten, OneReleased DEF AnyMudlib
<1>4. TypeOK' /\ FramesTyped'
  BY <1>1, OneEntry DEF AnyMudlib, TypeOK, FramesTyped
<1> QED
  BY <1>3, <1>4 DEF AnyMudlib

(* socket_create() and socket_accept().                                    *)
LEMMA OpenedSound ==
  ASSUME AnyMudlib, NEW table \in [Entries -> lpc_socket_t], NEW me \in Objects,
         NEW mode \in {"STREAM", "DATAGRAM"}, NEW state \in {"UNBOUND", "DATA_XFER"},
         NEW blocked \in BOOLEAN, Opened(table, me, mode, state, blocked),
         \A j \in Entries : /\ EntryWritten(table[j])
                            /\ InUse(table[j]) /\ table[j].S_RELEASE => Usable(j) /\ lpc_socks[j].S_RELEASE,
         UNCHANGED <<destructed, loop, stack>>
  PROVE  AnyMudlib'
<1>1. UNCHANGED <<destructed, readmask, writemask, at, half, stack>>
  BY DEF loop
<1>2. PICK k \in Entries, fd \in Fds, e \in lpc_socket_t :
        /\ lpc_socks[k].state = "CLOSED" /\ fd \notin open /\ NewSocket(e, fd, me)
        /\ open' = open \cup {fd} /\ O_EFUN_SOCKET' = O_EFUN_SOCKET \cup {me}
        /\ lpc_socks' \in [Entries -> lpc_socket_t]
        /\ lpc_socks'[k] = e
        /\ \A j \in Entries : j # k => lpc_socks'[j] = table[j]
  BY OpenedEntries DEF AnyMudlib
<1>3. TypeOK' /\ FramesTyped'
  BY <1>1, <1>2 DEF AnyMudlib, TypeOK, FramesTyped
<1>4. \A j \in Entries : EntryWritten(lpc_socks'[j])
  BY <1>2 DEF NewSocket
<1>5. \A j \in Entries : InUse(lpc_socks'[j]) /\ lpc_socks'[j].S_RELEASE => Under("release", j)'
  <2> SUFFICES ASSUME NEW j \in Entries, InUse(lpc_socks'[j]), lpc_socks'[j].S_RELEASE
               PROVE  Under("release", j)'
    OBVIOUS
  <2>1. j # k
    BY <1>2 DEF NewSocket
  <2>2. Usable(j) /\ lpc_socks[j].S_RELEASE
    BY <1>2, <2>1
  <2> QED
    BY <1>1, <2>2 DEF AnyMudlib, ReleaseEnds, Under, Call
<1> QED
  BY <1>3, <1>4, <1>5 DEF AnyMudlib, WillBeWritten, EntryWritten, ReleaseEnds, InUse, Usable

(* Closing, with or without a call that begins or returns.                 *)
LEMMA ClosedSound ==
  ASSUME AnyMudlib, NEW S, FinishClose(S),
         stack' \in Seq(Frame), Len(stack') <= MaxDepth, FramesTyped',
         \A j \in Entries : Under("release", j) => Under("release", j)',
         UNCHANGED <<O_EFUN_SOCKET, destructed, readmask, writemask>>,
         at' \in 0..Slots, half' \in {"read", "write"}
  PROVE  AnyMudlib'
BY FinishCloseSound DEF AnyMudlib, TypeOK

(* A call begins or returns and the table stays.                           *)
LEMMA CalledSound ==
  ASSUME AnyMudlib, UNCHANGED <<lpc_socks, open, O_EFUN_SOCKET>>, destructed' \subseteq Objects,
         stack' \in Seq(Frame), Len(stack') <= MaxDepth, FramesTyped',
         \A j \in Entries : Under("release", j) => Under("release", j)',
         readmask' \subseteq Fds, writemask' \subseteq Fds,
         at' \in 0..Slots, half' \in {"read", "write"}
  PROVE  AnyMudlib'
<1>1. TypeOK'
  BY DEF AnyMudlib, TypeOK
<1>2. WillBeWritten'
  BY DEF AnyMudlib, WillBeWritten
<1>3. ReleaseEnds'
  BY DEF AnyMudlib, ReleaseEnds, Usable
<1> QED
  BY <1>1, <1>2, <1>3 DEF AnyMudlib

(* Steps without a call or a return.                                       *)
LEMMA UnderSame ==
  ASSUME stack' = stack
  PROVE  \A fun, which : Under(fun, which) => Under(fun, which)'
BY DEF Under, Call

(* process_io() goes on inside its loop.                                   *)
LEMMA GoOnTyped ==
  ASSUME TypeOK, at < Slots, GoOn
  PROVE  /\ at' \in 0..Slots /\ half' \in {"read", "write"}
         /\ UNCHANGED <<O_EFUN_SOCKET, destructed, readmask, writemask>>
         /\ at \in Entries
<1>1. at \in Int /\ Slots \in Nat /\ at \in 0..Slots
  BY SocketsAssumption DEF TypeOK
<1>2. at \in Entries /\ at + 1 \in 0..Slots
  BY <1>1 DEF Entries
<1> QED
  BY <1>1, <1>2 DEF GoOn

(* The handlers, in the loop of process_io(), change one entry and may     *)
(* call back.                                                              *)
LEMMA HandledSound ==
  ASSUME AnyMudlib, at < Slots, GoOn, NEW e \in lpc_socket_t,
         lpc_socks' = [lpc_socks EXCEPT ![at] = e], EntryWritten(e),
         InUse(e) /\ e.S_RELEASE => Usable(at) /\ lpc_socks[at].S_RELEASE,
         stack' \in Seq(Frame), Len(stack') <= MaxDepth, FramesTyped',
         \A j \in Entries : Under("release", j) => Under("release", j)',
         open' \subseteq Fds
  PROVE  AnyMudlib'
<1>1. /\ at' \in 0..Slots /\ half' \in {"read", "write"} /\ at \in Entries
      /\ UNCHANGED <<O_EFUN_SOCKET, destructed, readmask, writemask>>
  BY GoOnTyped DEF AnyMudlib
<1>2. WillBeWritten' /\ ReleaseEnds'
  BY <1>1, OneWritten, OneReleased DEF AnyMudlib
<1>3. TypeOK'
  BY <1>1, OneEntry DEF AnyMudlib, TypeOK
<1> QED
  BY <1>2, <1>3 DEF AnyMudlib

(* The driver starts with an empty table.                                  *)
LEMMA AnyMudlibInit == Init => AnyMudlib
<1> SUFFICES ASSUME Init PROVE AnyMudlib
  OBVIOUS
<1>1. 0 \in Fds /\ Slots \in 0..Slots /\ MaxDepth >= 0
  BY SocketsAssumption DEF Fds
<1>2. Unused \in lpc_socket_t /\ Unused.state = "CLOSED"
  BY <1>1 DEF Unused, lpc_socket_t, States
<1>3. \A i \in Entries : lpc_socks[i] = Unused
  BY DEF Init
<1>4. stack \in Seq(Frame) /\ Len(stack) = 0 /\ stack = <<>>
  BY EmptySeq DEF Init
<1>5. DOMAIN stack = {}
  BY <1>4
<1>6. TypeOK
  BY <1>1, <1>2, <1>4 DEF Init, TypeOK
<1> QED
  BY <1>2, <1>3, <1>5, <1>6 DEF AnyMudlib, FramesTyped, WillBeWritten, ReleaseEnds, Usable

(* The efuns that change one entry.                                        *)
LEMMA EfunsSound ==
  ASSUME AnyMudlib, NEW me \in Objects, NEW i \in Entries,
         \/ socket_bind(me, i) \/ socket_listen(me, i) \/ socket_connect(me, i)
         \/ socket_write(me, i) \/ socket_acquire(me, i)
  PROVE  AnyMudlib'
<1>1. /\ lpc_socks[i] \in lpc_socket_t /\ EntryWritten(lpc_socks[i])
      /\ open \subseteq Fds /\ O_EFUN_SOCKET \subseteq Objects
  BY EntryFacts DEF AnyMudlib, WillBeWritten, EntryWritten, TypeOK
<1>2. CASE socket_bind(me, i)
  <2> DEFINE e == [lpc_socks[i] EXCEPT !.state = "BOUND"]
  <2>1. e \in lpc_socket_t /\ EntryWritten(e) /\ (e.S_RELEASE => lpc_socks[i].S_RELEASE)
    BY <1>1, <1>2 DEF socket_bind, lpc_socket_t, EntryWritten, States
  <2>2. /\ lpc_socks' = [lpc_socks EXCEPT ![i] = e] /\ Usable(i)
        /\ UNCHANGED <<destructed, loop, stack>> /\ open' = open /\ O_EFUN_SOCKET' = O_EFUN_SOCKET
    BY <1>2 DEF socket_bind, Owns
  <2> HIDE DEF e
  <2> QED
    BY <1>1, <2>1, <2>2, EntryChanged
<1>3. CASE socket_listen(me, i)
  <2> DEFINE e == [lpc_socks[i] EXCEPT !.state = "LISTEN"]
  <2>1. e \in lpc_socket_t /\ EntryWritten(e) /\ (e.S_RELEASE => lpc_socks[i].S_RELEASE)
    BY <1>1, <1>3 DEF socket_listen, lpc_socket_t, EntryWritten, States
  <2>2. /\ lpc_socks' = [lpc_socks EXCEPT ![i] = e] /\ Usable(i)
        /\ UNCHANGED <<destructed, loop, stack>> /\ open' = open /\ O_EFUN_SOCKET' \subseteq Objects
    BY <1>1, <1>3 DEF socket_listen, Owns
  <2> HIDE DEF e
  <2> QED
    BY <1>1, <2>1, <2>2, EntryChanged
<1>4. CASE socket_connect(me, i)
  <2> DEFINE e == [lpc_socks[i] EXCEPT !.state = "DATA_XFER", !.S_BLOCKED = TRUE]
             same == lpc_socks[i]
  <2>1. e \in lpc_socket_t /\ EntryWritten(e) /\ (e.S_RELEASE => lpc_socks[i].S_RELEASE)
    BY <1>1, <1>4 DEF socket_connect, lpc_socket_t, EntryWritten, States
  <2>2. /\ lpc_socks' \in {lpc_socks, [lpc_socks EXCEPT ![i] = e]} /\ Usable(i)
        /\ UNCHANGED <<destructed, loop, stack>> /\ open' = open /\ O_EFUN_SOCKET' \subseteq Objects
    BY <1>1, <1>4 DEF socket_connect, Owns
  <2>3. lpc_socks = [lpc_socks EXCEPT ![i] = same]
    BY DEF AnyMudlib, TypeOK
  <2> HIDE DEF e
  <2>4. CASE lpc_socks' = [lpc_socks EXCEPT ![i] = e]
    BY <1>1, <2>1, <2>2, <2>4, EntryChanged
  <2>5. CASE lpc_socks' = lpc_socks
    <3>1. lpc_socks' = [lpc_socks EXCEPT ![i] = same]
      BY <2>3, <2>5
    <3> QED
      BY <1>1, <2>2, <3>1, EntryChanged
  <2> QED
    BY <2>2, <2>4, <2>5
<1>5. CASE socket_write(me, i)
  <2> DEFINE e == [lpc_socks[i] EXCEPT !.S_BLOCKED = TRUE, !.w_buf = TRUE]
  <2>1. e \in lpc_socket_t /\ EntryWritten(e) /\ (e.S_RELEASE => lpc_socks[i].S_RELEASE)
    BY <1>1, <1>5 DEF socket_write, lpc_socket_t, EntryWritten, States
  <2>2. /\ lpc_socks' = [lpc_socks EXCEPT ![i] = e] /\ Usable(i)
        /\ UNCHANGED <<destructed, loop, stack>> /\ open' = open /\ O_EFUN_SOCKET' = O_EFUN_SOCKET
    BY <1>5 DEF socket_write, Owns
  <2> HIDE DEF e
  <2> QED
    BY <1>1, <2>1, <2>2, EntryChanged
<1>6. CASE socket_acquire(me, i)
  <2> DEFINE e == [lpc_socks[i] EXCEPT !.S_RELEASE = FALSE, !.owner_ob = me, !.release_ob = Null,
                                       !.close_callback = TRUE]
  <2>1. e \in lpc_socket_t /\ EntryWritten(e) /\ ~e.S_RELEASE
    BY <1>1, <1>6 DEF lpc_socket_t, EntryWritten, States
  <2>2. /\ lpc_socks' = [lpc_socks EXCEPT ![i] = e]
        /\ UNCHANGED <<destructed, loop, stack>> /\ open' = open /\ O_EFUN_SOCKET' = O_EFUN_SOCKET
    BY <1>6 DEF socket_acquire
  <2> HIDE DEF e
  <2> QED
    BY <1>1, <2>1, <2>2, EntryChanged
<1> QED
  BY <1>2, <1>3, <1>4, <1>5, <1>6

(* socket_accept() ends the wait of its socket.                            *)
LEMMA AcceptTable ==
  ASSUME AnyMudlib, NEW i \in Entries, NEW table, table = [lpc_socks EXCEPT ![i].S_WACCEPT = FALSE]
  PROVE  /\ table \in [Entries -> lpc_socket_t]
         /\ \A j \in Entries :
              /\ EntryWritten(table[j]) /\ table[j].S_RELEASE = lpc_socks[j].S_RELEASE
              /\ table[j].state = lpc_socks[j].state /\ table[j].fd = lpc_socks[j].fd
              /\ table[j].owner_ob = lpc_socks[j].owner_ob
         /\ \E e \in lpc_socket_t : table = [lpc_socks EXCEPT ![i] = e] /\ e = table[i]
<1> DEFINE e == [lpc_socks[i] EXCEPT !.S_WACCEPT = FALSE]
<1>1. \A j \in Entries : lpc_socks[j] \in lpc_socket_t /\ EntryWritten(lpc_socks[j])
  BY EntryFacts DEF AnyMudlib, WillBeWritten, EntryWritten
<1>2. /\ e \in lpc_socket_t /\ EntryWritten(e) /\ e.S_RELEASE = lpc_socks[i].S_RELEASE
      /\ e.state = lpc_socks[i].state /\ e.fd = lpc_socks[i].fd /\ e.owner_ob = lpc_socks[i].owner_ob
  BY <1>1 DEF lpc_socket_t, EntryWritten
<1>3. table = [lpc_socks EXCEPT ![i] = e]
  OBVIOUS
<1> HIDE DEF e
<1>4. /\ table \in [Entries -> lpc_socket_t] /\ table[i] = e
      /\ \A j \in Entries : j # i => table[j] = lpc_socks[j]
  BY <1>2, <1>3 DEF AnyMudlib, TypeOK
<1> QED
  BY <1>1, <1>2, <1>3, <1>4

(* socket_create() and socket_accept(), whatever the mudlib does.          *)
LEMMA OpenersSound ==
  ASSUME AnyMudlib, NEW me \in Objects,
         \/ \E mode \in Modes : socket_create(me, mode)
         \/ \E i \in Entries : socket_accept(me, i)
  PROVE  AnyMudlib'
<1>1. \A j \in Entries : lpc_socks[j] \in lpc_socket_t /\ EntryWritten(lpc_socks[j])
  BY EntryFacts DEF AnyMudlib, WillBeWritten, EntryWritten
<1>2. ASSUME NEW mode \in Modes, socket_create(me, mode) PROVE AnyMudlib'
  <2>1. /\ Opened(lpc_socks, me, mode, "UNBOUND", FALSE) /\ UNCHANGED <<destructed, loop, stack>>
        /\ mode \in {"STREAM", "DATAGRAM"} /\ lpc_socks \in [Entries -> lpc_socket_t]
    BY <1>2, SocketsAssumption DEF socket_create, AnyMudlib, TypeOK
  <2> QED
    BY <1>1, <2>1, OpenedSound DEF Usable, InUse
<1>3. ASSUME NEW i \in Entries, socket_accept(me, i) PROVE AnyMudlib'
  <2> DEFINE table == [lpc_socks EXCEPT ![i].S_WACCEPT = FALSE]
  <2>1. /\ Owns(me, i) /\ UNCHANGED <<destructed, loop, stack>> /\ lpc_socks[i].mode \in {"STREAM", "DATAGRAM"}
        /\ \/ \E blocked \in BOOLEAN : Opened(table, me, lpc_socks[i].mode, "DATA_XFER", blocked)
           \/ lpc_socks' = table /\ UNCHANGED <<open, O_EFUN_SOCKET>>
    BY <1>1, <1>3 DEF socket_accept, lpc_socket_t
  <2>2. /\ table \in [Entries -> lpc_socket_t]
        /\ \A j \in Entries :
              /\ EntryWritten(table[j]) /\ table[j].S_RELEASE = lpc_socks[j].S_RELEASE
              /\ table[j].state = lpc_socks[j].state
        /\ \E e \in lpc_socket_t : table = [lpc_socks EXCEPT ![i] = e] /\ e = table[i]
    BY AcceptTable, ZenonT(90)
  <2> HIDE DEF table
  <2>3. ASSUME NEW blocked \in BOOLEAN, Opened(table, me, lpc_socks[i].mode, "DATA_XFER", blocked)
        PROVE  AnyMudlib'
    BY <2>1, <2>2, <2>3, OpenedSound, ZenonT(30) DEF Usable, InUse
  <2>4. CASE lpc_socks' = table /\ UNCHANGED <<open, O_EFUN_SOCKET>>
    <3>1. PICK e \in lpc_socket_t : table = [lpc_socks EXCEPT ![i] = e] /\ e = table[i]
      BY <2>2
    <3>2. EntryWritten(e) /\ (e.S_RELEASE => lpc_socks[i].S_RELEASE) /\ Usable(i)
      BY <2>1, <2>2, <3>1 DEF Owns
    <3>3. open' \subseteq Fds /\ O_EFUN_SOCKET' \subseteq Objects
      BY <2>4 DEF AnyMudlib, TypeOK
    <3> QED
      BY <2>1, <2>4, <3>1, <3>2, <3>3, EntryChanged
  <2> QED
    BY <2>1, <2>3, <2>4
<1> QED
  BY <1>2, <1>3

(* A call on top of the others keeps the releases under way under way.     *)
LEMMA ReleasesPushed ==
  ASSUME TypeOK, FramesTyped, NEW fun \in {"callback", "close", "release"}, NEW i \in Entries,
         Push(Call(fun, i))
  PROVE  /\ stack' \in Seq(Frame) /\ Len(stack') <= MaxDepth /\ FramesTyped'
         /\ \A j \in Entries : Under("release", j) => Under("release", j)'
         /\ Under(fun, i)'
<1>1. Call(fun, i) \in Frame /\ Call(fun, i).fun = fun /\ Call(fun, i).which = i
  BY FrameIs
<1>2. FramesTyped'
  BY <1>1, TypedPushed
<1>3. stack' \in Seq(Frame) /\ Len(stack') <= MaxDepth
  BY <1>1, Pushed
<1>4. \A j \in Entries : Under("release", j) => Under("release", j)'
  BY <1>1, UnderPushed
<1>5. Under(fun, i)'
  <2>1. /\ Len(stack) + 1 \in DOMAIN stack' /\ stack'[Len(stack) + 1] = Call(fun, i)
    BY <1>1, Pushed
  <2> QED
    BY <2>1 DEF Under, Call
<1> QED
  BY <1>2, <1>3, <1>4, <1>5

(* The return of another call than socket_release()'s does so too.         *)
LEMMA ReleasesPopped ==
  ASSUME TypeOK, FramesTyped, LpcRuns, stack' = Pop
  PROVE  /\ stack' \in Seq(Frame) /\ Len(stack') <= MaxDepth /\ FramesTyped'
         /\ \A j \in Entries : Under("release", j) /\ Top # Call("release", j) => Under("release", j)'
BY Popped, TypedPopped, UnderPopped

(* socket_release() and the return of its callback.                        *)
LEMMA ReleaseSound ==
  ASSUME AnyMudlib,
         \/ ReleaseCallbackReturns
         \/ \E me \in Objects, i \in Entries, ob \in Objects : socket_release(me, i, ob)
  PROVE  AnyMudlib'
<1> USE DEF AnyMudlib
<1>1. \A j \in Entries : lpc_socks[j] \in lpc_socket_t /\ EntryWritten(lpc_socks[j])
  BY EntryFacts DEF WillBeWritten, EntryWritten
<1>2. ASSUME NEW me \in Objects, NEW i \in Entries, NEW ob \in Objects, socket_release(me, i, ob)
      PROVE  AnyMudlib'
  <2> DEFINE e == [lpc_socks[i] EXCEPT !.S_RELEASE = TRUE, !.release_ob = ob]
  <2>1. e \in lpc_socket_t /\ EntryWritten(e)
    BY <1>1 DEF lpc_socket_t, EntryWritten
  <2>2. /\ lpc_socks' = [lpc_socks EXCEPT ![i] = e] /\ Push(Call("release", i))
        /\ UNCHANGED <<open, O_EFUN_SOCKET, destructed, readmask, writemask, at, half>>
    BY <1>2, ZenonT(30) DEF socket_release, loop
  <2> HIDE DEF e
  <2>3. /\ lpc_socks' \in [Entries -> lpc_socket_t] /\ lpc_socks'[i] = e
        /\ \A j \in Entries : j # i => lpc_socks'[j] = lpc_socks[j]
    BY <2>1, <2>2, OneEntry
  <2>4. /\ stack' \in Seq(Frame) /\ Len(stack') <= MaxDepth /\ FramesTyped'
        /\ \A j \in Entries : Under("release", j) => Under("release", j)'
        /\ Under("release", i)'
    BY <2>2, ReleasesPushed
  <2>5. TypeOK'
    BY <2>2, <2>3, <2>4 DEF TypeOK
  <2>6. WillBeWritten'
    BY <2>1, <2>2, OneWritten
  <2>7. ReleaseEnds'
    BY <2>3, <2>4 DEF ReleaseEnds, Usable
  <2> QED
    BY <2>4, <2>5, <2>6, <2>7
<1>3. CASE ReleaseCallbackReturns
  <2> DEFINE i == Top.which
             e == [lpc_socks[i] EXCEPT !.S_RELEASE = FALSE, !.release_ob = Null]
  <2>1. /\ LpcRuns /\ Top.fun = "release" /\ stack' = Pop
        /\ UNCHANGED <<open, O_EFUN_SOCKET, destructed, readmask, writemask, at, half>>
        /\ lpc_socks' = IF lpc_socks[i].S_RELEASE THEN [lpc_socks EXCEPT ![i] = e] ELSE lpc_socks
    BY <1>3 DEF ReleaseCallbackReturns, loop
  <2>2. i \in Entries
    BY <2>1, TopTyped
  <2> HIDE DEF i
  <2>3. e \in lpc_socket_t /\ EntryWritten(e) /\ ~e.S_RELEASE
    BY <1>1, <2>2 DEF lpc_socket_t, EntryWritten
  <2> HIDE DEF e
  <2>4. /\ lpc_socks' \in [Entries -> lpc_socket_t] /\ ~lpc_socks'[i].S_RELEASE
        /\ EntryWritten(lpc_socks'[i])
        /\ \A j \in Entries : j # i => lpc_socks'[j] = lpc_socks[j]
    <3>1. CASE lpc_socks[i].S_RELEASE
      BY <2>1, <2>2, <2>3, <3>1, OneEntry
    <3>2. CASE ~lpc_socks[i].S_RELEASE
      BY <1>1, <2>1, <2>2, <3>2 DEF TypeOK
    <3> QED
      BY <3>1, <3>2
  <2>5. /\ stack' \in Seq(Frame) /\ Len(stack') <= MaxDepth /\ FramesTyped'
        /\ \A j \in Entries : Under("release", j) /\ Top # Call("release", j) => Under("release", j)'
    BY <2>1, ReleasesPopped
  <2>6. \A j \in Entries : j # i => Top # Call("release", j)
    BY DEF Call, i
  <2>7. TypeOK'
    BY <2>1, <2>4, <2>5 DEF TypeOK
  <2>8. \A j \in Entries : EntryWritten(lpc_socks'[j])
    BY <1>1, <2>4
  <2>9. ReleaseEnds'
    BY <2>4, <2>5, <2>6 DEF ReleaseEnds, Usable
  <2> QED
    BY <2>5, <2>7, <2>8, <2>9 DEF WillBeWritten, EntryWritten
<1> QED
  BY <1>2, <1>3

(* socket_close(), its callback, and destruct_object().                    *)
LEMMA ClosersSound ==
  ASSUME AnyMudlib,
         \/ \E me \in Objects, i \in Entries : socket_close(me, i)
         \/ \E o \in Objects : destruct_object(o)
         \/ CloseCallbackReturns
  PROVE  AnyMudlib'
<1> USE DEF AnyMudlib
<1>1. ASSUME NEW me \in Objects, NEW i \in Entries, socket_close(me, i) PROVE AnyMudlib'
  <2>1. FinishClose({i}) /\ UNCHANGED <<O_EFUN_SOCKET, destructed, readmask, writemask, at, half, stack>>
    BY <1>1 DEF socket_close, loop
  <2>2. stack' \in Seq(Frame) /\ Len(stack') <= MaxDepth /\ FramesTyped' /\ at' \in 0..Slots /\ half' \in {"read", "write"}
    BY <2>1 DEF TypeOK, FramesTyped
  <2> QED
    BY <2>1, <2>2, ClosedSound, UnderSame
<1>2. ASSUME NEW o \in Objects, destruct_object(o) PROVE AnyMudlib'
  <2>1. /\ close_referencing_sockets(o) /\ Push(Call("destruct", o))
        /\ UNCHANGED <<O_EFUN_SOCKET, destructed, readmask, writemask, at, half>>
    BY <1>2 DEF destruct_object, loop
  <2>2. /\ Call("destruct", o) \in Frame /\ Call("destruct", o).fun = "destruct"
        /\ Call("destruct", o).which = o
    BY FrameIs
  <2>3. /\ stack' \in Seq(Frame) /\ Len(stack') <= MaxDepth /\ FramesTyped'
        /\ \A j \in Entries : Under("release", j) => Under("release", j)'
    BY <2>1, <2>2, Pushed, TypedPushed, UnderPushed
  <2>4. /\ at' \in 0..Slots /\ half' \in {"read", "write"}
        /\ readmask' \subseteq Fds /\ writemask' \subseteq Fds /\ destructed' \subseteq Objects
    BY <2>1 DEF TypeOK
  <2>5. CASE o \in O_EFUN_SOCKET
    <3>1. FinishClose({i \in Entries : Usable(i) /\ lpc_socks[i].owner_ob = o})
      BY <2>1, <2>5 DEF close_referencing_sockets
    <3> QED
      BY <2>1, <2>3, <2>4, <3>1, ClosedSound
  <2>6. CASE o \notin O_EFUN_SOCKET
    <3>1. UNCHANGED <<lpc_socks, open>>
      BY <2>1, <2>6 DEF close_referencing_sockets
    <3> QED
      BY <2>1, <2>3, <2>4, <3>1, CalledSound
  <2> QED
    BY <2>5, <2>6
<1>3. CASE CloseCallbackReturns
  <2>1. /\ LpcRuns /\ Top.fun = "close" /\ FinishClose({Top.which}) /\ stack' = Pop
        /\ UNCHANGED <<O_EFUN_SOCKET, destructed, readmask, writemask, at, half>>
    BY <1>3 DEF CloseCallbackReturns, loop
  <2>2. \A j \in Entries : Top # Call("release", j)
    BY <2>1 DEF Call
  <2>3. /\ stack' \in Seq(Frame) /\ Len(stack') <= MaxDepth /\ FramesTyped'
        /\ \A j \in Entries : Under("release", j) => Under("release", j)'
    BY <2>1, <2>2, ReleasesPopped
  <2>4. at' \in 0..Slots /\ half' \in {"read", "write"}
    BY <2>1 DEF TypeOK
  <2> QED
    BY <2>1, <2>3, <2>4, ClosedSound
<1> QED
  BY <1>1, <1>2, <1>3

(* Calls that begin or return without touching the table, and select().    *)
LEMMA OthersSound ==
  ASSUME AnyMudlib,
         OtherLpc \/ LpcReturns \/ MoveReturns \/ make_selectmasks \/ NotMarked \/ WriteLater
           \/ UNCHANGED vars
  PROVE  AnyMudlib'
<1> USE DEF AnyMudlib
<1>1. CASE OtherLpc
  <2>1. /\ stack = <<>> /\ stack' = <<Call("lpc", Null)>>
        /\ UNCHANGED <<lpc_socks, open, O_EFUN_SOCKET, destructed, readmask, writemask, at, half>>
    BY <1>1 DEF OtherLpc, loop
  <2>2. Call("lpc", Null) \in Frame /\ Call("lpc", Null).fun = "lpc"
    BY FrameIs
  <2> DEFINE f == Call("lpc", Null)
  <2>3. stack' \in Seq(Frame) /\ Len(stack') = 1 /\ DOMAIN stack' = 1..1 /\ stack'[1] = f
    <3> HIDE DEF f
    <3>1. stack' = <<f>> /\ f \in Frame
      BY <2>1, <2>2 DEF f
    <3> QED
      BY <3>1
  <2>4. FramesTyped'
    BY <2>2, <2>3 DEF FramesTyped
  <2>5. \A j \in Entries : ~Under("release", j)
    <3> DOMAIN stack = {}
      BY <2>1
    <3> QED
      BY DEF Under
  <2>6. 1 <= MaxDepth
    BY SocketsAssumption
  <2>7. /\ at' \in 0..Slots /\ half' \in {"read", "write"} /\ Len(stack') <= MaxDepth
        /\ readmask' \subseteq Fds /\ writemask' \subseteq Fds /\ destructed' \subseteq Objects
    BY <2>1, <2>3, <2>6 DEF TypeOK
  <2> QED
    BY <2>1, <2>3, <2>4, <2>5, <2>7, CalledSound
<1>2. CASE LpcReturns \/ MoveReturns
  <2>1. /\ LpcRuns /\ Top.fun # "release" /\ stack' = Pop
        /\ UNCHANGED <<lpc_socks, open, O_EFUN_SOCKET, readmask, writemask, at, half>>
    BY <1>2 DEF LpcReturns, MoveReturns, loop
  <2>2. destructed' \subseteq Objects
    BY <1>2, <2>1, TopTyped DEF LpcReturns, MoveReturns, TypeOK
  <2>3. \A j \in Entries : Top # Call("release", j)
    BY <2>1 DEF Call
  <2>4. /\ stack' \in Seq(Frame) /\ Len(stack') <= MaxDepth /\ FramesTyped'
        /\ \A j \in Entries : Under("release", j) => Under("release", j)'
    BY <2>1, <2>3, ReleasesPopped
  <2>5. /\ at' \in 0..Slots /\ half' \in {"read", "write"}
        /\ readmask' \subseteq Fds /\ writemask' \subseteq Fds
    BY <2>1 DEF TypeOK
  <2> QED
    BY <2>1, <2>2, <2>4, <2>5, CalledSound
<1>3. CASE make_selectmasks
  <2>1. /\ at' = 0 /\ half' = "read" /\ UNCHANGED <<lpc_socks, open, O_EFUN_SOCKET, destructed, stack>>
        /\ readmask' \in SUBSET {lpc_socks[i].fd : i \in Polled}
        /\ writemask' \in SUBSET {lpc_socks[i].fd : i \in Blocked}
    BY <1>3 DEF make_selectmasks
  <2>2. \A i \in Entries : lpc_socks[i].fd \in Fds
    BY EntryFacts DEF lpc_socket_t
  <2>3. readmask' \subseteq Fds /\ writemask' \subseteq Fds
    BY <2>1, <2>2 DEF Polled, Blocked
  <2>4. 0 \in 0..Slots
    BY SocketsAssumption
  <2>5. /\ stack' \in Seq(Frame) /\ Len(stack') <= MaxDepth /\ FramesTyped' /\ destructed' \subseteq Objects
        /\ at' \in 0..Slots /\ half' \in {"read", "write"}
    BY <2>1, <2>4 DEF TypeOK, FramesTyped
  <2> QED
    BY <2>1, <2>3, <2>5, CalledSound, UnderSame
<1>4. CASE NotMarked \/ WriteLater
  <2>1. at < Slots /\ GoOn /\ UNCHANGED <<lpc_socks, open, stack>>
    BY <1>4 DEF NotMarked, WriteLater, InLoop
  <2>2. /\ at' \in 0..Slots /\ half' \in {"read", "write"}
        /\ UNCHANGED <<O_EFUN_SOCKET, destructed, readmask, writemask>>
    BY <2>1, GoOnTyped
  <2>3. /\ stack' \in Seq(Frame) /\ Len(stack') <= MaxDepth /\ FramesTyped' /\ destructed' \subseteq Objects
        /\ readmask' \subseteq Fds /\ writemask' \subseteq Fds
    BY <2>1, <2>2 DEF TypeOK, FramesTyped
  <2> QED
    BY <2>1, <2>2, <2>3, CalledSound, UnderSame
<1>5. CASE UNCHANGED vars
  <2>1. UNCHANGED <<lpc_socks, open, O_EFUN_SOCKET, destructed, readmask, writemask, at, half, stack>>
    BY <1>5 DEF vars
  <2>2. /\ stack' \in Seq(Frame) /\ Len(stack') <= MaxDepth /\ FramesTyped' /\ destructed' \subseteq Objects
        /\ readmask' \subseteq Fds /\ writemask' \subseteq Fds
        /\ at' \in 0..Slots /\ half' \in {"read", "write"}
    BY <2>1 DEF TypeOK, FramesTyped
  <2> QED
    BY <2>1, <2>2, CalledSound, UnderSame
<1> QED
  BY <1>1, <1>2, <1>3, <1>4, <1>5

(* The read handler.                                                       *)
LEMMA ReadHandlerSound ==
  ASSUME AnyMudlib, socket_read_select_handler
  PROVE  AnyMudlib'
<1> USE DEF AnyMudlib
<1>1. at < Slots /\ GoOn /\ stack = <<>>
  BY DEF socket_read_select_handler, InLoop
<1>2. /\ at' \in 0..Slots /\ half' \in {"read", "write"} /\ at \in Entries
      /\ UNCHANGED <<O_EFUN_SOCKET, destructed, readmask, writemask>>
  BY <1>1, GoOnTyped
<1>3. /\ lpc_socks[at] \in lpc_socket_t /\ EntryWritten(lpc_socks[at])
      /\ open \subseteq Fds /\ readmask \subseteq Fds /\ writemask \subseteq Fds /\ destructed \subseteq Objects
      /\ stack \in Seq(Frame) /\ Len(stack) <= MaxDepth
  BY <1>2, EntryFacts DEF WillBeWritten, EntryWritten, TypeOK
<1>4. CASE UNCHANGED <<lpc_socks, open, stack>>
  <2>1. FramesTyped'
    BY <1>4 DEF FramesTyped
  <2> QED
    BY <1>2, <1>3, <1>4, <2>1, CalledSound, UnderSame
<1>5. CASE UNCHANGED <<lpc_socks, open>> /\ Push(Call("callback", at))
  <2>1. /\ stack' \in Seq(Frame) /\ Len(stack') <= MaxDepth /\ FramesTyped'
        /\ \A j \in Entries : Under("release", j) => Under("release", j)'
    BY <1>2, <1>5, ReleasesPushed
  <2> QED
    BY <1>2, <1>3, <1>5, <2>1, CalledSound
<1>6. CASE /\ lpc_socks[at].state = "LISTEN"
           /\ lpc_socks' = [lpc_socks EXCEPT ![at].S_WACCEPT = TRUE]
           /\ Push(Call("callback", at)) /\ open' = open
  <2> DEFINE e == [lpc_socks[at] EXCEPT !.S_WACCEPT = TRUE]
  <2>1. e \in lpc_socket_t /\ EntryWritten(e) /\ e.S_RELEASE = lpc_socks[at].S_RELEASE
    BY <1>3 DEF lpc_socket_t, EntryWritten
  <2>2. lpc_socks' = [lpc_socks EXCEPT ![at] = e] /\ Usable(at)
    BY <1>6 DEF Usable
  <2> HIDE DEF e
  <2>3. /\ stack' \in Seq(Frame) /\ Len(stack') <= MaxDepth /\ FramesTyped'
        /\ \A j \in Entries : Under("release", j) => Under("release", j)'
    BY <1>2, <1>6, ReleasesPushed
  <2> QED
    BY <1>1, <1>3, <1>6, <2>1, <2>2, <2>3, HandledSound
<1>7. CASE ReadEnds(at)
  <2>1. CASE Push(Call("close", at)) /\ UNCHANGED <<lpc_socks, open>>
    <3>1. /\ stack' \in Seq(Frame) /\ Len(stack') <= MaxDepth /\ FramesTyped'
          /\ \A j \in Entries : Under("release", j) => Under("release", j)'
      BY <1>2, <2>1, ReleasesPushed
    <3> QED
      BY <1>2, <1>3, <2>1, <3>1, CalledSound
  <2>2. CASE FinishClose({at}) /\ stack' = stack
    <3>1. FramesTyped'
      BY <2>2 DEF FramesTyped
    <3> QED
      BY <1>2, <1>3, <2>2, <3>1, ClosedSound, UnderSame
  <2> QED
    BY <1>7, <2>1, <2>2 DEF ReadEnds, CloseWithCallback
<1> QED
  BY <1>4, <1>5, <1>6, <1>7 DEF socket_read_select_handler

(* The write handler, when everything is written.                          *)
LEMMA WriteDoneSound ==
  ASSUME AnyMudlib, WriteDone
  PROVE  AnyMudlib'
<1> USE DEF AnyMudlib
<1>1. at < Slots /\ GoOn /\ stack = <<>>
  BY DEF WriteDone, InLoop
<1>2. at \in Entries
  BY <1>1, GoOnTyped
<1>3. /\ lpc_socks[at] \in lpc_socket_t /\ EntryWritten(lpc_socks[at])
      /\ open \subseteq Fds /\ stack \in Seq(Frame) /\ Len(stack) <= MaxDepth
  BY <1>2, EntryFacts DEF WillBeWritten, EntryWritten, TypeOK
<1>4. CASE FinalClose(at) /\ stack' = stack
  <2> DEFINE e == [lpc_socks[at] EXCEPT !.state = "CLOSED", !.S_BLOCKED = FALSE, !.w_buf = FALSE]
  <2>1. e \in lpc_socket_t /\ EntryWritten(e) /\ ~InUse(e)
    BY <1>3 DEF lpc_socket_t, EntryWritten, InUse, States
  <2>2. lpc_socks' = [lpc_socks EXCEPT ![at] = e] /\ open' \subseteq Fds
    BY <1>3, <1>4 DEF FinalClose
  <2> HIDE DEF e
  <2>3. FramesTyped'
    BY <1>4 DEF FramesTyped
  <2> QED
    BY <1>1, <1>3, <1>4, <2>1, <2>2, <2>3, HandledSound, UnderSame
<1>5. CASE /\ lpc_socks[at].state # "FLUSHING"
           /\ lpc_socks' = [lpc_socks EXCEPT ![at].S_BLOCKED = FALSE, ![at].w_buf = FALSE]
           /\ Push(Call("callback", at)) /\ open' = open
  <2> DEFINE e == [lpc_socks[at] EXCEPT !.S_BLOCKED = FALSE, !.w_buf = FALSE]
  <2>1. /\ e \in lpc_socket_t /\ EntryWritten(e) /\ e.S_RELEASE = lpc_socks[at].S_RELEASE
        /\ e.state = lpc_socks[at].state
    BY <1>3, <1>5 DEF lpc_socket_t, EntryWritten
  <2>2. lpc_socks' = [lpc_socks EXCEPT ![at] = e] /\ (InUse(e) => Usable(at))
    BY <1>5, <2>1 DEF Usable, InUse
  <2> HIDE DEF e
  <2>3. /\ stack' \in Seq(Frame) /\ Len(stack') <= MaxDepth /\ FramesTyped'
        /\ \A j \in Entries : Under("release", j) => Under("release", j)'
    BY <1>2, <1>5, ReleasesPushed
  <2> QED
    BY <1>1, <1>3, <1>5, <2>1, <2>2, <2>3, HandledSound
<1> QED
  BY <1>4, <1>5 DEF WriteDone

(* Every step keeps the invariant, whatever the mudlib does.               *)
LEMMA AnyMudlibStep == AnyMudlib /\ [Next]_vars => AnyMudlib'
<1> SUFFICES ASSUME AnyMudlib, [Next]_vars PROVE AnyMudlib'
  OBVIOUS
<1>1. ASSUME NEW me \in Objects, NEW mode \in Modes, socket_create(me, mode) PROVE AnyMudlib'
  BY <1>1, OpenersSound
<1>2. ASSUME NEW me \in Objects, NEW i \in Entries,
             \/ socket_bind(me, i) \/ socket_listen(me, i) \/ socket_connect(me, i)
             \/ socket_write(me, i) \/ socket_acquire(me, i)
      PROVE  AnyMudlib'
  BY <1>2, EfunsSound
<1>3. ASSUME NEW me \in Objects, NEW i \in Entries, socket_accept(me, i) PROVE AnyMudlib'
  BY <1>3, OpenersSound
<1>4. ASSUME NEW me \in Objects, NEW i \in Entries,
             socket_close(me, i) \/ \E ob \in Objects : socket_release(me, i, ob)
      PROVE  AnyMudlib'
  BY <1>4, ClosersSound, ReleaseSound
<1>5. ASSUME NEW me \in Objects, destruct_object(me) PROVE AnyMudlib'
  BY <1>5, ClosersSound
<1>6. CASE Return
  BY <1>6, OthersSound, ClosersSound, ReleaseSound DEF Return
<1>7. CASE OtherLpc \/ make_selectmasks \/ NotMarked \/ UNCHANGED vars
  BY <1>7, OthersSound
<1>8. CASE socket_read_select_handler
  BY <1>8, ReadHandlerSound
<1>9. CASE socket_write_select_handler
  BY <1>9, OthersSound, WriteDoneSound DEF socket_write_select_handler
<1> QED
  BY <1>1, <1>2, <1>3, <1>4, <1>5, <1>6, <1>7, <1>8, <1>9 DEF Next

(* Whatever the mudlib does, a socket with data to write is polled for     *)
(* writing until the data is gone, and so is one that is closed before.    *)
THEOREM NothingForgotten == Spec => []WillBeWritten
<1>1. Init => AnyMudlib
  BY AnyMudlibInit
<1>2. AnyMudlib /\ [Next]_vars => AnyMudlib'
  BY AnyMudlibStep
<1>3. AnyMudlib => WillBeWritten
  BY DEF AnyMudlib
<1> QED
  BY <1>1, <1>2, <1>3, PTL DEF Spec
-----------------------------------------------------------------------------
(* What a mudlib that takes the precautions can rely on.                   *)

CarefulMudlib == DescriptorsSound /\ CallsSound /\ OwnersAlive

Used == {i \in Entries : lpc_socks[i].state # "CLOSED"}

(* A step that opens and closes nothing.                                   *)
LEMMA DescriptorsKept ==
  ASSUME DescriptorsSound, open' = open,
         \A i \in Entries : /\ lpc_socks'[i].fd = lpc_socks[i].fd
                            /\ lpc_socks'[i].state = "CLOSED" <=> lpc_socks[i].state = "CLOSED"
  PROVE  DescriptorsSound'
<1>1. Used' = Used
  BY DEF Used
<1>2. /\ open = {lpc_socks[i].fd : i \in Used}
      /\ \A i, j \in Used : lpc_socks[i].fd = lpc_socks[j].fd => i = j
  BY DEF DescriptorsSound, Used
<1>3. \A i \in Used : i \in Entries
  BY DEF Used
<1>4. {lpc_socks'[i].fd : i \in Used} = {lpc_socks[i].fd : i \in Used}
  BY <1>3
<1> QED
  BY <1>1, <1>2, <1>3, <1>4 DEF DescriptorsSound, Used

(* Closing sockets in use closes their descriptors and no others.          *)
LEMMA DescriptorsClosed ==
  ASSUME DescriptorsSound, NEW S, S \subseteq Used,
         \A i \in Entries : lpc_socks'[i].fd = lpc_socks[i].fd,
         \A i \in Entries : lpc_socks'[i].state = "CLOSED" <=> lpc_socks[i].state = "CLOSED" \/ i \in S,
         open' = open \ {lpc_socks[i].fd : i \in S}
  PROVE  DescriptorsSound'
<1>1. Used' = Used \ S
  BY DEF Used
<1>2. /\ open = {lpc_socks[i].fd : i \in Used}
      /\ \A i, j \in Used : lpc_socks[i].fd = lpc_socks[j].fd => i = j
  BY DEF DescriptorsSound, Used
<1>3. \A i \in Used : i \in Entries
  BY DEF Used
<1>4. open' = {lpc_socks[i].fd : i \in Used \ S}
  BY <1>2
<1>5. {lpc_socks'[i].fd : i \in Used \ S} = {lpc_socks[i].fd : i \in Used \ S}
  BY <1>3
<1>6. \A i, j \in Used \ S : lpc_socks'[i].fd = lpc_socks'[j].fd => i = j
  BY <1>2, <1>3
<1> QED
  BY <1>1, <1>4, <1>5, <1>6 DEF DescriptorsSound, Used

(* A new descriptor goes into a closed entry.                              *)
LEMMA DescriptorsOpened ==
  ASSUME DescriptorsSound, NEW k \in Entries, lpc_socks[k].state = "CLOSED",
         NEW fd, fd \notin open, open' = open \cup {fd},
         lpc_socks'[k].fd = fd, lpc_socks'[k].state # "CLOSED",
         \A i \in Entries : i # k =>
            /\ lpc_socks'[i].fd = lpc_socks[i].fd
            /\ lpc_socks'[i].state = "CLOSED" <=> lpc_socks[i].state = "CLOSED"
  PROVE  DescriptorsSound'
<1>1. Used' = Used \cup {k} /\ k \notin Used
  BY DEF Used
<1>2. /\ open = {lpc_socks[i].fd : i \in Used}
      /\ \A i, j \in Used : lpc_socks[i].fd = lpc_socks[j].fd => i = j
  BY DEF DescriptorsSound, Used
<1>3. \A i \in Used : i \in Entries /\ i # k /\ lpc_socks'[i].fd = lpc_socks[i].fd
  BY <1>1 DEF Used
<1>4. {lpc_socks'[i].fd : i \in Used \cup {k}} = {lpc_socks[i].fd : i \in Used} \cup {fd}
  BY <1>3
<1>5. \A i \in Used : lpc_socks'[i].fd # fd
  BY <1>2, <1>3
<1>6. \A i, j \in Used \cup {k} : lpc_socks'[i].fd = lpc_socks'[j].fd => i = j
  BY <1>2, <1>3, <1>5
<1> QED
  BY <1>1, <1>2, <1>4, <1>6 DEF DescriptorsSound, Used

(* Who owns sockets, and what the calls under way count on.                *)
LEMMA OwnersKept ==
  ASSUME TypeOK, FramesTyped, CarefulMudlib, O_EFUN_SOCKET \subseteq O_EFUN_SOCKET',
         \A i \in Entries : InUse(lpc_socks'[i]) =>
           \/ InUse(lpc_socks[i]) /\ lpc_socks'[i].owner_ob = lpc_socks[i].owner_ob
           \/ /\ lpc_socks'[i].owner_ob \in O_EFUN_SOCKET'
              /\ lpc_socks'[i].owner_ob \notin destructed
              /\ \A n \in DOMAIN stack : stack[n].fun = "destruct" =>
                   stack[n].which # lpc_socks'[i].owner_ob,
         \A o \in destructed' : o \in destructed
           \/ \A i \in Entries : InUse(lpc_socks'[i]) => lpc_socks'[i].owner_ob # o,
         \A n \in DOMAIN stack' :
           \/ n \in DOMAIN stack /\ stack'[n] = stack[n]
           \/ stack'[n].fun \notin {"close", "destruct"}
           \/ stack'[n].fun = "close" /\ n = 1
           \/ /\ stack'[n].fun = "destruct"
              /\ \A i \in Entries : InUse(lpc_socks'[i]) => lpc_socks'[i].owner_ob # stack'[n].which,
         \A n \in DOMAIN stack' : stack'[n].fun = "close" => InUse(lpc_socks'[stack'[n].which])
  PROVE  CallsSound' /\ OwnersAlive'
<1>1. \A i \in Entries : InUse(lpc_socks[i]) =>
        /\ lpc_socks[i].owner_ob \in O_EFUN_SOCKET /\ lpc_socks[i].owner_ob \notin destructed
        /\ \A n \in DOMAIN stack : stack[n].fun = "destruct" => stack[n].which # lpc_socks[i].owner_ob
  BY DEF CarefulMudlib, CallsSound, OwnersAlive, InUse, Usable
<1>2. ASSUME NEW i \in Entries, InUse(lpc_socks'[i])
      PROVE  /\ lpc_socks'[i].owner_ob \in O_EFUN_SOCKET' /\ lpc_socks'[i].owner_ob \notin destructed'
             /\ \A n \in DOMAIN stack : stack[n].fun = "destruct" => stack[n].which # lpc_socks'[i].owner_ob
  BY <1>1, <1>2
<1>3. ASSUME NEW n \in DOMAIN stack', stack'[n].fun = "destruct", NEW i \in Entries, InUse(lpc_socks'[i])
      PROVE  lpc_socks'[i].owner_ob # stack'[n].which
  BY <1>2, <1>3
<1>4. ASSUME NEW n \in DOMAIN stack', stack'[n].fun = "close" PROVE n = 1
  BY <1>4 DEF CarefulMudlib, CallsSound
<1> QED
  BY <1>2, <1>3, <1>4 DEF CallsSound, OwnersAlive, InUse, Usable

(* An object that may come to own a socket.                                *)
MayOwn(o) ==
  /\ o \notin destructed
  /\ \A n \in DOMAIN stack : stack[n].fun = "destruct" => stack[n].which # o

(* Calls stay or return; the ones that begin are none that count on        *)
(* something.                                                              *)
CallsStay ==
  \A n \in DOMAIN stack' : \/ n \in DOMAIN stack /\ stack'[n] = stack[n]
                           \/ stack'[n].fun \notin {"close", "destruct"}

(* The table changes, and the same sockets are in use after the step.      *)
LEMMA TableKept ==
  ASSUME TypeOK, FramesTyped, FramesTyped', CarefulMudlib, CallsStay, open' = open,
         destructed' = destructed,
         O_EFUN_SOCKET \subseteq O_EFUN_SOCKET',
         \A i \in Entries :
           /\ lpc_socks'[i].fd = lpc_socks[i].fd
           /\ lpc_socks'[i].state = "CLOSED" <=> lpc_socks[i].state = "CLOSED"
           /\ InUse(lpc_socks'[i]) <=> InUse(lpc_socks[i])
           /\ InUse(lpc_socks'[i]) =>
                \/ lpc_socks'[i].owner_ob = lpc_socks[i].owner_ob
                \/ lpc_socks'[i].owner_ob \in O_EFUN_SOCKET' /\ MayOwn(lpc_socks'[i].owner_ob)
  PROVE  CarefulMudlib'
<1>1. DescriptorsSound'
  BY DescriptorsKept DEF CarefulMudlib
<1>2. \A n \in DOMAIN stack' : stack'[n].fun = "close" => InUse(lpc_socks'[stack'[n].which])
  <2> SUFFICES ASSUME NEW n \in DOMAIN stack', stack'[n].fun = "close"
               PROVE  InUse(lpc_socks'[stack'[n].which])
    OBVIOUS
  <2>1. n \in DOMAIN stack /\ stack'[n] = stack[n] /\ stack[n].which \in Entries
    BY DEF CallsStay, FramesTyped
  <2> QED
    BY <2>1 DEF CarefulMudlib, CallsSound, Usable, InUse
<1>3. \A n \in DOMAIN stack' : \/ n \in DOMAIN stack /\ stack'[n] = stack[n]
                               \/ stack'[n].fun \notin {"close", "destruct"}
  BY DEF CallsStay
<1>4. \A i \in Entries : InUse(lpc_socks'[i]) =>
        \/ InUse(lpc_socks[i]) /\ lpc_socks'[i].owner_ob = lpc_socks[i].owner_ob
        \/ /\ lpc_socks'[i].owner_ob \in O_EFUN_SOCKET'
           /\ lpc_socks'[i].owner_ob \notin destructed
           /\ \A n \in DOMAIN stack : stack[n].fun = "destruct" =>
                stack[n].which # lpc_socks'[i].owner_ob
  BY DEF MayOwn
<1>5. CallsSound' /\ OwnersAlive'
  BY <1>2, <1>3, <1>4, OwnersKept
<1> QED
  BY <1>1, <1>5 DEF CarefulMudlib

(* One entry of it changes.                                                *)
LEMMA EntryKept ==
  ASSUME TypeOK, FramesTyped, FramesTyped', CarefulMudlib, CallsStay, open' = open,
         destructed' = destructed, O_EFUN_SOCKET \subseteq O_EFUN_SOCKET',
         NEW i \in Entries, NEW e \in lpc_socket_t, lpc_socks' = [lpc_socks EXCEPT ![i] = e],
         e.fd = lpc_socks[i].fd,
         \/ e.state = lpc_socks[i].state
         \/ Usable(i) /\ InUse(e),
         \/ e.owner_ob = lpc_socks[i].owner_ob
         \/ e.owner_ob \in O_EFUN_SOCKET' /\ MayOwn(e.owner_ob)
  PROVE  CarefulMudlib'
<1>1. /\ lpc_socks'[i] = e
      /\ \A j \in Entries : j # i => lpc_socks'[j] = lpc_socks[j]
  BY OneEntry
<1>2. ASSUME NEW j \in Entries
      PROVE  /\ lpc_socks'[j].fd = lpc_socks[j].fd
             /\ lpc_socks'[j].state = "CLOSED" <=> lpc_socks[j].state = "CLOSED"
             /\ InUse(lpc_socks'[j]) <=> InUse(lpc_socks[j])
             /\ InUse(lpc_socks'[j]) =>
                  \/ lpc_socks'[j].owner_ob = lpc_socks[j].owner_ob
                  \/ lpc_socks'[j].owner_ob \in O_EFUN_SOCKET' /\ MayOwn(lpc_socks'[j].owner_ob)
  <2>1. CASE j = i
    BY <1>1, <2>1 DEF InUse, Usable
  <2>2. CASE j # i
    BY <1>1, <2>2
  <2> QED
    BY <2>1, <2>2
<1> QED
  BY <1>2, TableKept

(* Pushing a callback's or a release's call, and returning.                *)
LEMMA CallsStayPushed ==
  ASSUME TypeOK, NEW fun \in {"lpc", "callback", "release"}, NEW i \in Entries, Push(Call(fun, i))
  PROVE  CallsStay
<1>1. Call(fun, i) \in Frame /\ Call(fun, i).fun = fun
  BY FrameIs
<1>2. ASSUME NEW n \in DOMAIN stack'
      PROVE  (n \in DOMAIN stack /\ stack'[n] = stack[n]) \/ stack'[n].fun = fun
  <2>1. n \in 1..Len(stack) \/ n = Len(stack) + 1
    BY <1>1, Pushed
  <2> QED
    BY <1>1, <2>1, Pushed
<1> QED
  BY <1>2 DEF CallsStay

(* What is known of the calls under way stays when one returns.            *)
LEMMA CallsStayPopped ==
  ASSUME TypeOK, LpcRuns, stack' = Pop
  PROVE  CallsStay
<1>1. ASSUME NEW n \in DOMAIN stack' PROVE n \in DOMAIN stack /\ stack'[n] = stack[n]
  BY Popped
<1> QED
  BY <1>1 DEF CallsStay

(* An object that calls an efun may own a socket.                          *)
LEMMA CallersMayOwn ==
  ASSUME "alive" \in Precautions, TypeOK, NEW me \in Objects, Caller(me)
  PROVE  MayOwn(me)
<1>1. ASSUME NEW n \in DOMAIN stack, stack[n].fun = "destruct", stack[n].which = me PROVE FALSE
  <2>1. stack[n] \in Frame
    BY StackFacts
  <2>2. stack[n] = Call("destruct", me)
    BY <1>1, <2>1 DEF Frame, Call
  <2> QED
    BY <2>2 DEF Caller, Under
<1> QED
  BY <1>1 DEF MayOwn, Caller

(* The efuns that change one entry, with a callback or without.            *)
LEMMA EfunsCareful ==
  ASSUME {"alive", "acquire"} \subseteq Precautions, AnyMudlib, AnyMudlib', CarefulMudlib,
         NEW me \in Objects, NEW i \in Entries,
         \/ socket_bind(me, i) \/ socket_listen(me, i) \/ socket_connect(me, i)
         \/ socket_write(me, i) \/ socket_acquire(me, i)
         \/ \E ob \in Objects : socket_release(me, i, ob)
  PROVE  CarefulMudlib'
<1>1. /\ lpc_socks[i] \in lpc_socket_t /\ TypeOK /\ FramesTyped /\ FramesTyped'
      /\ lpc_socks'[i] \in lpc_socket_t
  BY EntryFacts DEF AnyMudlib, TypeOK
<1>2. stack' = stack => CallsStay
  BY DEF CallsStay
<1>3. CASE socket_bind(me, i)
  <2> DEFINE e == [lpc_socks[i] EXCEPT !.state = "BOUND"]
  <2>1. e \in lpc_socket_t /\ e.fd = lpc_socks[i].fd /\ InUse(e) /\ e.owner_ob = lpc_socks[i].owner_ob
    BY <1>1 DEF lpc_socket_t, States, InUse
  <2>2. /\ lpc_socks' = [lpc_socks EXCEPT ![i] = e] /\ Usable(i)
        /\ UNCHANGED <<open, O_EFUN_SOCKET, destructed, stack>>
    BY <1>3 DEF socket_bind, Owns
  <2> HIDE DEF e
  <2> QED
    BY <1>1, <1>2, <2>1, <2>2, EntryKept
<1>4. CASE socket_listen(me, i)
  <2> DEFINE e == [lpc_socks[i] EXCEPT !.state = "LISTEN"]
  <2>1. e \in lpc_socket_t /\ e.fd = lpc_socks[i].fd /\ InUse(e) /\ e.owner_ob = lpc_socks[i].owner_ob
    BY <1>1 DEF lpc_socket_t, States, InUse
  <2>2. /\ lpc_socks' = [lpc_socks EXCEPT ![i] = e] /\ Usable(i) /\ O_EFUN_SOCKET \subseteq O_EFUN_SOCKET'
        /\ UNCHANGED <<open, destructed, stack>>
    BY <1>4 DEF socket_listen, Owns
  <2> HIDE DEF e
  <2> QED
    BY <1>1, <1>2, <2>1, <2>2, EntryKept
<1>5. CASE socket_connect(me, i)
  <2> DEFINE e == [lpc_socks[i] EXCEPT !.state = "DATA_XFER", !.S_BLOCKED = TRUE]
             same == lpc_socks[i]
  <2>1. e \in lpc_socket_t /\ e.fd = lpc_socks[i].fd /\ InUse(e) /\ e.owner_ob = lpc_socks[i].owner_ob
    BY <1>1 DEF lpc_socket_t, States, InUse
  <2>2. /\ lpc_socks' \in {lpc_socks, [lpc_socks EXCEPT ![i] = e]} /\ Usable(i)
        /\ O_EFUN_SOCKET \subseteq O_EFUN_SOCKET' /\ UNCHANGED <<open, destructed, stack>>
    BY <1>5 DEF socket_connect, Owns
  <2>3. lpc_socks = [lpc_socks EXCEPT ![i] = same]
    BY <1>1 DEF TypeOK
  <2> HIDE DEF e
  <2>4. CASE lpc_socks' = [lpc_socks EXCEPT ![i] = e]
    BY <1>1, <1>2, <2>1, <2>2, <2>4, EntryKept
  <2>5. CASE lpc_socks' = lpc_socks
    <3>1. lpc_socks' = [lpc_socks EXCEPT ![i] = same]
      BY <2>3, <2>5
    <3> QED
      BY <1>1, <1>2, <2>2, <3>1, EntryKept
  <2> QED
    BY <2>2, <2>4, <2>5
<1>6. CASE socket_write(me, i)
  <2> DEFINE e == [lpc_socks[i] EXCEPT !.S_BLOCKED = TRUE, !.w_buf = TRUE]
  <2>1. /\ e \in lpc_socket_t /\ e.fd = lpc_socks[i].fd /\ e.state = lpc_socks[i].state
        /\ e.owner_ob = lpc_socks[i].owner_ob
    BY <1>1 DEF lpc_socket_t
  <2>2. /\ lpc_socks' = [lpc_socks EXCEPT ![i] = e]
        /\ UNCHANGED <<open, O_EFUN_SOCKET, destructed, stack>>
    BY <1>6 DEF socket_write
  <2> HIDE DEF e
  <2> QED
    BY <1>1, <1>2, <2>1, <2>2, EntryKept
<1>7. CASE socket_acquire(me, i)
  <2> DEFINE e == [lpc_socks[i] EXCEPT !.S_RELEASE = FALSE, !.owner_ob = me, !.release_ob = Null,
                                       !.close_callback = TRUE]
  <2>1. e \in lpc_socket_t /\ e.fd = lpc_socks[i].fd /\ e.state = lpc_socks[i].state /\ e.owner_ob = me
    BY <1>1 DEF lpc_socket_t
  <2>2. /\ lpc_socks' = [lpc_socks EXCEPT ![i] = e] /\ Caller(me) /\ me \in O_EFUN_SOCKET
        /\ UNCHANGED <<open, O_EFUN_SOCKET, destructed, stack>>
    BY <1>7 DEF socket_acquire
  <2>3. MayOwn(me)
    BY <1>1, <2>2, CallersMayOwn
  <2> HIDE DEF e
  <2> QED
    BY <1>1, <1>2, <2>1, <2>2, <2>3, EntryKept
<1>8. ASSUME NEW ob \in Objects, socket_release(me, i, ob) PROVE CarefulMudlib'
  <2> DEFINE e == [lpc_socks[i] EXCEPT !.S_RELEASE = TRUE, !.release_ob = ob]
  <2>1. /\ e \in lpc_socket_t /\ e.fd = lpc_socks[i].fd /\ e.state = lpc_socks[i].state
        /\ e.owner_ob = lpc_socks[i].owner_ob
    BY <1>1 DEF lpc_socket_t
  <2>2. /\ lpc_socks' = [lpc_socks EXCEPT ![i] = e] /\ Push(Call("release", i))
        /\ UNCHANGED <<open, O_EFUN_SOCKET, destructed>>
    BY <1>8 DEF socket_release
  <2>3. CallsStay
    BY <1>1, <2>2, CallsStayPushed
  <2> HIDE DEF e
  <2> QED
    BY <1>1, <2>1, <2>2, <2>3, EntryKept
<1> QED
  BY <1>3, <1>4, <1>5, <1>6, <1>7, <1>8

(* socket_create() and socket_accept().                                    *)
LEMMA OpenedCareful ==
  ASSUME "alive" \in Precautions, AnyMudlib, AnyMudlib', CarefulMudlib,
         NEW table \in [Entries -> lpc_socket_t],
         NEW me \in Objects, Caller(me),
         NEW mode \in {"STREAM", "DATAGRAM"}, NEW state \in {"UNBOUND", "DATA_XFER"},
         NEW blocked \in BOOLEAN, Opened(table, me, mode, state, blocked),
         \A j \in Entries : /\ table[j].fd = lpc_socks[j].fd /\ table[j].state = lpc_socks[j].state
                            /\ table[j].owner_ob = lpc_socks[j].owner_ob,
         UNCHANGED <<destructed, stack>>
  PROVE  CarefulMudlib'
<1>1. TypeOK /\ FramesTyped
  BY DEF AnyMudlib
<1>2. PICK k \in Entries, fd \in Fds, e \in lpc_socket_t :
        /\ lpc_socks[k].state = "CLOSED" /\ fd \notin open /\ NewSocket(e, fd, me)
        /\ open' = open \cup {fd} /\ O_EFUN_SOCKET' = O_EFUN_SOCKET \cup {me}
        /\ lpc_socks' \in [Entries -> lpc_socket_t]
        /\ lpc_socks'[k] = e
        /\ \A j \in Entries : j # k => lpc_socks'[j] = table[j]
  BY <1>1, OpenedEntries
<1>3. /\ lpc_socks'[k].fd = fd /\ InUse(lpc_socks'[k]) /\ lpc_socks'[k].owner_ob = me
      /\ lpc_socks'[k].state # "CLOSED"
  BY <1>2 DEF NewSocket, InUse
<1>4. \A j \in Entries : j # k =>
        /\ lpc_socks'[j].fd = lpc_socks[j].fd /\ lpc_socks'[j].state = lpc_socks[j].state
        /\ lpc_socks'[j].owner_ob = lpc_socks[j].owner_ob
  BY <1>2
<1>5. DescriptorsSound'
  BY <1>2, <1>3, <1>4, DescriptorsOpened DEF CarefulMudlib
<1>6. MayOwn(me)
  BY <1>1, CallersMayOwn
<1>7. \A j \in Entries : InUse(lpc_socks'[j]) =>
        \/ InUse(lpc_socks[j]) /\ lpc_socks'[j].owner_ob = lpc_socks[j].owner_ob
        \/ /\ lpc_socks'[j].owner_ob \in O_EFUN_SOCKET'
           /\ lpc_socks'[j].owner_ob \notin destructed
           /\ \A n \in DOMAIN stack : stack[n].fun = "destruct" =>
                stack[n].which # lpc_socks'[j].owner_ob
  <2> SUFFICES ASSUME NEW j \in Entries, InUse(lpc_socks'[j])
               PROVE  \/ InUse(lpc_socks[j]) /\ lpc_socks'[j].owner_ob = lpc_socks[j].owner_ob
                      \/ lpc_socks'[j].owner_ob \in O_EFUN_SOCKET' /\ MayOwn(lpc_socks'[j].owner_ob)
    BY DEF MayOwn
  <2>1. CASE j = k
    BY <1>2, <1>3, <1>6, <2>1
  <2>2. CASE j # k
    BY <1>4, <2>2 DEF InUse
  <2> QED
    BY <2>1, <2>2
<1>8. \A n \in DOMAIN stack' : stack'[n].fun = "close" => InUse(lpc_socks'[stack'[n].which])
  <2> SUFFICES ASSUME NEW n \in DOMAIN stack, stack[n].fun = "close"
               PROVE  InUse(lpc_socks'[stack[n].which])
    OBVIOUS
  <2>1. stack[n].which \in Entries /\ InUse(lpc_socks[stack[n].which])
    BY <1>1 DEF FramesTyped, CarefulMudlib, CallsSound, InUse, Usable
  <2>2. stack[n].which # k
    BY <1>2, <2>1 DEF InUse
  <2> QED
    BY <1>4, <2>1, <2>2 DEF InUse
<1>9. CallsSound' /\ OwnersAlive'
  BY <1>1, <1>2, <1>7, <1>8, OwnersKept
<1> QED
  BY <1>5, <1>9 DEF CarefulMudlib

(* The same efuns, called by objects that are alive.                       *)
LEMMA OpenersCareful ==
  ASSUME "alive" \in Precautions, AnyMudlib, AnyMudlib', CarefulMudlib, NEW me \in Objects,
         \/ \E mode \in Modes : socket_create(me, mode)
         \/ \E i \in Entries : socket_accept(me, i)
  PROVE  CarefulMudlib'
<1>1. /\ TypeOK /\ FramesTyped /\ FramesTyped' /\ lpc_socks \in [Entries -> lpc_socket_t]
      /\ \A j \in Entries : lpc_socks[j] \in lpc_socket_t
  BY EntryFacts DEF AnyMudlib, TypeOK
<1>2. ASSUME NEW mode \in Modes, socket_create(me, mode) PROVE CarefulMudlib'
  <2>1. /\ Opened(lpc_socks, me, mode, "UNBOUND", FALSE) /\ UNCHANGED <<destructed, stack>>
        /\ mode \in {"STREAM", "DATAGRAM"} /\ Caller(me)
    BY <1>2, SocketsAssumption DEF socket_create
  <2> QED
    BY <1>1, <2>1, OpenedCareful
<1>3. ASSUME NEW i \in Entries, socket_accept(me, i) PROVE CarefulMudlib'
  <2> DEFINE table == [lpc_socks EXCEPT ![i].S_WACCEPT = FALSE]
  <2>1. /\ Caller(me) /\ UNCHANGED <<destructed, stack>> /\ lpc_socks[i].mode \in {"STREAM", "DATAGRAM"}
        /\ \/ \E blocked \in BOOLEAN : Opened(table, me, lpc_socks[i].mode, "DATA_XFER", blocked)
           \/ lpc_socks' = table /\ UNCHANGED <<open, O_EFUN_SOCKET>>
    BY <1>1, <1>3 DEF socket_accept, Owns, lpc_socket_t
  <2>2. /\ table \in [Entries -> lpc_socket_t]
        /\ \A j \in Entries :
              /\ EntryWritten(table[j]) /\ table[j].S_RELEASE = lpc_socks[j].S_RELEASE
              /\ table[j].state = lpc_socks[j].state /\ table[j].fd = lpc_socks[j].fd
              /\ table[j].owner_ob = lpc_socks[j].owner_ob
    BY AcceptTable, ZenonT(30)
  <2> HIDE DEF table
  <2>3. ASSUME NEW blocked \in BOOLEAN, Opened(table, me, lpc_socks[i].mode, "DATA_XFER", blocked)
        PROVE  CarefulMudlib'
    BY <2>1, <2>2, <2>3, OpenedCareful
  <2>4. CASE lpc_socks' = table /\ UNCHANGED <<open, O_EFUN_SOCKET>>
    <3>1. CallsStay
      BY <2>1 DEF CallsStay
    <3> QED
      BY <1>1, <2>1, <2>2, <2>4, <3>1, TableKept DEF InUse
  <2> QED
    BY <2>1, <2>3, <2>4
<1> QED
  BY <1>2, <1>3

(* Closing sockets that are in use, and that no call under way is about to *)
(* close.                                                                  *)
LEMMA ClosedCareful ==
  ASSUME AnyMudlib, AnyMudlib', CarefulMudlib, NEW S \in SUBSET Entries, FinishClose(S),
         \A i \in S : Usable(i),
         UNCHANGED <<O_EFUN_SOCKET, destructed>>,
         \A n \in DOMAIN stack' :
           \/ n \in DOMAIN stack /\ stack'[n] = stack[n]
           \/ /\ stack'[n].fun = "destruct"
              /\ \A i \in Entries \ S : Usable(i) => lpc_socks[i].owner_ob # stack'[n].which,
         \A n \in DOMAIN stack' : stack'[n].fun = "close" => stack'[n].which \notin S
  PROVE  CarefulMudlib'
<1>1. TypeOK /\ FramesTyped /\ FramesTyped'
  BY DEF AnyMudlib
<1>2. /\ \A i \in Entries \ S : lpc_socks'[i] = lpc_socks[i]
      /\ \A i \in S : /\ lpc_socks'[i].state = IF lpc_socks[i].S_BLOCKED THEN "FLUSHING" ELSE "CLOSED"
                      /\ lpc_socks'[i].fd = lpc_socks[i].fd
  BY <1>1, FinishCloseEntries
<1> DEFINE closed == {i \in S : ~lpc_socks[i].S_BLOCKED}
<1>3. open' = open \ {lpc_socks[i].fd : i \in closed}
  <2> DEFINE later == {i \in S : lpc_socks[i].S_BLOCKED}
  <2>1. open' = open \ {lpc_socks[i].fd : i \in S \ later}
    BY DEF FinishClose
  <2>2. S \ later = closed
    OBVIOUS
  <2> HIDE DEF later, closed
  <2> QED
    BY <2>1, <2>2
<1>4. closed \subseteq Used
  BY DEF Used, Usable
<1>5. /\ \A i \in Entries : lpc_socks'[i].fd = lpc_socks[i].fd
      /\ \A i \in Entries : lpc_socks'[i].state = "CLOSED" <=> lpc_socks[i].state = "CLOSED" \/ i \in closed
      /\ \A i \in Entries : InUse(lpc_socks'[i]) =>
           i \notin S /\ InUse(lpc_socks[i]) /\ lpc_socks'[i].owner_ob = lpc_socks[i].owner_ob
  BY <1>2 DEF Usable, InUse
<1> HIDE DEF closed
<1>6. DescriptorsSound'
  BY <1>3, <1>4, <1>5, DescriptorsClosed DEF CarefulMudlib
<1>7. \A n \in DOMAIN stack' : stack'[n].fun = "close" => InUse(lpc_socks'[stack'[n].which])
  <2> SUFFICES ASSUME NEW n \in DOMAIN stack', stack'[n].fun = "close"
               PROVE  InUse(lpc_socks'[stack'[n].which])
    OBVIOUS
  <2>1. n \in DOMAIN stack /\ stack'[n] = stack[n] /\ stack[n].which \in Entries \ S
    BY <1>1 DEF FramesTyped
  <2> QED
    BY <1>2, <2>1 DEF CarefulMudlib, CallsSound, Usable, InUse
<1>8. \A n \in DOMAIN stack' :
        \/ n \in DOMAIN stack /\ stack'[n] = stack[n]
        \/ /\ stack'[n].fun = "destruct"
           /\ \A i \in Entries : InUse(lpc_socks'[i]) => lpc_socks'[i].owner_ob # stack'[n].which
  BY <1>5 DEF InUse, Usable
<1>9. CallsSound' /\ OwnersAlive'
  BY <1>1, <1>5, <1>7, <1>8, OwnersKept
<1> QED
  BY <1>6, <1>9 DEF CarefulMudlib

(* A call of the destruction of an object that owns no socket any more.    *)
LEMMA DestructPushed ==
  ASSUME TypeOK, NEW o \in Objects, Push(Call("destruct", o))
  PROVE  \A n \in DOMAIN stack' :
           \/ n \in DOMAIN stack /\ stack'[n] = stack[n]
           \/ stack'[n].fun = "destruct" /\ stack'[n].which = o
<1>1. /\ Call("destruct", o) \in Frame /\ Call("destruct", o).fun = "destruct"
      /\ Call("destruct", o).which = o
  BY FrameIs
<1> SUFFICES ASSUME NEW n \in DOMAIN stack'
             PROVE  \/ n \in DOMAIN stack /\ stack'[n] = stack[n]
                    \/ stack'[n].fun = "destruct" /\ stack'[n].which = o
  OBVIOUS
<1>2. n \in 1..Len(stack) \/ n = Len(stack) + 1
  BY <1>1, Pushed
<1> QED
  BY <1>1, <1>2, Pushed

(* A frame on the stack says which call it is.                             *)
LEMMA UnderIs ==
  ASSUME TypeOK, NEW n \in DOMAIN stack, stack[n].fun = "close"
  PROVE  Under("close", stack[n].which)
<1>1. stack[n] \in Frame
  BY StackFacts
<1>2. stack[n] = Call("close", stack[n].which)
  BY <1>1 DEF Frame, Call
<1> QED
  BY <1>2 DEF Under

(* socket_close(), its callback, and destruct_object().                    *)
LEMMA ClosersCareful ==
  ASSUME "close" \in Precautions, AnyMudlib, AnyMudlib', CarefulMudlib,
         \/ \E me \in Objects, i \in Entries : socket_close(me, i)
         \/ \E o \in Objects : destruct_object(o)
         \/ CloseCallbackReturns
  PROVE  CarefulMudlib'
<1>1. TypeOK /\ FramesTyped /\ FramesTyped'
  BY DEF AnyMudlib
<1>2. ASSUME NEW me \in Objects, NEW i \in Entries, socket_close(me, i) PROVE CarefulMudlib'
  <2>1. /\ FinishClose({i}) /\ UNCHANGED <<O_EFUN_SOCKET, destructed, stack>>
        /\ Usable(i) /\ ~Under("close", i)
    BY <1>2 DEF socket_close, Owns
  <2>2. \A n \in DOMAIN stack : stack[n].fun = "close" => stack[n].which \notin {i}
    BY <1>1, <2>1, UnderIs
  <2> QED
    BY <2>1, <2>2, ClosedCareful
<1>3. ASSUME NEW o \in Objects, destruct_object(o) PROVE CarefulMudlib'
  <2> DEFINE S == {i \in Entries : Usable(i) /\ lpc_socks[i].owner_ob = o}
  <2>1. /\ close_referencing_sockets(o) /\ Push(Call("destruct", o))
        /\ UNCHANGED <<O_EFUN_SOCKET, destructed>>
        /\ \A i \in Entries : Under("close", i) => lpc_socks[i].owner_ob # o
    BY <1>3 DEF destruct_object
  <2>2. \A n \in DOMAIN stack' :
          \/ n \in DOMAIN stack /\ stack'[n] = stack[n]
          \/ stack'[n].fun = "destruct" /\ stack'[n].which = o
    BY <1>1, <2>1, DestructPushed
  <2>3. ASSUME NEW n \in DOMAIN stack', stack'[n].fun = "close" PROVE stack'[n].which \notin S
    <3>1. n \in DOMAIN stack /\ stack'[n] = stack[n]
      BY <2>2, <2>3
    <3>2. Under("close", stack[n].which) /\ stack[n].which \in Entries
      BY <1>1, <2>3, <3>1, UnderIs DEF FramesTyped
    <3> QED
      BY <2>1, <3>1, <3>2
  <2>4. \A i \in Entries \ S : Usable(i) => lpc_socks[i].owner_ob # o
    OBVIOUS
  <2>5. CASE o \in O_EFUN_SOCKET
    <3>1. FinishClose(S) /\ S \in SUBSET Entries /\ \A i \in S : Usable(i)
      BY <2>1, <2>5 DEF close_referencing_sockets
    <3> HIDE DEF S
    <3> QED
      BY <2>1, <2>2, <2>3, <2>4, <3>1, ClosedCareful
  <2>6. CASE o \notin O_EFUN_SOCKET
    <3>1. UNCHANGED <<lpc_socks, open>>
      BY <2>1, <2>6 DEF close_referencing_sockets
    <3>2. DescriptorsSound'
      BY <3>1, DescriptorsKept DEF CarefulMudlib
    <3>3. \A i \in Entries : InUse(lpc_socks[i]) => lpc_socks[i].owner_ob # o
      BY <2>6 DEF CarefulMudlib, CallsSound, InUse, Usable
    <3>4. \A n \in DOMAIN stack' : stack'[n].fun = "close" => InUse(lpc_socks'[stack'[n].which])
      BY <2>2, <3>1 DEF CarefulMudlib, CallsSound, InUse, Usable
    <3>5. \A n \in DOMAIN stack' :
            \/ n \in DOMAIN stack /\ stack'[n] = stack[n]
            \/ /\ stack'[n].fun = "destruct"
               /\ \A i \in Entries : InUse(lpc_socks'[i]) => lpc_socks'[i].owner_ob # stack'[n].which
      BY <2>2, <3>1, <3>3
    <3>6. CallsSound' /\ OwnersAlive'
      BY <1>1, <2>1, <3>1, <3>4, <3>5, OwnersKept
    <3> QED
      BY <3>2, <3>6 DEF CarefulMudlib
  <2> QED
    BY <2>5, <2>6
<1>4. CASE CloseCallbackReturns
  <2>1. /\ LpcRuns /\ Top.fun = "close" /\ FinishClose({Top.which}) /\ stack' = Pop
        /\ UNCHANGED <<O_EFUN_SOCKET, destructed>>
    BY <1>4 DEF CloseCallbackReturns
  <2>2. /\ Len(stack) \in DOMAIN stack /\ Len(stack) = 1 /\ Usable(Top.which) /\ Top.which \in Entries
    BY <1>1, <2>1, StackFacts, TopTyped DEF CarefulMudlib, CallsSound, Top
  <2>3. DOMAIN stack' = {}
    BY <1>1, <2>1, <2>2, Popped
  <2> QED
    BY <2>1, <2>2, <2>3, ClosedCareful
<1> QED
  BY <1>2, <1>3, <1>4

(* The returns of other calls, the steps that leave the table alone, and   *)
(* the start of LPC code.                                                  *)
LEMMA OthersCareful ==
  ASSUME AnyMudlib, AnyMudlib', CarefulMudlib,
         \/ OtherLpc \/ LpcReturns \/ MoveReturns \/ ReleaseCallbackReturns
         \/ make_selectmasks \/ NotMarked \/ WriteLater \/ UNCHANGED vars
  PROVE  CarefulMudlib'
<1>1. TypeOK /\ FramesTyped /\ FramesTyped' /\ lpc_socks \in [Entries -> lpc_socket_t]
  BY DEF AnyMudlib, TypeOK
<1>2. CASE OtherLpc
  <2>1. stack' = <<Call("lpc", Null)>> /\ UNCHANGED <<lpc_socks, open, O_EFUN_SOCKET, destructed>>
    BY <1>2 DEF OtherLpc
  <2>2. Call("lpc", Null).fun = "lpc"
    BY FrameIs
  <2> DEFINE f == Call("lpc", Null)
  <2>3. DOMAIN stack' = 1..1 /\ stack'[1] = f
    <3> HIDE DEF f
    <3>1. stack' = <<f>>
      BY <2>1 DEF f
    <3> QED
      BY <3>1
  <2>4. CallsStay
    BY <2>2, <2>3 DEF CallsStay
  <2> QED
    BY <1>1, <2>1, <2>4, TableKept
<1>3. CASE LpcReturns
  <2>1. LpcRuns /\ stack' = Pop /\ UNCHANGED <<lpc_socks, open, O_EFUN_SOCKET, destructed>>
    BY <1>3 DEF LpcReturns
  <2>2. CallsStay
    BY <1>1, <2>1, CallsStayPopped
  <2> QED
    BY <1>1, <2>1, <2>2, TableKept
<1>4. CASE MoveReturns
  <2>1. /\ LpcRuns /\ Top.fun = "destruct" /\ stack' = Pop
        /\ destructed' \in {destructed, destructed \cup {Top.which}}
        /\ UNCHANGED <<lpc_socks, open, O_EFUN_SOCKET>>
    BY <1>4 DEF MoveReturns
  <2>2. Len(stack) \in DOMAIN stack
    BY <1>1, <2>1, StackFacts
  <2>3. \A i \in Entries : InUse(lpc_socks[i]) => lpc_socks[i].owner_ob # Top.which
    BY <2>1, <2>2 DEF CarefulMudlib, CallsSound, Top, InUse, Usable
  <2>4. \A o \in destructed' : o \in destructed
          \/ \A i \in Entries : InUse(lpc_socks'[i]) => lpc_socks'[i].owner_ob # o
    BY <2>1, <2>3
  <2>5. DescriptorsSound'
    BY <2>1, DescriptorsKept DEF CarefulMudlib
  <2>6. \A n \in DOMAIN stack' : n \in DOMAIN stack /\ stack'[n] = stack[n]
    BY <1>1, <2>1, Popped
  <2>7. \A n \in DOMAIN stack' : stack'[n].fun = "close" => InUse(lpc_socks'[stack'[n].which])
    BY <2>1, <2>6 DEF CarefulMudlib, CallsSound, InUse, Usable
  <2>8. CallsSound' /\ OwnersAlive'
    BY <1>1, <2>1, <2>4, <2>6, <2>7, OwnersKept
  <2> QED
    BY <2>5, <2>8 DEF CarefulMudlib
<1>5. CASE ReleaseCallbackReturns
  <2> DEFINE i == Top.which
             e == [lpc_socks[i] EXCEPT !.S_RELEASE = FALSE, !.release_ob = Null]
  <2>1. /\ LpcRuns /\ Top.fun = "release" /\ stack' = Pop
        /\ UNCHANGED <<open, O_EFUN_SOCKET, destructed>>
        /\ lpc_socks' = IF lpc_socks[i].S_RELEASE THEN [lpc_socks EXCEPT ![i] = e] ELSE lpc_socks
    BY <1>5 DEF ReleaseCallbackReturns
  <2>2. i \in Entries
    BY <1>1, <2>1, TopTyped
  <2> HIDE DEF i
  <2>3. lpc_socks[i] \in lpc_socket_t
    BY <1>1, <2>2
  <2>4. /\ e \in lpc_socket_t /\ e.fd = lpc_socks[i].fd /\ e.state = lpc_socks[i].state
        /\ e.owner_ob = lpc_socks[i].owner_ob
    BY <2>3 DEF lpc_socket_t
  <2> HIDE DEF e
  <2>5. CallsStay
    BY <1>1, <2>1, CallsStayPopped
  <2>6. CASE lpc_socks[i].S_RELEASE
    <3>1. lpc_socks' = [lpc_socks EXCEPT ![i] = e]
      BY <2>1, <2>6
    <3> QED
      BY <1>1, <2>1, <2>2, <2>4, <2>5, <3>1, EntryKept
  <2>7. CASE ~lpc_socks[i].S_RELEASE
    <3>1. lpc_socks' = lpc_socks
      BY <2>1, <2>7
    <3> QED
      BY <1>1, <2>1, <2>5, <3>1, TableKept
  <2> QED
    BY <2>6, <2>7
<1>6. CASE make_selectmasks \/ NotMarked \/ WriteLater \/ UNCHANGED vars
  <2>1. UNCHANGED <<lpc_socks, open, O_EFUN_SOCKET, destructed, stack>>
    BY <1>6 DEF make_selectmasks, NotMarked, WriteLater, GoOn, vars
  <2>2. CallsStay
    BY <2>1 DEF CallsStay
  <2> QED
    BY <1>1, <2>1, <2>2, TableKept
<1> QED
  BY <1>2, <1>3, <1>4, <1>5, <1>6

(* The handlers; no other call is under way then.                          *)
LEMMA HandlersCareful ==
  ASSUME AnyMudlib, AnyMudlib', CarefulMudlib, socket_read_select_handler \/ WriteDone
  PROVE  CarefulMudlib'
<1>1. /\ TypeOK /\ FramesTyped /\ FramesTyped' /\ stack = <<>> /\ GoOn /\ at < Slots
      /\ lpc_socks \in [Entries -> lpc_socket_t] /\ Marked
  BY DEF AnyMudlib, TypeOK, socket_read_select_handler, WriteDone, InLoop
<1>2. at \in Entries /\ UNCHANGED <<O_EFUN_SOCKET, destructed>>
  BY <1>1, GoOnTyped
<1>3. lpc_socks[at] \in lpc_socket_t /\ DOMAIN stack = {} /\ Len(stack) = 0
  BY <1>1, <1>2
<1>4. CASE UNCHANGED <<lpc_socks, open, stack>>
  <2>1. CallsStay
    BY <1>4 DEF CallsStay
  <2> QED
    BY <1>1, <1>2, <1>4, <2>1, TableKept
<1>5. ASSUME Push(Call("callback", at)) PROVE CallsStay
  BY <1>1, <1>2, <1>5, CallsStayPushed
<1>6. CASE UNCHANGED <<lpc_socks, open>> /\ Push(Call("callback", at))
  BY <1>1, <1>2, <1>5, <1>6, TableKept
<1>7. CASE /\ lpc_socks' = [lpc_socks EXCEPT ![at].S_WACCEPT = TRUE]
           /\ Push(Call("callback", at)) /\ open' = open
  <2> DEFINE e == [lpc_socks[at] EXCEPT !.S_WACCEPT = TRUE]
  <2>1. /\ e \in lpc_socket_t /\ e.fd = lpc_socks[at].fd /\ e.state = lpc_socks[at].state
        /\ e.owner_ob = lpc_socks[at].owner_ob
    BY <1>3 DEF lpc_socket_t
  <2>2. lpc_socks' = [lpc_socks EXCEPT ![at] = e]
    BY <1>7
  <2> HIDE DEF e
  <2> QED
    BY <1>1, <1>2, <1>5, <1>7, <2>1, <2>2, EntryKept
<1>8. CASE /\ lpc_socks' = [lpc_socks EXCEPT ![at].S_BLOCKED = FALSE, ![at].w_buf = FALSE]
           /\ Push(Call("callback", at)) /\ open' = open
  <2> DEFINE e == [lpc_socks[at] EXCEPT !.S_BLOCKED = FALSE, !.w_buf = FALSE]
  <2>1. /\ e \in lpc_socket_t /\ e.fd = lpc_socks[at].fd /\ e.state = lpc_socks[at].state
        /\ e.owner_ob = lpc_socks[at].owner_ob
    BY <1>3 DEF lpc_socket_t
  <2>2. lpc_socks' = [lpc_socks EXCEPT ![at] = e]
    BY <1>8
  <2> HIDE DEF e
  <2> QED
    BY <1>1, <1>2, <1>5, <1>8, <2>1, <2>2, EntryKept
<1>9. CASE ReadEnds(at)
  <2>1. Usable(at)
    BY <1>9 DEF ReadEnds, Readable, Usable
  <2>2. CASE Push(Call("close", at)) /\ UNCHANGED <<lpc_socks, open>>
    <3>1. /\ Call("close", at) \in Frame /\ Call("close", at).fun = "close"
          /\ Call("close", at).which = at
      BY <1>2, FrameIs
    <3>2. DOMAIN stack' = 1..(Len(stack) + 1) /\ stack'[Len(stack) + 1] = Call("close", at)
      BY <1>1, <2>2, <3>1, Pushed
    <3>3. \A n \in DOMAIN stack' : n = 1 /\ stack'[n].fun = "close" /\ stack'[n].which = at
      BY <1>3, <3>1, <3>2
    <3>4. DescriptorsSound'
      BY <2>2, DescriptorsKept DEF CarefulMudlib
    <3>5. \A n \in DOMAIN stack' : stack'[n].fun = "close" => InUse(lpc_socks'[stack'[n].which])
      BY <2>1, <2>2, <3>3 DEF InUse, Usable
    <3>6. CallsSound' /\ OwnersAlive'
      BY <1>1, <1>2, <2>2, <3>3, <3>5, OwnersKept
    <3> QED
      BY <3>4, <3>6 DEF CarefulMudlib
  <2>3. CASE FinishClose({at}) /\ stack' = stack
    BY <1>2, <1>3, <2>1, <2>3, ClosedCareful
  <2> QED
    BY <1>9, <2>2, <2>3 DEF ReadEnds, CloseWithCallback
<1>10. CASE FinalClose(at) /\ stack' = stack /\ lpc_socks[at].state = "FLUSHING"
  <2> DEFINE e == [lpc_socks[at] EXCEPT !.state = "CLOSED", !.S_BLOCKED = FALSE, !.w_buf = FALSE]
  <2>1. e \in lpc_socket_t /\ e.fd = lpc_socks[at].fd /\ e.state = "CLOSED"
    BY <1>3 DEF lpc_socket_t, States
  <2>2. lpc_socks' = [lpc_socks EXCEPT ![at] = e] /\ open' = open \ {lpc_socks[at].fd}
    BY <1>10 DEF FinalClose
  <2> HIDE DEF e
  <2>3. lpc_socks'[at] = e /\ \A j \in Entries : j # at => lpc_socks'[j] = lpc_socks[j]
    BY <1>1, <1>2, <2>1, <2>2, OneEntry
  <2>4. /\ \A i \in Entries : lpc_socks'[i].fd = lpc_socks[i].fd
        /\ \A i \in Entries : lpc_socks'[i].state = "CLOSED" <=> lpc_socks[i].state = "CLOSED" \/ i \in {at}
        /\ \A i \in Entries : InUse(lpc_socks'[i]) =>
             InUse(lpc_socks[i]) /\ lpc_socks'[i].owner_ob = lpc_socks[i].owner_ob
    BY <2>1, <2>3 DEF InUse
  <2>5. {at} \subseteq Used
    BY <1>2, <1>10 DEF Used
  <2>6. {lpc_socks[i].fd : i \in {at}} = {lpc_socks[at].fd}
    OBVIOUS
  <2>7. DescriptorsSound'
    BY <2>2, <2>4, <2>5, <2>6, DescriptorsClosed DEF CarefulMudlib
  <2>8. CallsSound' /\ OwnersAlive'
    BY <1>1, <1>2, <1>3, <1>10, <2>4, OwnersKept
  <2> QED
    BY <2>7, <2>8 DEF CarefulMudlib
<1>11. CASE socket_read_select_handler
  BY <1>4, <1>6, <1>7, <1>9, <1>11 DEF socket_read_select_handler
<1>12. CASE WriteDone
  BY <1>8, <1>10, <1>12 DEF WriteDone
<1> QED
  BY <1>11, <1>12

(* The mudlib takes all the precautions.                                   *)
Careful == Precautions = {"close", "alive", "acquire"}

(* The driver starts without descriptors and calls.                        *)
LEMMA CarefulMudlibInit == Init => CarefulMudlib
<1> SUFFICES ASSUME Init PROVE CarefulMudlib
  OBVIOUS
<1>1. \A i \in Entries : lpc_socks[i].state = "CLOSED"
  BY DEF Init, Unused
<1>2. stack = <<>> /\ open = {}
  BY DEF Init
<1>3. DOMAIN stack = {}
  BY <1>2
<1> QED
  BY <1>1, <1>2, <1>3 DEF CarefulMudlib, DescriptorsSound, CallsSound, OwnersAlive, Usable

(* Every step of a careful mudlib keeps the table as it should be.         *)
LEMMA CarefulMudlibStep ==
  ASSUME Careful, AnyMudlib, CarefulMudlib, [Next]_vars
  PROVE  CarefulMudlib'
<1>0. AnyMudlib' /\ "close" \in Precautions /\ "alive" \in Precautions /\ {"alive", "acquire"} \subseteq Precautions
  BY AnyMudlibStep DEF Careful
<1>1. ASSUME NEW me \in Objects, NEW mode \in Modes, socket_create(me, mode) PROVE CarefulMudlib'
  BY <1>0, <1>1, OpenersCareful
<1>2. ASSUME NEW me \in Objects, NEW i \in Entries,
             \/ socket_bind(me, i) \/ socket_listen(me, i) \/ socket_connect(me, i)
             \/ socket_write(me, i) \/ socket_acquire(me, i) \/ \E ob \in Objects : socket_release(me, i, ob)
      PROVE  CarefulMudlib'
  BY <1>0, <1>2, EfunsCareful
<1>3. ASSUME NEW me \in Objects, NEW i \in Entries, socket_accept(me, i) PROVE CarefulMudlib'
  BY <1>0, <1>3, OpenersCareful
<1>4. ASSUME NEW me \in Objects, NEW i \in Entries, socket_close(me, i) PROVE CarefulMudlib'
  BY <1>0, <1>4, ClosersCareful
<1>5. ASSUME NEW me \in Objects, destruct_object(me) PROVE CarefulMudlib'
  BY <1>0, <1>5, ClosersCareful
<1>6. CASE Return
  BY <1>0, <1>6, OthersCareful, ClosersCareful DEF Return
<1>7. CASE OtherLpc \/ make_selectmasks \/ NotMarked \/ UNCHANGED vars
  BY <1>0, <1>7, OthersCareful
<1>8. CASE socket_read_select_handler \/ socket_write_select_handler
  BY <1>0, <1>8, OthersCareful, HandlersCareful DEF socket_write_select_handler
<1> QED
  BY <1>1, <1>2, <1>3, <1>4, <1>5, <1>6, <1>7, <1>8 DEF Next

(* If the mudlib takes the three precautions, entries and descriptors      *)
(* match one to one at any time, whatever handlers, callbacks and          *)
(* destructions do in which order: no descriptor is left open or closed    *)
(* under another socket, a release ends with its callback, and an efun     *)
(* finds the socket it was about to close still in use.                    *)
THEOREM TableAlwaysSound == Careful => (Spec => []TableSound)
<1> SUFFICES ASSUME Careful PROVE Spec => []TableSound
  OBVIOUS
<1>1. Init => AnyMudlib /\ CarefulMudlib
  BY AnyMudlibInit, CarefulMudlibInit
<1>2. AnyMudlib /\ CarefulMudlib /\ [Next]_vars => (AnyMudlib /\ CarefulMudlib)'
  BY AnyMudlibStep, CarefulMudlibStep
<1>3. AnyMudlib /\ CarefulMudlib => TableSound
  BY DEF AnyMudlib, CarefulMudlib, TableSound
<1> QED
  BY <1>1, <1>2, <1>3, PTL DEF Spec

(* With the same precautions no socket in use belongs to a destructed      *)
(* object: destruct_object() closes them and none is opened or acquired    *)
(* for it while the move() calls of its contents run.                      *)
THEOREM OwnersAlwaysAlive == Careful => (Spec => []OwnersAlive)
<1> SUFFICES ASSUME Careful PROVE Spec => []OwnersAlive
  OBVIOUS
<1>1. Init => AnyMudlib /\ CarefulMudlib
  BY AnyMudlibInit, CarefulMudlibInit
<1>2. AnyMudlib /\ CarefulMudlib /\ [Next]_vars => (AnyMudlib /\ CarefulMudlib)'
  BY AnyMudlibStep, CarefulMudlibStep
<1>3. AnyMudlib /\ CarefulMudlib => OwnersAlive
  BY DEF CarefulMudlib
<1> QED
  BY <1>1, <1>2, <1>3, PTL DEF Spec
=============================================================================
