---------------------------- MODULE Connections ----------------------------
(***************************************************************************)
(* The connected users of src/src/comm.c: the array all_users[], the       *)
(* structure (interactive_t) of each connection, its links to the object   *)
(* that owns it, and the counters num_user and num_hidden.  A connection   *)
(* is born on the master object, handed to the object connect() returns,   *)
(* moved by exec(), snooped, given turns by get_user_command(), and        *)
(* removed by remove_interactive(), which calls LPC code half way through. *)
(* `stack' holds the LPC calls under way that the driver comes back from;  *)
(* while it is not empty any LPC code may run.                             *)
(***************************************************************************)
EXTENDS Integers, Sequences, FiniteSets, TLC

CONSTANTS
  Users,             \* objects that may become interactive
  Masters,           \* the copies of the master object
  Conns,             \* the memory blocks that serve as interactive_t
  Slots,             \* all_users[] has the entries 0 .. Slots - 1
  Hiders,            \* the objects that call set_hide()
  Careful,           \* whether the mudlib keeps away from the calls that the
                     \* driver does not survive: an error in connect(), an
                     \* answer of connect() that is interactive already or is
                     \* the master object, exec() from net_dead(), exec() to
                     \* the master object
  Null, Failed

ASSUME ConnectionsAssumption ==
  /\ Users \cap Masters = {} /\ Masters # {} /\ Hiders \subseteq Users \cup Masters
  /\ Slots \in Nat \ {0} /\ IsFiniteSet(Conns)
  /\ Careful \in BOOLEAN
  /\ Null \notin Users \cup Masters \cup Conns /\ Failed \notin Users \cup Masters \cup {Null}

VARIABLES
  all_users,         \* slot -> connection
  interactive,       \* object -> connection
  ip,                \* connection -> its structure, or Null when not allocated
  O_HIDDEN, destructed,
  master_ob,
  num_user, num_hidden,
  NextCmdGiver,
  stack,             \* LPC calls under way: [fun, ob, ip]
  passed             \* history: connection -> the connections served while
                     \* it waits for its command to be taken

vars == <<all_users, interactive, ip, O_HIDDEN, destructed, master_ob, num_user,
          num_hidden, NextCmdGiver, stack, passed>>

Objects == Users \cup Masters
Index == 0..(Slots - 1)
Frame == [fun: {"connect", "net_dead", "lpc"}, ob: Objects \cup {Null}, ip: Conns \cup {Null}]
Interactive == [ob: Objects, CLOSING: BOOLEAN, CMD_IN_BUF: BOOLEAN,
                snoop_on: Conns \cup {Null}, snoop_by: Conns \cup {Null}]

ASSUME NullAssumption == Null \notin Interactive

Live == {c \in Conns : ip[c] # Null}
Waiting == {c \in Live : ip[c].CMD_IN_BUF}

(* The counters never run below zero, and no more calls of net_dead() are  *)
(* nested than there are connections.                                      *)
TypeOK ==
  /\ all_users \in [Index -> Conns \cup {Null}]
  /\ interactive \in [Objects -> Conns \cup {Null}]
  /\ ip \in [Conns -> Interactive \cup {Null}]
  /\ O_HIDDEN \subseteq Objects /\ destructed \subseteq Objects
  /\ master_ob \in Masters
  /\ num_user \in 0..Slots /\ num_hidden \in 0..num_user
  /\ NextCmdGiver \in Index
  /\ stack \in Seq(Frame) /\ Len(stack) <= 1 + Cardinality(Conns)
  /\ passed \in [Conns -> SUBSET Conns]

Init ==
  /\ all_users = [i \in Index |-> Null]
  /\ interactive = [o \in Objects |-> Null]
  /\ ip = [c \in Conns |-> Null]
  /\ O_HIDDEN = {} /\ destructed = {}
  /\ master_ob \in Masters
  /\ num_user = 0 /\ num_hidden = 0 /\ NextCmdGiver = 0
  /\ stack = <<>>
  /\ passed = [c \in Conns |-> {}]
-----------------------------------------------------------------------------
Top == stack[Len(stack)]
Pop == SubSeq(stack, 1, Len(stack) - 1)
Call(fun, ob, c) == [fun |-> fun, ob |-> ob, ip |-> c]

InBackend == stack = <<>>
LpcRuns == stack # <<>>

(* The objects LPC code can name; of the master copies only the one loaded.*)
Alive(o) == o \in (Users \cup {master_ob}) \ destructed

(* The objects whose code may run, destructed ones included.               *)
Running(o) == Alive(o) \/ \E n \in DOMAIN stack : stack[n].ob = o

(* The structures with the links between c and others taken out.           *)
Unsnooped(s, c) ==
  [d \in Conns |->
     IF s[d] = Null THEN Null
     ELSE [s[d] EXCEPT !.snoop_by = IF c \in {d, @} THEN Null ELSE @,
                       !.snoop_on = IF c \in {d, @} THEN Null ELSE @]]

(* The second half of remove_interactive(): the structure is freed.        *)
FinishRemove(o, c) ==
  /\ ip' = [Unsnooped(ip, c) EXCEPT ![c] = Null]
  /\ num_hidden' = num_hidden - (IF o \in O_HIDDEN THEN 1 ELSE 0)
  /\ num_user' = num_user - 1
  /\ interactive' = [interactive EXCEPT ![o] = Null]
  /\ all_users' = [i \in Index |-> IF all_users[i] = c THEN Null ELSE all_users[i]]
  /\ passed' = [d \in Conns |-> IF d = c THEN {} ELSE passed[d] \ {c}]

(* Mutant of remove_interactive: a connection being closed is closed again.*)
RemoveAgain(o, dested, frames) ==
  LET c == interactive[o]
  IN  IF c = Null
      THEN UNCHANGED <<ip, num_hidden, num_user, interactive, all_users, passed>> /\ stack' = frames
      ELSE IF dested
      THEN FinishRemove(o, c) /\ stack' = frames
      ELSE /\ ip' = [ip EXCEPT ![c].CLOSING = TRUE]
           /\ stack' = Append(frames, Call("net_dead", o, c))
           /\ UNCHANGED <<num_hidden, num_user, interactive, all_users, passed>>

(* remove_interactive(), called with the given frames on the stack.  It    *)
(* does nothing while the connection is being closed.  If the object is    *)
(* not being destructed, net_dead() is called in it first.                 *)
remove_interactive(o, dested, frames) ==
  LET c == interactive[o]
  IN  IF c = Null \/ (c # Null /\ ip[c].CLOSING)
      THEN UNCHANGED <<ip, num_hidden, num_user, interactive, all_users, passed>> /\ stack' = frames
      ELSE IF dested
      THEN FinishRemove(o, c) /\ stack' = frames
      ELSE /\ ip' = [ip EXCEPT ![c].CLOSING = TRUE]
           /\ stack' = Append(frames, Call("net_dead", o, c))
           /\ UNCHANGED <<num_hidden, num_user, interactive, all_users, passed>>

NetDeadReturns ==
  /\ LpcRuns /\ Top.fun = "net_dead"
  /\ FinishRemove(Top.ob, Top.ip)
  /\ stack' = Pop
  /\ UNCHANGED <<O_HIDDEN, destructed, master_ob, NextCmdGiver>>
-----------------------------------------------------------------------------
(* A new connection belongs to the master object while connect() runs.     *)
new_user_handler(c) ==
  /\ InBackend /\ c \notin Live
  /\ \E i \in Index :
       /\ all_users[i] = Null /\ \A j \in 0..(i - 1) : all_users[j] # Null
       /\ all_users' = [all_users EXCEPT ![i] = c]
  /\ interactive' = [interactive EXCEPT ![master_ob] = c]
  /\ ip' = [ip EXCEPT ![c] =
       [ob |-> master_ob, CLOSING |-> FALSE, CMD_IN_BUF |-> FALSE,
        snoop_on |-> Null, snoop_by |-> Null]]
  /\ num_user' = num_user + 1
  /\ stack' = <<Call("connect", master_ob, c)>>
  /\ UNCHANGED <<O_HIDDEN, destructed, master_ob, num_hidden, NextCmdGiver, passed>>

(* Mutant of Handover: the master object stays interactive.                *)
HandoverKeeps(o) ==
  LET c == interactive[master_ob]
  IN  /\ num_hidden' = num_hidden + (IF o \in O_HIDDEN THEN 1 ELSE 0)
      /\ interactive' = [interactive EXCEPT ![o] = c]
      /\ ip' = [ip EXCEPT ![c].ob = o]
      /\ stack' = Append(Pop, Call("lpc", o, c))
      /\ UNCHANGED <<num_user, all_users, passed>>

(* The object connect() returned takes the connection, and logon() is      *)
(* called in it.                                                           *)
Handover(o) ==
  LET c == interactive[master_ob]
  IN  /\ num_hidden' = num_hidden + (IF o \in O_HIDDEN THEN 1 ELSE 0)
      /\ interactive' = [interactive EXCEPT ![o] = c, ![master_ob] = Null]
      /\ ip' = [ip EXCEPT ![c].ob = o]
      /\ stack' = Append(Pop, Call("lpc", o, c))
      /\ UNCHANGED <<num_user, all_users, passed>>

MayAnswer(o) ==
  \/ o = Null
  \/ o = Failed /\ ~Careful
  \/ o \in Objects /\ Alive(o) /\ (Careful => o # master_ob /\ interactive[o] = Null)

(* connect() returns an object or not, or jumps back to backend().         *)
ConnectReturns(o) ==
  /\ LpcRuns /\ Top.fun = "connect" /\ MayAnswer(o)
  /\ CASE o = Failed ->
            /\ stack' = <<>>
            /\ UNCHANGED <<ip, num_hidden, num_user, interactive, all_users, passed>>
       [] o = Null \/ (o \in Objects /\ interactive[master_ob] = Null) ->
            remove_interactive(master_ob, FALSE, Pop)
       [] o \in Objects /\ interactive[master_ob] # Null -> Handover(o)
  /\ UNCHANGED <<O_HIDDEN, destructed, master_ob, NextCmdGiver>>

(* logon(), a command, or LPC code called for another reason returns or    *)
(* fails.                                                                  *)
LpcReturns ==
  /\ LpcRuns /\ Top.fun = "lpc"
  /\ stack' = Pop
  /\ UNCHANGED <<all_users, interactive, ip, O_HIDDEN, destructed, master_ob, num_user,
                 num_hidden, NextCmdGiver, passed>>

(* A heart beat, a call out or a socket callback.                          *)
OtherLpc ==
  /\ InBackend
  /\ stack' = <<Call("lpc", Null, Null)>>
  /\ UNCHANGED <<all_users, interactive, ip, O_HIDDEN, destructed, master_ob, num_user,
                 num_hidden, NextCmdGiver, passed>>
-----------------------------------------------------------------------------
(* process_io() reads for a user without a complete command.               *)
get_user_data(c) ==
  /\ InBackend /\ c \in Live
  /\ ~ip[c].CLOSING /\ ~ip[c].CMD_IN_BUF
  /\ ip' = [ip EXCEPT ![c].CMD_IN_BUF = TRUE]
  /\ passed' = [passed EXCEPT ![c] = {}]
  /\ UNCHANGED <<all_users, interactive, O_HIDDEN, destructed, master_ob, num_user,
                 num_hidden, NextCmdGiver, stack>>

(* The read finds the end of the stream, or a write has failed before: the *)
(* flag NET_DEAD says no more than that this step is to come.              *)
Hangup(c) ==
  /\ InBackend /\ c \in Live
  /\ ~ip[c].CLOSING /\ ~ip[c].CMD_IN_BUF
  /\ remove_interactive(ip[c].ob, FALSE, stack)
  /\ UNCHANGED <<O_HIDDEN, destructed, master_ob, NextCmdGiver>>

(* How many steps NextCmdGiver, which counts down, is away from c.         *)
Turn(c) == (NextCmdGiver - (CHOOSE i \in Index : all_users[i] = c)) % Slots

(* Mutant of After: the next command is again looked for here.             *)
AfterStays(c) == CHOOSE i \in Index : all_users[i] = c

After(c) == ((CHOOSE i \in Index : all_users[i] = c) - 1) % Slots

(* get_user_command() takes the first command it finds, and clears the     *)
(* flag of the users before that, whose command is not complete after all; *)
(* process_user_command() then runs it.                                    *)
process_user_command(c, more) ==
  LET partial == {d \in Waiting : Turn(d) < Turn(c)}
  IN  /\ InBackend /\ c \in Waiting
      /\ ip' = [d \in Conns |->
           IF d \in partial \/ (d = c /\ ~more) THEN [ip[d] EXCEPT !.CMD_IN_BUF = FALSE] ELSE ip[d]]
      /\ NextCmdGiver' = After(c)
      /\ passed' = [d \in Conns |-> IF d \in Waiting \ (partial \cup {c}) THEN passed[d] \cup {c} ELSE {}]
      /\ stack' = <<Call("lpc", ip[c].ob, c)>>
      /\ UNCHANGED <<all_users, interactive, O_HIDDEN, destructed, master_ob, num_user, num_hidden>>

(* No user has a complete command: a full round clears the flags.          *)
NoCommand ==
  /\ InBackend /\ Waiting # {}
  /\ ip' = [d \in Conns |-> IF d \in Waiting THEN [ip[d] EXCEPT !.CMD_IN_BUF = FALSE] ELSE ip[d]]
  /\ passed' = [d \in Conns |-> {}]
  /\ UNCHANGED <<all_users, interactive, O_HIDDEN, destructed, master_ob, num_user, num_hidden,
                 NextCmdGiver, stack>>
-----------------------------------------------------------------------------
(* What LPC code may do.                                                   *)

(* exec(o, from)                                                           *)
replace_interactive(o, from) ==
  /\ LpcRuns /\ Alive(o) /\ Alive(from)
  /\ interactive[o] = Null /\ interactive[from] # Null
  /\ Careful => o \notin Masters /\ ~ip[interactive[from]].CLOSING
  /\ num_hidden' = num_hidden + (IF o \in O_HIDDEN THEN 1 ELSE 0)
                               - (IF from \in O_HIDDEN THEN 1 ELSE 0)
  /\ interactive' = [interactive EXCEPT ![o] = interactive[from], ![from] = Null]
  /\ ip' = [ip EXCEPT ![interactive[from]].ob = o]
  /\ UNCHANGED <<all_users, O_HIDDEN, destructed, master_ob, num_user, NextCmdGiver, stack, passed>>

(* Whom c snoops on, directly or not, and c itself: the least set with c   *)
(* in it that snoop_on does not lead out of.                               *)
Snooped(c) ==
  {d \in Live : \A S \in SUBSET Live :
     c \in S /\ (\A e \in S : ip[e].snoop_on \in S \cup {Null}) => d \in S}

(* The structures once by snoops on on, and both have left whom they were  *)
(* linked with before.                                                     *)
Linked(s, by, on) ==
  [d \in Conns |->
     IF s[d] = Null THEN Null
     ELSE [s[d] EXCEPT
             !.snoop_by = IF d = on THEN by ELSE IF d = s[by].snoop_on THEN Null ELSE @,
             !.snoop_on = IF d = by THEN on ELSE IF d = s[on].snoop_by THEN Null ELSE @]]

(* snoop(me, you)                                                          *)
new_set_snoop(me, you) ==
  /\ LpcRuns /\ Alive(me) /\ Alive(you)
  /\ interactive[me] # Null /\ interactive[you] # Null
  /\ interactive[me] \notin Snooped(interactive[you])
  /\ ip' = Linked(ip, interactive[me], interactive[you])
  /\ UNCHANGED <<all_users, interactive, O_HIDDEN, destructed, master_ob, num_user,
                 num_hidden, NextCmdGiver, stack, passed>>

(* snoop(me)                                                               *)
StopSnoop(me) ==
  /\ LpcRuns /\ Alive(me) /\ interactive[me] # Null
  /\ LET by == interactive[me]  on == ip[by].snoop_on
     IN  on # Null /\ ip' = [ip EXCEPT ![on].snoop_by = Null, ![by].snoop_on = Null]
  /\ UNCHANGED <<all_users, interactive, O_HIDDEN, destructed, master_ob, num_user,
                 num_hidden, NextCmdGiver, stack, passed>>

f_set_hide(o, hide) ==
  /\ LpcRuns /\ Running(o)
  /\ O_HIDDEN' = IF hide THEN O_HIDDEN \cup {o} ELSE O_HIDDEN \ {o}
  /\ num_hidden' = CASE interactive[o] # Null /\ hide /\ o \notin O_HIDDEN -> num_hidden + 1
                     [] interactive[o] # Null /\ ~hide /\ o \in O_HIDDEN -> num_hidden - 1
                     [] OTHER -> num_hidden
  /\ UNCHANGED <<all_users, interactive, ip, destructed, master_ob, num_user, NextCmdGiver, stack, passed>>

f_remove_interactive(o) ==
  /\ LpcRuns /\ Alive(o) /\ interactive[o] # Null
  /\ remove_interactive(o, FALSE, stack)
  /\ UNCHANGED <<O_HIDDEN, destructed, master_ob, NextCmdGiver>>

(* A destructed master object is replaced by a new copy first.             *)
destruct_object(o) ==
  /\ LpcRuns /\ Alive(o)
  /\ IF o = master_ob
       THEN master_ob' \in Masters \ (destructed \cup {o})
       ELSE master_ob' = master_ob
  /\ destructed' = destructed \cup {o}
  /\ remove_interactive(o, TRUE, stack)
  /\ UNCHANGED <<O_HIDDEN, NextCmdGiver>>

Next ==
  \/ \E c \in Conns :
       \/ new_user_handler(c) \/ get_user_data(c) \/ Hangup(c)
       \/ \E more \in BOOLEAN : process_user_command(c, more)
  \/ \E o \in Objects \cup {Null, Failed} : ConnectReturns(o)
  \/ \E o \in Objects :
       \/ f_remove_interactive(o) \/ destruct_object(o) \/ StopSnoop(o)
       \/ \E other \in Objects : replace_interactive(o, other) \/ new_set_snoop(o, other)
  \/ \E o \in Hiders, hide \in BOOLEAN : f_set_hide(o, hide)
  \/ NetDeadReturns \/ LpcReturns \/ OtherLpc \/ NoCommand

Spec == Init /\ [][Next]_vars
-----------------------------------------------------------------------------
(* The pointers agree: an object's interactive points to an allocated      *)
(* structure that points back, and each structure is in all_users[] once.  *)
(* IP_VALID (comm.h), process_io() and get_user_command() rest on this     *)
(* after every call of LPC code.                                           *)
LinksAgree ==
  /\ \A o \in Objects : interactive[o] # Null =>
       interactive[o] \in Live /\ ip[interactive[o]].ob = o
  /\ \A c \in Live :
       /\ interactive[ip[c].ob] = c
       /\ Cardinality({i \in Index : all_users[i] = c}) = 1
  /\ \A i \in Index : all_users[i] \in Live \cup {Null}

(* comm.c:57-61: num_hidden "must be kept up to date at all times".  With  *)
(* num_user it tells users() how large an array to allocate for the users  *)
(* that it then lists.                                                     *)
CountsAgree ==
  /\ num_user = Cardinality(Live)
  /\ num_hidden = Cardinality({c \in Live : ip[c].ob \in O_HIDDEN})

(* snoop_on and snoop_by stay each other's inverse, point to allocated     *)
(* structures, and never lead in a circle: receive_snoop() would otherwise *)
(* follow a freed pointer or never end.                                    *)
SnoopsSound ==
  \A c \in Live :
    /\ ip[c].snoop_on # Null => ip[c].snoop_on \in Live /\ ip[ip[c].snoop_on].snoop_by = c
    /\ ip[c].snoop_by # Null => ip[c].snoop_by \in Live /\ ip[ip[c].snoop_by].snoop_on = c
    /\ ip[c].snoop_on # Null => c \notin Snooped(ip[c].snoop_on)

(* A connection is CLOSING exactly while one call of net_dead() for it is  *)
(* under way, so that it is freed once, and by the object that owns it,    *)
(* even if net_dead() destructs or disconnects that object again.          *)
ClosedOnce ==
  /\ \A c \in Conns :
       Cardinality({n \in DOMAIN stack : stack[n].fun = "net_dead" /\ stack[n].ip = c})
         = (IF c \in Live /\ ip[c].CLOSING THEN 1 ELSE 0)
  /\ \A n \in DOMAIN stack : stack[n].fun = "net_dead" => ip[stack[n].ip].ob = stack[n].ob

(* No destructed object stays interactive once the LPC code has returned.  *)
NoneLeftBehind == InBackend => \A o \in destructed : interactive[o] = Null

(* Only net_dead() is called within another call; a destructed object is   *)
(* interactive while its own net_dead() runs, and a master object while    *)
(* connect() does or until net_dead() returns.                             *)
CallsNested ==
  /\ \A n \in DOMAIN stack : n > 1 => stack[n].fun = "net_dead"
  /\ master_ob \notin destructed
  /\ \A o \in destructed : interactive[o] # Null => ip[interactive[o]].CLOSING
  /\ \A m \in Masters : interactive[m] # Null =>
       ip[interactive[m]].CLOSING \/ (LpcRuns /\ stack[1].fun = "connect")

(* Whoever was served while a user waits comes after that user now.        *)
ServedBehind ==
  \A d \in Conns : \A c \in passed[d] : d \in Waiting /\ c \in Live /\ Turn(d) < Turn(c)

(* Objects, connections, slots, snoops, turns and counters stay consistent *)
(* whatever connect(), net_dead() and commands do in the middle.           *)
LinksSound == TypeOK /\ LinksAgree /\ CountsAgree /\ SnoopsSound /\ ServedBehind

(* A connection goes once, by its own object, and none stays with a        *)
(* destructed object.                                                      *)
ClosedProperly == ClosedOnce /\ NoneLeftBehind /\ CallsNested

(* While a user's command waits, no other user gets two turns, whoever     *)
(* connects, leaves or types ahead in the meantime.  Users in ed are no    *)
(* exception, although the comment of get_user_command() has one: "CmdsGiven *)
(* is used to allow users in ED to send more cmds (if they have them       *)
(* queued up) than users not in ED" (comm.c:1437-1438).  No such variable  *)
(* exists, and ed is asked about only when the command is carried out      *)
(* (process_user_command()): see the README, section 6.                    *)
NoneServedTwice ==
  [][\A c \in Conns, more \in BOOLEAN :
       process_user_command(c, more) =>
         \A d \in Waiting \ {c} : ip'[d].CMD_IN_BUF => c \notin passed[d]]_vars

(* The memory blocks differ in nothing, and the copies of the master       *)
(* object neither if they do not hide.                                     *)
BlockSymmetry ==
  {p @@ q : p \in Permutations(Conns), q \in Permutations(Masters)}
=============================================================================
