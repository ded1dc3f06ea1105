------------------------------ MODULE CallOut ------------------------------
(***************************************************************************)
(* src/src/call_out.c: delayed calls kept on a wheel of CYCLE chains.      *)
(* A chain is a delta list: the laps an entry still has to wait are the    *)
(* sum of the deltas up to and including its own.  The driver is one       *)
(* thread, so an efun or the piece of call_out() between two LPC calls is  *)
(* one step; LPC code runs when pc is "lpc" (a command, a heart beat) or   *)
(* "callback" (a function called by call_out()).                           *)
(***************************************************************************)
EXTENDS Integers, Sequences, FiniteSets, TLC

CONSTANTS
  CYCLE,           \* CALLOUT_CYCLE_SIZE
  CHUNK,           \* CHUNK_SIZE, the calls allocated at a time
  Objects, Funs,
  Pointers,        \* the members of Funs that are function pointers
  Delays,          \* the delays LPC code passes to call_out()
  LateInserts,     \* whether code run from a call out may start one in the
                   \* slot being visited
  Steps,           \* how far current_time moves between two heart beats
  StartTimes,      \* current_time when the driver starts
  MaxCallOuts,     \* bound on the number of call outs started
  MaxTime,         \* bound on current_time
  NoCall

ASSUME CallOutAssumption ==
  /\ CYCLE \in Nat \ {0} /\ CHUNK \in Nat \ {0}
  /\ Pointers \subseteq Funs
  /\ Delays \subseteq Int /\ Steps \subseteq Nat /\ LateInserts \in BOOLEAN
  /\ StartTimes \subseteq Nat \ {0}
  /\ MaxCallOuts \in Nat /\ MaxTime \in Nat
  /\ NoCall \notin [handle: Nat, ob: Objects, fun: Funs, delta: Nat]
  /\ NoCall \notin [id: Nat, ob: Objects, fun: Funs]

VARIABLES
  call_list,       \* [0..CYCLE-1 -> Seq(pending_call_t)]
  call_list_free,  \* how many structures are on the free list
  num_call,        \* how many were ever allocated
  unique, call_out_time, current_time,
  destructed,      \* objects with O_DESTRUCTED
  pc, cop          \* cop: the call taken off its chain and being made

vars == <<call_list, call_list_free, num_call, unique, call_out_time,
          current_time, destructed, pc, cop>>

Slots == 0..(CYCLE - 1)

(* Each field has its C type; deltas are never negative.                   *)
TypeOK ==
  /\ call_list \in [Slots -> Seq([handle: Nat, ob: Objects, fun: Funs, delta: Nat])]
  /\ call_list_free \in Nat /\ num_call \in Nat /\ unique \in Nat
  /\ call_out_time \in Nat /\ current_time \in Nat \ {0}
  /\ destructed \subseteq Objects
  /\ pc \in {"lpc", "slots", "chain", "callback"}
  /\ cop \in [handle: Nat, ob: Objects, fun: Funs, delta: Nat] \cup {NoCall}
-----------------------------------------------------------------------------
(* Chains.                                                                 *)

(* The laps before the i-th entry runs: the sum of the deltas up to it.    *)
Laps(chain, i) ==
  LET sum[j \in 0..i] == IF j = 0 THEN 0 ELSE sum[j - 1] + chain[j].delta IN sum[i]

(* Where the insertion loop stops: at the first entry that waits at least  *)
(* as long, so that of two equal calls the new one comes first.            *)
StopsAt(chain, laps) ==
  CHOOSE i \in 1..(Len(chain) + 1) :
    /\ i <= Len(chain) => Laps(chain, i) >= laps
    /\ \A j \in 1..(i - 1) : Laps(chain, j) < laps

Insert(chain, e, laps) ==
  LET p == StopsAt(chain, laps)
      d == laps - Laps(chain, p - 1)
  IN  [j \in 1..(Len(chain) + 1) |->
         CASE j < p     -> chain[j]
           [] j = p     -> [e EXCEPT !.delta = d]
           [] j = p + 1 -> [chain[p] EXCEPT !.delta = @ - d]
           [] OTHER     -> chain[j - 1]]

(* Mutant of Unlink: the delta is not handed on.                           *)
UnlinkKeepingDeltas(chain, i) ==
  SubSeq(chain, 1, i - 1) \o SubSeq(chain, i + 1, Len(chain))

(* Unlinking an entry hands its delta to the next one.                     *)
Unlink(chain, i) ==
  [j \in 1..(Len(chain) - 1) |->
     CASE j < i -> chain[j]
       [] j = i -> [chain[i + 1] EXCEPT !.delta = @ + chain[i].delta]
       [] OTHER -> chain[j + 1]]

(* A set of positions in the order of the chain.                           *)
InOrder(positions) ==
  CHOOSE at \in [1..Cardinality(positions) -> positions] :
    /\ \A m, n \in DOMAIN at : m < n => at[m] < at[n]
    /\ \A i \in positions : \E n \in DOMAIN at : at[n] = i

(* Unlinking all entries but those at the positions kept, which wait as    *)
(* many laps as before.                                                    *)
UnlinkAllBut(chain, kept) ==
  LET at == InOrder(kept)
      laps(n) == IF n = 0 THEN 0 ELSE Laps(chain, at[n])
  IN  [n \in 1..Cardinality(kept) |->
         [chain[at[n]] EXCEPT !.delta = laps(n) - laps(n - 1)]]
-----------------------------------------------------------------------------
(* Scheduling and cancelling.                                              *)

LpcRuns == pc \in {"lpc", "callback"}

(* call_out_time is set by the first call_out() of either kind.            *)
Started == IF call_out_time = 0 THEN current_time ELSE call_out_time

SlotOf(t) == t % CYCLE

(* The slot call_out() looks at next, or is looking at.                    *)
Visited == SlotOf(call_out_time + 1)

(* How often the wheel comes by the slot before second due is reached.     *)
LapsUntil(due) == 1 + (due - Started - 1) \div CYCLE

(* Mutant of HandleOf: the slot is left out of the handle.                 *)
HandleWithoutSlot(slot) == CYCLE * (unique + 1)

(* The handle tells the slot and, within it, the call.                     *)
HandleOf(slot) == slot + CYCLE * (unique + 1)

init ==
  /\ call_list = [s \in Slots |-> <<>>] /\ call_list_free = 0 /\ num_call = 0
  /\ unique = 0 /\ call_out_time = 0 /\ destructed = {}
  /\ pc = "lpc" /\ cop = NoCall
  /\ current_time \in StartTimes

(* A structure is taken from the free list, which grows by CHUNK if empty. *)
AllocateCall ==
  IF call_list_free = 0
    THEN num_call' = num_call + CHUNK /\ call_list_free' = CHUNK - 1
    ELSE num_call' = num_call /\ call_list_free' = call_list_free - 1

new_call_out(o, f, delay) ==
  /\ LpcRuns /\ unique < MaxCallOuts
  /\ o \notin destructed
  /\ AllocateCall
  /\ LET due  == current_time + (IF delay < 1 THEN 1 ELSE delay)
         slot == SlotOf(due)
         e    == [handle |-> HandleOf(slot), ob |-> o, fun |-> f, delta |-> 0]
     IN  /\ pc = "callback" /\ slot = Visited => LateInserts
         /\ call_list' = [call_list EXCEPT ![slot] = Insert(@, e, LapsUntil(due))]
  /\ unique' = unique + 1
  /\ call_out_time' = Started
  /\ UNCHANGED <<current_time, destructed, pc, cop>>

(* The places on the wheel that hold a call: slot and position.            *)
Places == UNION {{s} \X DOMAIN call_list[s] : s \in Slots}

(* Take one entry off the chain of slot s.                                 *)
TakeOff(s, i) ==
  /\ call_list' = [call_list EXCEPT ![s] = Unlink(@, i)]
  /\ call_list_free' = call_list_free + 1
  /\ UNCHANGED <<num_call, unique, call_out_time, current_time, destructed, pc, cop>>

(* By object and function name: the first match in slot order, which need  *)
(* not be the one that runs first.  A function pointer has no name.        *)
Matches(s, o, f) == {i \in DOMAIN call_list[s] : call_list[s][i].ob = o /\ call_list[s][i].fun = f}

remove_call_out(o, f) ==
  /\ LpcRuns /\ f \notin Pointers
  /\ \E s \in Slots : \E i \in Matches(s, o, f) :
       /\ \A j \in Matches(s, o, f) : i <= j
       /\ \A t \in 0..(s - 1) : Matches(t, o, f) = {}
       /\ TakeOff(s, i)

(* By handle: only the chain the handle names is searched.                 *)
HasHandle(h) == {i \in DOMAIN call_list[SlotOf(h)] : call_list[SlotOf(h)][i].handle = h}

remove_call_out_by_handle(h) ==
  /\ LpcRuns
  /\ \E i \in HasHandle(h) :
       /\ \A j \in HasHandle(h) : i <= j
       /\ TakeOff(SlotOf(h), i)

(* Every call of the object, and of any destructed object.                 *)
Stays(e, o) == e.ob # o /\ e.ob \notin destructed

remove_all_call_out(o) ==
  /\ LpcRuns
  /\ call_list' = [s \in Slots |->
       UnlinkAllBut(call_list[s], {i \in DOMAIN call_list[s] : Stays(call_list[s][i], o)})]
  /\ call_list_free' = call_list_free
       + Cardinality({p \in Places : ~Stays(call_list[p[1]][p[2]], o)})
  /\ UNCHANGED <<num_call, unique, call_out_time, current_time, destructed, pc, cop>>

(* destruct_object() only marks the object here: its calls stay pending.   *)
Destruct(o) ==
  /\ LpcRuns
  /\ destructed' = destructed \cup {o}
  /\ UNCHANGED <<call_list, call_list_free, num_call, unique, call_out_time, current_time, pc, cop>>
-----------------------------------------------------------------------------
(* Running the calls that are due.                                         *)

(* call_heart_beat() reads the clock; an error in a heart beat makes it    *)
(* skip call_out(), so time may pass several times before that is called.  *)
TimePasses ==
  /\ pc = "lpc"
  /\ \E d \in Steps : current_time + d <= MaxTime /\ current_time' = current_time + d
  /\ UNCHANGED <<call_list, call_list_free, num_call, unique, call_out_time, destructed, pc, cop>>

CallOutBegin ==
  /\ pc = "lpc"
  /\ call_out_time' = Started
  /\ pc' = "slots"
  /\ UNCHANGED <<call_list, call_list_free, num_call, unique, current_time, destructed, cop>>

(* The head of the chain loses a lap; if it has none left, it is due.      *)
VisitSlot ==
  /\ pc = "slots" /\ call_out_time < current_time
  /\ IF call_list[Visited] = <<>>
       THEN call_list' = call_list
       ELSE call_list' = [call_list EXCEPT ![Visited][1].delta = @ - 1]
  /\ IF call_list[Visited] # <<>> /\ Head(call_list[Visited]).delta = 1
       THEN pc' = "chain" /\ call_out_time' = call_out_time
       ELSE pc' = "slots" /\ call_out_time' = call_out_time + 1
  /\ UNCHANGED <<call_list_free, num_call, unique, current_time, destructed, cop>>

HeadIsDue == call_list[Visited] # <<>> /\ Head(call_list[Visited]).delta = 0

(* The named function of a destructed object is not called.  A function    *)
(* pointer of one is: call_function_pointer() raises an error, and the     *)
(* master object's error handler runs.                                     *)
Dropped(e) == e.ob \in destructed /\ e.fun \notin Pointers

(* The first call leaves its chain and is made, or freed.                  *)
TakeFirst ==
  /\ pc = "chain" /\ HeadIsDue
  /\ call_list' = [call_list EXCEPT ![Visited] = Tail(@)]
  /\ IF Dropped(Head(call_list[Visited]))
       THEN pc' = pc /\ cop' = cop /\ call_list_free' = call_list_free + 1
       ELSE /\ pc' = "callback" /\ cop' = Head(call_list[Visited])
            /\ call_list_free' = call_list_free
  /\ UNCHANGED <<num_call, unique, call_out_time, current_time, destructed>>

(* Mutant of CallbackReturns: the call is not freed.                       *)
CallbackLeaks ==
  /\ pc = "callback"
  /\ pc' = "chain" /\ cop' = NoCall
  /\ UNCHANGED <<call_list, call_list_free, num_call, unique, call_out_time, current_time, destructed>>

(* The LPC function returns or fails: both end in free_called_call().      *)
CallbackReturns ==
  /\ pc = "callback"
  /\ pc' = "chain" /\ cop' = NoCall
  /\ call_list_free' = call_list_free + 1
  /\ UNCHANGED <<call_list, num_call, unique, call_out_time, current_time, destructed>>

LeaveSlot ==
  /\ pc = "chain" /\ ~HeadIsDue
  /\ call_out_time' = call_out_time + 1
  /\ pc' = "slots"
  /\ UNCHANGED <<call_list, call_list_free, num_call, unique, current_time, destructed, cop>>

CallOutEnd ==
  /\ pc = "slots" /\ call_out_time = current_time
  /\ pc' = "lpc"
  /\ UNCHANGED <<call_list, call_list_free, num_call, unique, call_out_time, current_time, destructed, cop>>

Handles == {call_list[p[1]][p[2]].handle : p \in Places}

next ==
  \/ \E o \in Objects, f \in Funs :
       \/ \E d \in Delays : new_call_out(o, f, d)
       \/ remove_call_out(o, f)
  \/ \E h \in Handles : remove_call_out_by_handle(h)
  \/ \E o \in Objects : remove_all_call_out(o) \/ Destruct(o)
  \/ TimePasses \/ CallOutBegin \/ CallbackReturns
  \/ VisitSlot \/ TakeFirst \/ LeaveSlot \/ CallOutEnd

Spec == init /\ [][next]_vars
-----------------------------------------------------------------------------

(* time_left() and find_call_out_by_handle().                              *)
TimeLeft(slot, laps) ==
  LET current_slot == SlotOf(call_out_time)
  IN  (IF slot > current_slot THEN laps - 1 ELSE laps) * CYCLE
        + (slot - current_slot) + call_out_time - current_time

find_call_out_by_handle(h) ==
  IF HasHandle(h) = {} THEN -1
  ELSE TimeLeft(SlotOf(h), Laps(call_list[SlotOf(h)], CHOOSE i \in HasHandle(h) : TRUE))

-----------------------------------------------------------------------------
Pending == {[id |-> call_list[p[1]][p[2]].handle \div CYCLE,
             ob |-> call_list[p[1]][p[2]].ob, fun |-> call_list[p[1]][p[2]].fun,
             slot |-> p[1], laps |-> Laps(call_list[p[1]], p[2])] :
              p \in Places}

Wheel == INSTANCE CallOutWheel WITH
  wheel <- Pending,
  cop   <- IF cop = NoCall THEN NoCall
           ELSE [id |-> cop.handle \div CYCLE, ob |-> cop.ob, fun |-> cop.fun]

(* The delta chains of call_out.c hold, through insertions, removals in    *)
(* the middle and visits, exactly the calls and the laps of CallOutWheel,  *)
(* and run them in its order.                                              *)
WheelImplemented == Wheel!Spec

(* call_out() as a whole keeps the promise of CallOutTimers: every call    *)
(* runs in the second it was asked for, newest first within a second.      *)
TimersImplemented == Wheel!TimersImplemented

(* A handle given out by new_call_out() leads to that very call: its slot  *)
(* number selects the chain the call is on, and no other pending call,     *)
(* however many were started in between, carries the same handle.          *)
HandlesFindTheirCall ==
  \A s \in Slots, t \in Slots : \A i \in DOMAIN call_list[s], j \in DOMAIN call_list[t] :
    /\ SlotOf(call_list[s][i].handle) = s
    /\ call_list[s][i].handle = call_list[t][j].handle => s = t /\ i = j

(* No structure leaks and none is freed twice, whatever mix of returns,    *)
(* errors, removals and destructed objects: pending, free and running ones *)
(* are all that were allocated.                                            *)
CallsConserved ==
  num_call = call_list_free + Cardinality(Places) + (IF cop = NoCall THEN 0 ELSE 1)

(* Outside a call out, find_call_out() tells for each pending call the     *)
(* time left until the second it will run in (call_out.c:261-264).         *)
TimeLeftExact ==
  pc = "lpc" /\ call_out_time # 0 =>
    \A s \in Slots : \A i \in DOMAIN call_list[s] :
      find_call_out_by_handle(call_list[s][i].handle) + current_time
        = Wheel!DueAt([slot |-> s, laps |-> Laps(call_list[s], i)])

(* What new_call_out() and find_call_out() tell about a call is true: its  *)
(* handle leads to it and to no other, and the time left is exact.         *)
ChainsSound == TypeOK /\ HandlesFindTheirCall /\ TimeLeftExact

(* The objects differ in nothing.                                        *)
ObjectSymmetry == Permutations(Objects)
=============================================================================
