---------------------------- MODULE CallOutWheel ----------------------------
(***************************************************************************)
(* The timing wheel of src/src/call_out.c with the chain of each slot seen *)
(* as a set.  A call out waits in slot (due second) mod CYCLE, and `laps'  *)
(* is the number of visits of the wheel to that slot still to come before  *)
(* it runs.  CallOut.tla codes the chains as the delta lists of the source *)
(* and refines this module; this module refines CallOutTimers.             *)
(***************************************************************************)
EXTENDS Integers

CONSTANTS
  CYCLE,           \* CALLOUT_CYCLE_SIZE
  Objects, Funs,
  Pointers,        \* the members of Funs that are function pointers
  Delays,          \* the delays LPC code passes to call_out()
  LateInserts,     \* whether code run from a call out may start one in the
                   \* slot being visited
  Steps,           \* how far current_time moves between two heart beats
  StartTimes,      \* current_time when the driver starts
  MaxCallOuts,     \* bound on the number of call outs started
  MaxTime,         \* bound on current_time
  NoCall

ASSUME WheelAssumption ==
  /\ CYCLE \in Nat \ {0}
  /\ Pointers \subseteq Funs
  /\ Delays \subseteq Int /\ Steps \subseteq Nat /\ LateInserts \in BOOLEAN
  /\ StartTimes \subseteq Nat \ {0}
  /\ MaxCallOuts \in Nat /\ MaxTime \in Nat
  /\ NoCall \notin [id: Nat, ob: Objects, fun: Funs]

VARIABLES
  wheel,           \* the pending calls: [id, ob, fun, slot, laps]
  unique,          \* the last id given out
  call_out_time, current_time, destructed,
  pc,              \* "lpc", "slots", "chain" or "callback"
  cop              \* the call being made

vars == <<wheel, unique, call_out_time, current_time, destructed, pc, cop>>

AtLeast1(d) == IF d < 1 THEN 1 ELSE d

Entry == [id: Nat, ob: Objects, fun: Funs, slot: 0..(CYCLE - 1), laps: Nat]
Call  == [id: Nat, ob: Objects, fun: Funs]

(* The type invariant.                                                     *)
TypeOK ==
  /\ wheel \subseteq Entry
  /\ unique \in Nat
  /\ call_out_time \in Nat /\ current_time \in Nat \ {0}
  /\ destructed \subseteq Objects
  /\ pc \in {"lpc", "slots", "chain", "callback"}
  /\ cop \in Call \cup {NoCall}
-----------------------------------------------------------------------------
(* The slot the wheel visits next.                                         *)
Visited == (call_out_time + 1) % CYCLE

LpcRuns == pc \in {"lpc", "callback"}

(* call_out_time is 0 until the first call out or the first visit.         *)
Started == IF call_out_time = 0 THEN current_time ELSE call_out_time

Init ==
  /\ wheel = {} /\ unique = 0 /\ call_out_time = 0 /\ destructed = {}
  /\ pc = "lpc" /\ cop = NoCall
  /\ current_time \in StartTimes

(* Mutants of Laps: an exact multiple of CYCLE waits a turn too long (the  *)
(* fault ChangeLog.alpha:225 fixed); the first visit is not counted.       *)
LapsForMultiples(due) == 1 + (due - Started) \div CYCLE
LapsNotCountingFirst(due) == (due - Started - 1) \div CYCLE

(* How often the wheel comes by the slot before second due is reached.     *)
Laps(due) == 1 + (due - Started - 1) \div CYCLE

NewCallOut(o, f, d) ==
  /\ LpcRuns /\ unique < MaxCallOuts /\ o \notin destructed
  /\ LET due == current_time + AtLeast1(d)
     IN  /\ pc = "callback" /\ due % CYCLE = Visited => LateInserts
         /\ wheel' = wheel \cup
           {[id |-> unique + 1, ob |-> o, fun |-> f, slot |-> due % CYCLE,
             laps |-> Laps(due)]}
  /\ unique' = unique + 1
  /\ call_out_time' = Started
  /\ UNCHANGED <<current_time, destructed, pc, cop>>

Remove(e) ==
  /\ LpcRuns
  /\ wheel' = wheel \ {e}
  /\ UNCHANGED <<unique, call_out_time, current_time, destructed, pc, cop>>

RemoveAll(o) ==
  /\ LpcRuns
  /\ wheel' = {e \in wheel : e.ob # o /\ e.ob \notin destructed}
  /\ UNCHANGED <<unique, call_out_time, current_time, destructed, pc, cop>>

Destruct(o) ==
  /\ LpcRuns
  /\ destructed' = destructed \cup {o}
  /\ UNCHANGED <<wheel, unique, call_out_time, current_time, pc, cop>>

TimePasses ==
  /\ pc = "lpc"
  /\ \E d \in Steps : current_time + d <= MaxTime /\ current_time' = current_time + d
  /\ UNCHANGED <<wheel, unique, call_out_time, destructed, pc, cop>>

CallOutBegin ==
  /\ pc = "lpc"
  /\ call_out_time' = Started
  /\ pc' = "slots"
  /\ UNCHANGED <<wheel, unique, current_time, destructed, cop>>

(* Mutant of VisitSlot: call_out_time moves before the slot's calls run.   *)
VisitMovesClock ==
  /\ pc = "slots" /\ call_out_time < current_time
  /\ wheel' = {IF e.slot = Visited THEN [e EXCEPT !.laps = @ - 1] ELSE e : e \in wheel}
  /\ pc' = IF \E e \in wheel : e.slot = Visited /\ e.laps = 1 THEN "chain" ELSE "slots"
  /\ call_out_time' = call_out_time + 1
  /\ UNCHANGED <<unique, current_time, destructed, cop>>

(* A visit takes one lap off every call of the slot; those with none left  *)
(* are due.                                                                *)
AfterVisit == {IF e.slot = Visited THEN [e EXCEPT !.laps = @ - 1] ELSE e : e \in wheel}
Due(w) == {e \in w : e.slot = Visited /\ e.laps = 0}

VisitSlot ==
  /\ pc = "slots" /\ call_out_time < current_time
  /\ wheel' = AfterVisit
  /\ IF Due(AfterVisit) # {}
       THEN pc' = "chain" /\ call_out_time' = call_out_time
       ELSE pc' = "slots" /\ call_out_time' = call_out_time + 1
  /\ UNCHANGED <<unique, current_time, destructed, cop>>

(* The named function of a destructed object is not called.  A function    *)
(* pointer of one is: call_function_pointer() raises an error, and the     *)
(* master object's error handler runs.                                     *)
Dropped(e) == e.ob \in destructed /\ e.fun \notin Pointers

TakeFirst(e) ==
  /\ pc = "chain"
  /\ e \in Due(wheel) /\ \A x \in Due(wheel) : x.id <= e.id
  /\ wheel' = wheel \ {e}
  /\ IF Dropped(e)
       THEN pc' = "chain" /\ cop' = cop
       ELSE pc' = "callback" /\ cop' = [id |-> e.id, ob |-> e.ob, fun |-> e.fun]
  /\ UNCHANGED <<unique, call_out_time, current_time, destructed>>

CallbackReturns ==
  /\ pc = "callback"
  /\ pc' = "chain" /\ cop' = NoCall
  /\ UNCHANGED <<wheel, unique, call_out_time, current_time, destructed>>

LeaveSlot ==
  /\ pc = "chain" /\ Due(wheel) = {}
  /\ call_out_time' = call_out_time + 1
  /\ pc' = "slots"
  /\ UNCHANGED <<wheel, unique, current_time, destructed, cop>>

CallOutEnd ==
  /\ pc = "slots" /\ call_out_time = current_time
  /\ pc' = "lpc"
  /\ UNCHANGED <<wheel, unique, call_out_time, current_time, destructed, cop>>

Next ==
  \/ \E o \in Objects, f \in Funs, d \in Delays : NewCallOut(o, f, d)
  \/ \E e \in wheel : Remove(e) \/ TakeFirst(e)
  \/ \E o \in Objects : RemoveAll(o) \/ Destruct(o)
  \/ TimePasses \/ CallOutBegin \/ VisitSlot \/ CallbackReturns \/ LeaveSlot \/ CallOutEnd

Spec == Init /\ [][Next]_vars

(* The backend loop calls call_out() from every heart beat, which first    *)
(* reads the clock, and the clock goes on (hence SF: the clock is read     *)
(* only between two runs); the evaluation limit ends every LPC call.       *)
FairSpec ==
  /\ Spec
  /\ SF_vars(TimePasses /\ current_time' > current_time) /\ WF_vars(CallOutBegin)
  /\ WF_vars(VisitSlot \/ LeaveSlot \/ CallOutEnd \/ \E e \in wheel : TakeFirst(e))
  /\ WF_vars(CallbackReturns)
-----------------------------------------------------------------------------
(* The second a pending call will run in: the next visit to its slot after *)
(* call_out_time, and one more turn of the wheel for every lap but the     *)
(* last.  While the slot is being visited its laps are already reduced.    *)
FirstVisit(s) == Started + 1 + ((s - Started - 1) % CYCLE)
BeingVisited(s) == pc \in {"chain", "callback"} /\ s = Visited
DueAt(e) ==
  FirstVisit(e.slot) + CYCLE * (IF BeingVisited(e.slot) THEN e.laps ELSE e.laps - 1)

Timers == INSTANCE CallOutTimers WITH
  pending <- {[id |-> e.id, ob |-> e.ob, fun |-> e.fun, due |-> DueAt(e)] : e \in wheel},
  issued  <- unique,
  clock   <- Started,
  now     <- current_time,
  running <- cop,
  Waits   <- {AtLeast1(d) : d \in Delays}

(* The wheel keeps the promise of CallOutTimers: each call out runs in the *)
(* second it was asked for, neither earlier nor a turn of the wheel later, *)
(* newest first within a second, and is never lost or run twice.  It needs *)
(* ~LateInserts: a call started by a call out into the slot being visited  *)
(* counts a lap too many, call_out_time not having moved yet.              *)
TimersImplemented == Timers!Spec

(* Every pending call that falls due before the end of time is eventually  *)
(* run, removed or dropped: no slot is jammed and no lap counts too many.  *)
DueCallsLeave ==
  \A id \in 1..MaxCallOuts :
    (\E e \in wheel : e.id = id /\ DueAt(e) <= MaxTime) ~> ~(\E e \in wheel : e.id = id)
-----------------------------------------------------------------------------
(* call_out_time is 0 only before the first call out and the first run,    *)
(* and never ahead of current_time: while calls are made it is behind.     *)
ClockBehind ==
  /\ call_out_time = 0 => wheel = {} /\ unique = 0 /\ pc = "lpc"
  /\ call_out_time <= current_time
  /\ pc \in {"chain", "callback"} => call_out_time < current_time
  /\ pc = "callback" <=> cop # NoCall

(* No id is used twice, so a handle names one call and one call is made    *)
(* for it.                                                                 *)
IdsUnique ==
  /\ \A e \in wheel : e.id \in 1..unique
  /\ \A e, x \in wheel : e.id = x.id => e = x

(* A call with no lap left sits in the slot being visited and nowhere      *)
(* else: otherwise the next visit would take its laps below zero, and it   *)
(* would never be due again.                                               *)
NoneOverdue == \A e \in wheel : e.laps >= 1 \/ BeingVisited(e.slot)

WheelInv == TypeOK /\ ClockBehind /\ IdsUnique /\ NoneOverdue
=============================================================================
