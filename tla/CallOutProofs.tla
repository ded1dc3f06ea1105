--------------------------- MODULE CallOutProofs ---------------------------
(***************************************************************************)
(* Proofs about the timing wheel of CallOutWheel, for every cycle size,    *)
(* every set of objects and delays and every bound.                        *)
(***************************************************************************)
EXTENDS CallOutWheel, Lemmas, TLAPS

-----------------------------------------------------------------------------
(* Arithmetic of slots.                                                    *)

(* The slot after second c is reached at second c + 1, and then again one  *)
(* cycle later.                                                            *)
LEMMA NextSlot ==
  ASSUME NEW n \in Nat \ {0}, NEW c \in Nat, NEW s \in 0..(n - 1), s = (c + 1) % n
  PROVE  ((s - c - 1) % n) = 0 /\ ((s - c - 2) % n) = n - 1
<1> DEFINE q == (c + 1) \div n
<1>1. q \in Int /\ c + 1 = n * q + s
  BY DivMod
<1> HIDE DEF q
<1>2. s - c - 1 = n * (0 - q) + 0
  BY <1>1
<1>3. s - c - 2 = n * (0 - q - 1) + (n - 1)
  BY <1>1
<1>4. s - c - 1 \in Int /\ 0 - q \in Int /\ 0 \in 0..(n - 1)
  BY <1>1
<1>5. s - c - 2 \in Int /\ 0 - q - 1 \in Int /\ n - 1 \in 0..(n - 1)
  BY <1>1
<1>6. (s - c - 1) % n = 0
  BY <1>2, <1>4, DivModIs
<1>7. (s - c - 2) % n = n - 1
  BY <1>3, <1>5, DivModIs
<1>8. QED
  BY <1>6, <1>7

(* Every other slot comes one second nearer when second c is over.         *)
LEMMA OtherSlot ==
  ASSUME NEW n \in Nat \ {0}, NEW c \in Nat, NEW s \in 0..(n - 1), s # (c + 1) % n
  PROVE  /\ ((s - c - 1) % n) \in Int
         /\ ((s - c - 1) % n) >= 1 /\ ((s - c - 2) % n) = ((s - c - 1) % n) - 1
<1> DEFINE q == (s - c - 1) \div n
           r == (s - c - 1) % n
<1>0. s - c - 1 \in Int
  OBVIOUS
<1>1. q \in Int /\ r \in 0..(n - 1) /\ s - c - 1 = n * q + r
  BY <1>0, DivMod
<1> HIDE DEF q, r
<1>2. r # 0
  <2> SUFFICES ASSUME r = 0 PROVE FALSE
    OBVIOUS
  <2>1. c + 1 = n * (0 - q) + s /\ c + 1 \in Int /\ 0 - q \in Int /\ s \in Int
    BY <1>1
  <2>2. (c + 1) % n = s
    BY <2>1, DivModIs
  <2>3. QED
    BY <2>2
<1>3. s - c - 2 = n * q + (r - 1) /\ r - 1 \in 0..(n - 1)
  BY <1>1, <1>2
<1>4. (s - c - 2) % n = r - 1
  <2>1. s - c - 2 \in Int /\ r - 1 \in Int /\ q \in Int
    BY <1>1
  <2>2. QED
    BY <1>3, <2>1, DivModIs
<1>5. QED
  BY <1>1, <1>2, <1>4 DEF r

(* The slot and the laps new_call_out() computes for second d, when the    *)
(* wheel stands at second c, lead to second d.                             *)
LEMMA SlotAndLaps ==
  ASSUME NEW n \in Nat \ {0}, NEW c \in Nat, NEW d \in Nat, d >= c + 1
  PROVE  /\ (d % n) \in 0..(n - 1)
         /\ ((d - c - 1) \div n) \in Nat
         /\ (((d % n) - c - 1) % n) + n * ((d - c - 1) \div n) = d - c - 1
<1> DEFINE p == d \div n
           r == d % n
           q == (d - c - 1) \div n
           t == (d - c - 1) % n
<1>1. p \in Int /\ r \in 0..(n - 1) /\ d = n * p + r
  BY DivMod
<1>2. q \in Int /\ t \in 0..(n - 1) /\ d - c - 1 = n * q + t
  BY DivMod
<1> HIDE DEF p, r, q, t
<1>3. q >= 0
  <2> SUFFICES ASSUME 0 > q PROVE FALSE
    BY <1>2
  <2>1. n * 0 >= n * q + n
    BY <1>2, Multiples
  <2>2. n * q \in Int /\ n * 0 = 0
    BY <1>2
  <2>3. QED
    BY <1>2, <2>1, <2>2
<1>4. r - c - 1 = n * (q - p) + t
  BY <1>1, <1>2
<1>5. (r - c - 1) % n = t
  BY <1>1, <1>2, <1>4, DivModIs
<1>6. QED
  BY <1>1, <1>2, <1>3, <1>5 DEF r, q
-----------------------------------------------------------------------------
(* The inductive invariant.                                                *)

(* call_out_time, once started, is a second that is not ahead of now.      *)
LEMMA StartedType == TypeOK /\ ClockBehind => Started \in Nat \ {0} /\ Started <= current_time
BY DEF TypeOK, ClockBehind, Started

(* The slot visited next is on the wheel.                                  *)
LEMMA VisitedType == TypeOK => Visited \in 0..(CYCLE - 1)
BY WheelAssumption, DivMod DEF TypeOK, Visited

(* What new_call_out() puts on the wheel.                                  *)
LEMMA NewEntry ==
  ASSUME WheelInv, NEW o \in Objects, NEW f \in Funs, NEW d \in Delays, NewCallOut(o, f, d)
  PROVE  LET due == current_time + AtLeast1(d)
             e == [id |-> unique + 1, ob |-> o, fun |-> f, slot |-> due % CYCLE, laps |-> Laps(due)]
         IN  /\ due \in Nat /\ due >= Started + 1
             /\ e \in Entry /\ e.laps >= 1
             /\ wheel' = wheel \cup {e}
<1> DEFINE due == current_time + AtLeast1(d)
<1>1. due \in Nat /\ due >= Started + 1 /\ Started \in Nat
  BY WheelAssumption, StartedType DEF WheelInv, TypeOK, AtLeast1
<1> HIDE DEF due
<1>2. (due % CYCLE) \in 0..(CYCLE - 1) /\ ((due - Started - 1) \div CYCLE) \in Nat
  BY <1>1, WheelAssumption, SlotAndLaps
<1>3. Laps(due) \in Nat /\ Laps(due) >= 1
  BY <1>2 DEF Laps
<1>4. unique + 1 \in Nat
  BY DEF WheelInv, TypeOK
<1>5. [id |-> unique + 1, ob |-> o, fun |-> f, slot |-> due % CYCLE, laps |-> Laps(due)] \in Entry
  BY <1>2, <1>3, <1>4 DEF Entry
<1>6. wheel' = wheel \cup
        {[id |-> unique + 1, ob |-> o, fun |-> f, slot |-> due % CYCLE, laps |-> Laps(due)]}
  BY DEF NewCallOut, due
<1>7. QED
  BY <1>1, <1>3, <1>5, <1>6 DEF due

(* A visit keeps the entries well formed and takes a lap off those of the  *)
(* slot.                                                                   *)
LEMMA VisitEntries ==
  ASSUME WheelInv, pc = "slots"
  PROVE  /\ AfterVisit \subseteq Entry
         /\ \A x \in AfterVisit : \E e \in wheel :
              /\ x.id = e.id /\ x.slot = e.slot
              /\ x = IF e.slot = Visited THEN [e EXCEPT !.laps = @ - 1] ELSE e
<1>1. \A e \in wheel : e \in Entry /\ e.laps >= 1
  BY DEF WheelInv, TypeOK, NoneOverdue, BeingVisited
<1>2. ASSUME NEW x \in AfterVisit
      PROVE  x \in Entry /\ \E e \in wheel :
              /\ x.id = e.id /\ x.slot = e.slot
              /\ x = IF e.slot = Visited THEN [e EXCEPT !.laps = @ - 1] ELSE e
  <2>1. PICK e \in wheel : x = IF e.slot = Visited THEN [e EXCEPT !.laps = @ - 1] ELSE e
    BY DEF AfterVisit
  <2>2. e \in Entry /\ e.laps \in Nat /\ e.laps - 1 \in Nat
    BY <1>1 DEF Entry
  <2>3. x \in Entry /\ x.id = e.id /\ x.slot = e.slot
    BY <2>1, <2>2 DEF Entry
  <2>4. QED
    BY <2>1, <2>3
<1>3. QED
  BY <1>2

(* Every reachable state satisfies the invariant: types, the call out      *)
(* clock behind the real one, unique ids, and no call whose last lap was   *)
(* taken while its slot was not being served.                              *)
THEOREM WheelInvariant == Spec => []WheelInv
<1>1. Init => WheelInv
  BY WheelAssumption DEF Init, WheelInv, TypeOK, ClockBehind, IdsUnique, NoneOverdue
<1>2. WheelInv /\ [Next]_vars => WheelInv'
  <2> SUFFICES ASSUME WheelInv, [Next]_vars PROVE WheelInv'
    OBVIOUS
  <2> USE WheelAssumption
  <2>1. ASSUME NEW o \in Objects, NEW f \in Funs, NEW d \in Delays, NewCallOut(o, f, d)
        PROVE  WheelInv'
    <3> DEFINE due == current_time + AtLeast1(d)
               e == [id |-> unique + 1, ob |-> o, fun |-> f, slot |-> due % CYCLE, laps |-> Laps(due)]
    <3>1. e \in Entry /\ e.laps >= 1 /\ wheel' = wheel \cup {e} /\ e.id = unique + 1
      BY <2>1, NewEntry
    <3> HIDE DEF e
    <3>2. Started \in Nat \ {0} /\ Started <= current_time
      BY StartedType DEF WheelInv
    <3>3. TypeOK'
      BY <2>1, <3>1, <3>2 DEF WheelInv, TypeOK, NewCallOut
    <3>4. ClockBehind'
      BY <2>1, <3>2 DEF WheelInv, TypeOK, ClockBehind, NewCallOut, Started
    <3>5. IdsUnique'
      BY <2>1, <3>1 DEF WheelInv, TypeOK, IdsUnique, NewCallOut, Entry
    <3>6. NoneOverdue'
      <4>1. pc' = pc
        BY <2>1 DEF NewCallOut
      <4>2. pc \in {"chain", "callback"} => call_out_time' = call_out_time
        BY <2>1 DEF NewCallOut, Started, WheelInv, ClockBehind
      <4>3. \A s : BeingVisited(s) => BeingVisited(s)'
        BY <4>1, <4>2 DEF BeingVisited, Visited
      <4>4. QED
        BY <3>1, <4>3 DEF NoneOverdue, WheelInv
    <3>7. QED
      BY <3>3, <3>4, <3>5, <3>6 DEF WheelInv
  <2>2. ASSUME NEW e \in wheel, Remove(e) PROVE WheelInv'
    BY <2>2 DEF Remove, WheelInv, TypeOK, ClockBehind, IdsUnique, NoneOverdue, BeingVisited, Visited
  <2>3. ASSUME NEW o \in Objects, RemoveAll(o) PROVE WheelInv'
    BY <2>3 DEF RemoveAll, WheelInv, TypeOK, ClockBehind, IdsUnique, NoneOverdue, BeingVisited, Visited
  <2>4. ASSUME NEW o \in Objects, Destruct(o) PROVE WheelInv'
    BY <2>4 DEF Destruct, WheelInv, TypeOK, ClockBehind, IdsUnique, NoneOverdue, BeingVisited, Visited
  <2>5. ASSUME TimePasses PROVE WheelInv'
    BY <2>5 DEF TimePasses, WheelInv, TypeOK, ClockBehind, IdsUnique, NoneOverdue, BeingVisited, Visited
  <2>6. ASSUME CallOutBegin PROVE WheelInv'
    BY <2>6 DEF CallOutBegin, Started, WheelInv, TypeOK, ClockBehind, IdsUnique, NoneOverdue, BeingVisited, Visited
  <2>7. ASSUME VisitSlot PROVE WheelInv'
    <3>1. wheel' = AfterVisit
      BY <2>7 DEF VisitSlot
    <3>2. TypeOK'
      BY <2>7, <3>1, VisitEntries DEF VisitSlot, WheelInv, TypeOK
    <3>3. ClockBehind'
      BY <2>7 DEF VisitSlot, WheelInv, TypeOK, ClockBehind
    <3>4. IdsUnique'
      <4>1. unique' = unique /\ pc = "slots"
        BY <2>7 DEF VisitSlot
      <4>2. QED
        BY <3>1, <4>1, VisitEntries DEF WheelInv, IdsUnique
    <3>5. NoneOverdue'
      <4> SUFFICES ASSUME NEW x \in AfterVisit, x.laps < 1 PROVE BeingVisited(x.slot)'
        BY <3>1, <3>2 DEF NoneOverdue, TypeOK, Entry
      <4>1. pc = "slots"
        BY <2>7 DEF VisitSlot
      <4>2. PICK e \in wheel : /\ x.slot = e.slot
                               /\ x = IF e.slot = Visited THEN [e EXCEPT !.laps = @ - 1] ELSE e
        BY <4>1, VisitEntries
      <4>3. e.laps >= 1 /\ e.laps \in Nat
        BY <4>1 DEF WheelInv, NoneOverdue, BeingVisited, TypeOK, Entry
      <4>4. e.slot = Visited
        BY <4>2, <4>3
      <4>5. x \in Entry
        BY <4>1, VisitEntries
      <4>6. x.laps = 0
        BY <4>5 DEF Entry
      <4>7. x \in Due(AfterVisit)
        BY <4>2, <4>4, <4>6 DEF Due
      <4>8. pc' = "chain" /\ call_out_time' = call_out_time
        BY <2>7, <4>7 DEF VisitSlot
      <4>9. QED
        BY <4>2, <4>4, <4>8 DEF BeingVisited, Visited
    <3>6. QED
      BY <3>2, <3>3, <3>4, <3>5 DEF WheelInv
  <2>8. ASSUME NEW e \in wheel, TakeFirst(e) PROVE WheelInv'
    <3>1. [id |-> e.id, ob |-> e.ob, fun |-> e.fun] \in Call
      BY DEF WheelInv, TypeOK, Entry, Call
    <3>2. TypeOK'
      BY <2>8, <3>1 DEF TakeFirst, WheelInv, TypeOK
    <3>3. ClockBehind'
      BY <2>8, <3>1 DEF TakeFirst, WheelInv, TypeOK, ClockBehind, Call
    <3>4. IdsUnique' /\ NoneOverdue'
      BY <2>8 DEF TakeFirst, WheelInv, IdsUnique, NoneOverdue, BeingVisited, Visited
    <3>5. QED
      BY <3>2, <3>3, <3>4 DEF WheelInv
  <2>9. ASSUME CallbackReturns PROVE WheelInv'
    BY <2>9 DEF CallbackReturns, WheelInv, TypeOK, ClockBehind, IdsUnique, NoneOverdue, BeingVisited, Visited
  <2>10. ASSUME LeaveSlot PROVE WheelInv'
    <3>1. \A e \in wheel : e.laps >= 1
      BY <2>10 DEF LeaveSlot, WheelInv, TypeOK, NoneOverdue, BeingVisited, Due, Entry
    <3>2. QED
      BY <2>10, <3>1 DEF LeaveSlot, WheelInv, TypeOK, ClockBehind, IdsUnique, NoneOverdue
  <2>11. ASSUME CallOutEnd PROVE WheelInv'
    BY <2>11 DEF CallOutEnd, WheelInv, TypeOK, ClockBehind, IdsUnique, NoneOverdue, BeingVisited, Visited
  <2>12. CASE UNCHANGED vars
    BY <2>12 DEF vars, WheelInv, TypeOK, ClockBehind, IdsUnique, NoneOverdue, BeingVisited, Visited
  <2>13. QED
    BY <2>1, <2>2, <2>3, <2>4, <2>5, <2>6, <2>7, <2>8, <2>9, <2>10, <2>11, <2>12 DEF Next
<1>3. QED
  BY <1>1, <1>2, PTL DEF Spec
-----------------------------------------------------------------------------
(* The wheel implements the timers.                                        *)

(* The calls that run in the second after call_out_time are the due ones   *)
(* of the slot being visited; all others run later.                        *)
LEMMA DueNow ==
  ASSUME WheelInv, NEW e \in wheel, pc \in {"chain", "callback"}
  PROVE  /\ DueAt(e) \in Int /\ DueAt(e) >= Started + 1
         /\ DueAt(e) = Started + 1 <=> e \in Due(wheel)
<1>1. /\ Started = call_out_time /\ call_out_time \in Nat /\ CYCLE \in Nat \ {0}
      /\ e.slot \in 0..(CYCLE - 1) /\ e.laps \in Nat
  BY WheelAssumption DEF WheelInv, TypeOK, ClockBehind, Started, Entry
<1>2. CASE e.slot = Visited
  <2>1. DueAt(e) = call_out_time + 1 + CYCLE * e.laps
    BY <1>1, <1>2, NextSlot DEF DueAt, FirstVisit, BeingVisited, Visited
  <2>2. CYCLE * e.laps \in Int /\ (e.laps # 0 => CYCLE * e.laps >= CYCLE * 0 + CYCLE) /\ CYCLE * 0 = 0
    BY <1>1, Multiples
  <2>3. DueAt(e) \in Int /\ DueAt(e) >= Started + 1 /\ (DueAt(e) = Started + 1 <=> e.laps = 0)
    <3>1. CASE e.laps = 0
      BY <1>1, <2>1, <2>2, <3>1
    <3>2. CASE e.laps # 0
      BY <1>1, <2>1, <2>2, <3>2
    <3>3. QED
      BY <3>1, <3>2
  <2>4. e \in Due(wheel) <=> e.laps = 0
    BY <1>2 DEF Due
  <2>5. QED
    BY <2>3, <2>4
<1>3. CASE e.slot # Visited
  <2>1. e.laps >= 1
    BY <1>3 DEF WheelInv, NoneOverdue, BeingVisited
  <2>2. DueAt(e) = call_out_time + 1 + ((e.slot - call_out_time - 1) % CYCLE) + CYCLE * (e.laps - 1)
    BY <1>1, <1>3 DEF DueAt, FirstVisit, BeingVisited
  <2>3. ((e.slot - call_out_time - 1) % CYCLE) \in Int /\ ((e.slot - call_out_time - 1) % CYCLE) >= 1
    BY <1>1, <1>3, OtherSlot DEF Visited
  <2>4. CYCLE * (e.laps - 1) \in Int /\ CYCLE * (e.laps - 1) >= 0
    BY <1>1, <2>1
  <2>5. QED
    BY <1>1, <1>3, <2>2, <2>3, <2>4 DEF Due
<1>4. QED
  BY <1>2, <1>3

(* When the clock moves past the visited slot, a call that was not due     *)
(* keeps its second: its own slot comes again a cycle later ...            *)
LEMMA DueAfterVisit ==
  ASSUME NEW c \in Nat, NEW s \in 0..(CYCLE - 1), NEW l \in Int, s = (c + 1) % CYCLE
  PROVE  /\ c + 1 + ((s - c - 1) % CYCLE) = c + 1
         /\ c + 2 + ((s - c - 2) % CYCLE) + CYCLE * (l - 1) = c + 1 + CYCLE * l
<1> USE WheelAssumption
<1>1. ((s - c - 1) % CYCLE) = 0 /\ ((s - c - 2) % CYCLE) = CYCLE - 1
  BY NextSlot
<1>2. CYCLE * (l - 1) = CYCLE * l - CYCLE /\ CYCLE * l \in Int
  OBVIOUS
<1>3. QED
  BY <1>1, <1>2

(* ... and any other slot comes nearer by one.                             *)
LEMMA DueElsewhere ==
  ASSUME NEW c \in Nat, NEW s \in 0..(CYCLE - 1), s # (c + 1) % CYCLE
  PROVE  c + 2 + ((s - c - 2) % CYCLE) = c + 1 + ((s - c - 1) % CYCLE)
<1>1. ((s - c - 2) % CYCLE) = ((s - c - 1) % CYCLE) - 1 /\ ((s - c - 1) % CYCLE) \in Int
  BY WheelAssumption, OtherSlot
<1>2. QED
  BY <1>1

(* Where neither the clock nor the visited slot changes, no due second     *)
(* does.                                                                   *)
LEMMA DueKept ==
  ASSUME Started' = Started, \A s : BeingVisited(s)' = BeingVisited(s)
  PROVE  \A e : DueAt(e)' = DueAt(e)
BY DEF DueAt, FirstVisit

(* The timer a pending call stands for.                                    *)
TimerOf(e) == [id |-> e.id, ob |-> e.ob, fun |-> e.fun, due |-> DueAt(e)]
TimersOf == {[id |-> e.id, ob |-> e.ob, fun |-> e.fun, due |-> DueAt(e)] : e \in wheel}

(* The empty wheel stands for no timers.                                   *)
LEMMA TimersInit == Init => Timers!Init
BY WheelAssumption DEF Init, Timers!Init, Started

(* A step of the wheel is a step of the timers, as long as no call out     *)
(* starts another one into the slot being visited.                         *)
LEMMA TimersStep ==
  ASSUME ~LateInserts PROVE WheelInv /\ [Next]_vars => [Timers!Next]_Timers!vars
<1> USE WheelAssumption
<1> SUFFICES ASSUME WheelInv, [Next]_vars PROVE Timers!Next \/ UNCHANGED Timers!vars
  OBVIOUS
<1>0. /\ Started \in Nat \ {0} /\ Started <= current_time
      /\ pc # "lpc" => Started = call_out_time /\ call_out_time # 0
  BY StartedType DEF WheelInv, TypeOK, ClockBehind, Started
<1>1. ASSUME NEW o \in Objects, NEW f \in Funs, NEW d \in Delays, NewCallOut(o, f, d)
      PROVE  Timers!Next
  <2> DEFINE due == current_time + AtLeast1(d)
             e == [id |-> unique + 1, ob |-> o, fun |-> f, slot |-> due % CYCLE, laps |-> Laps(due)]
  <2>1. due \in Nat /\ due >= Started + 1 /\ wheel' = wheel \cup {e}
    BY <1>1, NewEntry
  <2>2. Started' = Started /\ pc' = pc /\ (pc # "lpc" => call_out_time' = call_out_time)
    BY <1>0, <1>1 DEF NewCallOut, Started
  <2>3. \A s : BeingVisited(s)' = BeingVisited(s)
    BY <2>2 DEF BeingVisited, Visited
  <2>4. \A x : DueAt(x)' = DueAt(x)
    BY <2>2, <2>3, DueKept
  <2>5. ~BeingVisited(e.slot)
    <3>1. pc = "callback" => due % CYCLE # Visited
      BY <1>1 DEF NewCallOut
    <3>2. pc \in {"lpc", "callback"}
      BY <1>1 DEF NewCallOut, LpcRuns
    <3>3. QED
      BY <3>1, <3>2 DEF BeingVisited
  <2>6. DueAt(e) = due
    <3>1. DueAt(e) = Started + 1 + (((due % CYCLE) - Started - 1) % CYCLE) + CYCLE * (Laps(due) - 1)
      BY <2>5 DEF DueAt, FirstVisit
    <3> HIDE DEF e, due
    <3>2. /\ ((due - Started - 1) \div CYCLE) \in Nat
          /\ (((due % CYCLE) - Started - 1) % CYCLE)
               + CYCLE * ((due - Started - 1) \div CYCLE) = due - Started - 1
      BY <1>0, <2>1, SlotAndLaps
    <3>3. Laps(due) - 1 = (due - Started - 1) \div CYCLE
      BY <3>2 DEF Laps
    <3>4. (due % CYCLE) \in 0..(CYCLE - 1)
      BY <2>1, DivMod
    <3>5. (((due % CYCLE) - Started - 1) % CYCLE) \in Int
      BY <1>0, <3>4, DivMod, SMTT(30)
    <3>6. CYCLE * ((due - Started - 1) \div CYCLE) \in Int
      BY <3>2
    <3>7. QED
      BY <1>0, <2>1, <3>1, <3>2, <3>3, <3>5, <3>6
  <2>7. TimersOf' = TimersOf \cup
          {[id |-> unique + 1, ob |-> o, fun |-> f, due |-> current_time + AtLeast1(d)]}
    <3>1. e.id = unique + 1 /\ e.ob = o /\ e.fun = f
      OBVIOUS
    <3> HIDE DEF e
    <3>2. QED
      BY <2>1, <2>4, <2>6, <3>1 DEF TimersOf
  <2>8. Timers!Schedule(o, f, AtLeast1(d))
    BY <1>1, <2>2, <2>7 DEF Timers!Schedule, NewCallOut, TimersOf
  <2>9. o \in Objects \ destructed
    BY <1>1 DEF NewCallOut
  <2>10. AtLeast1(d) \in {AtLeast1(x) : x \in Delays}
    OBVIOUS
  <2>11. QED
    BY <2>8, <2>9, <2>10 DEF Timers!Next
<1>2. ASSUME NEW e \in wheel, Remove(e) PROVE Timers!Next
  <2>1. \A x : DueAt(x)' = DueAt(x)
    BY <1>2, DueKept DEF Remove, Started, BeingVisited, Visited
  <2>2. TimersOf' = TimersOf \ {TimerOf(e)}
    BY <1>2, <2>1 DEF TimersOf, TimerOf, Remove, WheelInv, IdsUnique
  <2>3. PICK c : c = TimerOf(e)
    OBVIOUS
  <2>4. c \in TimersOf
    BY <2>3 DEF TimersOf, TimerOf
  <2>5. Timers!Cancel(c)
    BY <1>2, <2>2, <2>3 DEF Timers!Cancel, TimersOf, Remove, Started
  <2>6. QED
    BY <2>4, <2>5 DEF Timers!Next, TimersOf
<1>3. ASSUME NEW o \in Objects, RemoveAll(o) PROVE Timers!Next
  <2>1. \A x : DueAt(x)' = DueAt(x)
    BY <1>3, DueKept DEF RemoveAll, Started, BeingVisited, Visited
  <2>2. TimersOf' = {c \in TimersOf : c.ob # o /\ c.ob \notin destructed}
    BY <1>3, <2>1 DEF TimersOf, RemoveAll
  <2>3. Timers!CancelAll(o)
    BY <1>3, <2>2 DEF Timers!CancelAll, TimersOf, RemoveAll, Started
  <2>4. QED
    BY <2>3 DEF Timers!Next
<1>4. ASSUME NEW o \in Objects, Destruct(o) PROVE Timers!Next
  <2>1. \A x : DueAt(x)' = DueAt(x)
    BY <1>4, DueKept DEF Destruct, Started, BeingVisited, Visited
  <2>2. TimersOf' = TimersOf
    BY <1>4, <2>1 DEF TimersOf, Destruct
  <2>3. Timers!Destruct(o)
    BY <1>4, <2>2 DEF Timers!Destruct, TimersOf, Destruct, Started
  <2>4. QED
    BY <2>3 DEF Timers!Next
<1>5. ASSUME TimePasses PROVE Timers!Next
  <2>1. TimersOf' = TimersOf
    <3>1. CASE call_out_time = 0
      BY <1>5, <3>1 DEF TimersOf, TimePasses, WheelInv, ClockBehind
    <3>2. CASE call_out_time # 0
      <4>1. \A x : DueAt(x)' = DueAt(x)
        BY <1>5, <3>2, DueKept DEF TimePasses, Started, BeingVisited, Visited
      <4>2. QED
        BY <1>5, <4>1 DEF TimersOf, TimePasses
    <3>3. QED
      BY <3>1, <3>2
  <2>2. Timers!Pass
    BY <1>5, <2>1 DEF Timers!Pass, TimersOf, TimePasses, Started, WheelInv, TypeOK, ClockBehind
  <2>3. QED
    BY <2>2 DEF Timers!Next
<1>6. ASSUME CallOutBegin PROVE UNCHANGED Timers!vars
  <2>1. Started' = Started /\ \A s : BeingVisited(s)' = BeingVisited(s)
    BY <1>0, <1>6 DEF CallOutBegin, Started, BeingVisited
  <2>2. TimersOf' = TimersOf
    BY <1>6, <2>1, DueKept DEF TimersOf, CallOutBegin
  <2>3. QED
    BY <1>6, <2>1, <2>2 DEF Timers!vars, TimersOf, CallOutBegin
<1>7. ASSUME VisitSlot PROVE Timers!Next \/ UNCHANGED Timers!vars
  <2> DEFINE V(e) == IF e.slot = Visited THEN [e EXCEPT !.laps = @ - 1] ELSE e
  <2>1. /\ pc = "slots" /\ call_out_time # 0 /\ Started = call_out_time /\ call_out_time \in Nat
        /\ call_out_time < current_time
        /\ wheel' = {V(e) : e \in wheel} /\ wheel' = AfterVisit
    BY <1>0, <1>7 DEF VisitSlot, AfterVisit, WheelInv, TypeOK
  <2>2. \A e \in wheel : /\ e \in Entry /\ e.laps \in Nat /\ e.laps >= 1 /\ e.slot \in 0..(CYCLE - 1)
                         /\ V(e).id = e.id /\ V(e).ob = e.ob /\ V(e).fun = e.fun
                         /\ V(e).slot = e.slot
                         /\ e.slot = Visited => V(e).laps = e.laps - 1
                         /\ e.slot # Visited => V(e).laps = e.laps
    BY <2>1 DEF WheelInv, TypeOK, NoneOverdue, BeingVisited, Entry
  <2> HIDE DEF V
  <2>3. \A e \in wheel :
          /\ e.slot = Visited =>
               DueAt(e) = call_out_time + 1 + ((e.slot - call_out_time - 1) % CYCLE) + CYCLE * (e.laps - 1)
          /\ e.slot # Visited =>
               DueAt(e) = call_out_time + 1 + ((e.slot - call_out_time - 1) % CYCLE) + CYCLE * (e.laps - 1)
    BY <2>1 DEF DueAt, FirstVisit, BeingVisited
  <2>4. CASE Due(AfterVisit) # {}
    <3>1. pc' = "chain" /\ call_out_time' = call_out_time
      BY <1>7, <2>4 DEF VisitSlot
    <3>2. Started' = Started /\ Visited' = Visited
      BY <1>7, <3>1 DEF VisitSlot, Started, Visited
    <3>3. ASSUME NEW e \in wheel, NEW x, x = V(e) PROVE DueAt(x)' = DueAt(e)
      <4>1. CASE e.slot = Visited
        <5>1. BeingVisited(x.slot)'
          BY <2>2, <3>1, <3>2, <3>3, <4>1 DEF BeingVisited
        <5>2. DueAt(x)' = Started + 1 + ((e.slot - Started - 1) % CYCLE) + CYCLE * (e.laps - 1)
          BY <2>2, <3>2, <3>3, <4>1, <5>1 DEF DueAt, FirstVisit
        <5>3. QED
          BY <2>1, <2>3, <4>1, <5>2
      <4>2. CASE e.slot # Visited
        <5>1. ~BeingVisited(x.slot)'
          BY <2>2, <3>1, <3>2, <3>3, <4>2 DEF BeingVisited
        <5>2. DueAt(x)' = Started + 1 + ((e.slot - Started - 1) % CYCLE) + CYCLE * (e.laps - 1)
          BY <2>2, <3>2, <3>3, <4>2, <5>1 DEF DueAt, FirstVisit
        <5>3. QED
          BY <2>1, <2>3, <4>2, <5>2
      <4>3. QED
        BY <4>1, <4>2
    <3>4. TimersOf' = TimersOf
      BY <2>1, <2>2, <3>3 DEF TimersOf
    <3>5. QED
      BY <1>7, <3>2, <3>4 DEF Timers!vars, TimersOf, VisitSlot
  <2>5. CASE Due(AfterVisit) = {}
    <3>1. pc' = "slots" /\ call_out_time' = call_out_time + 1
      BY <1>7, <2>5 DEF VisitSlot
    <3>2. Started' = call_out_time + 1
      BY <2>1, <3>1 DEF Started
    <3>3. ASSUME NEW e \in wheel, NEW x, x = V(e) PROVE DueAt(x)' = DueAt(e) /\ DueAt(e) > Started + 1
      <4>1. ~BeingVisited(x.slot)'
        BY <3>1 DEF BeingVisited
      <4>2. DueAt(x)' = call_out_time + 2 + ((e.slot - call_out_time - 2) % CYCLE) + CYCLE * (V(e).laps - 1)
        <5>1. /\ Started' + 1 = call_out_time + 2
              /\ e.slot - Started' - 1 = e.slot - call_out_time - 2
          BY <2>1, <2>2, <3>2
        <5>2. QED
          BY <2>2, <3>2, <3>3, <4>1, <5>1 DEF DueAt, FirstVisit
      <4>3. CASE e.slot = Visited
        <5>1. V(e).laps = e.laps - 1 /\ e.laps - 1 \in Int
          BY <2>2, <4>3
        <5>2. /\ call_out_time + 1 + ((e.slot - call_out_time - 1) % CYCLE) = call_out_time + 1
              /\ call_out_time + 2 + ((e.slot - call_out_time - 2) % CYCLE) + CYCLE * ((e.laps - 1) - 1)
                   = call_out_time + 1 + CYCLE * (e.laps - 1)
          <6>1. call_out_time \in Nat /\ e.slot \in 0..(CYCLE - 1)
            BY <2>1, <2>2
          <6>2. e.slot = (call_out_time + 1) % CYCLE
            BY <4>3 DEF Visited
          <6>3. QED
            BY <5>1, <6>1, <6>2, DueAfterVisit
        <5>3. DueAt(x)' = DueAt(e) /\ DueAt(e) = call_out_time + 1 + CYCLE * (e.laps - 1)
          BY <2>3, <4>2, <4>3, <5>1, <5>2
        <5>4. e.laps - 1 # 0
          <6>1. V(e) \in AfterVisit /\ V(e).slot = Visited
            BY <2>1, <2>2, <4>3
          <6>2. QED
            BY <2>5, <5>1, <6>1 DEF Due
        <5>5. CYCLE * (e.laps - 1) >= CYCLE * 0 + CYCLE /\ CYCLE * 0 = 0 /\ CYCLE * (e.laps - 1) \in Int
          BY <2>2, <5>4, Multiples
        <5>6. QED
          BY <2>1, <5>3, <5>5
      <4>4. CASE e.slot # Visited
        <5>1. call_out_time + 2 + ((e.slot - call_out_time - 2) % CYCLE)
                = call_out_time + 1 + ((e.slot - call_out_time - 1) % CYCLE)
          <6>1. call_out_time \in Nat /\ e.slot \in 0..(CYCLE - 1)
            BY <2>1, <2>2
          <6>2. e.slot # (call_out_time + 1) % CYCLE
            BY <4>4 DEF Visited
          <6>3. QED
            BY <6>1, <6>2, DueElsewhere
        <5>2. DueAt(x)' = DueAt(e)
          BY <2>2, <2>3, <4>2, <4>4, <5>1
        <5>3. ((e.slot - call_out_time - 1) % CYCLE) \in Int /\ ((e.slot - call_out_time - 1) % CYCLE) >= 1
          BY <2>1, <2>2, <4>4, WheelAssumption, OtherSlot DEF Visited
        <5>4. CYCLE * (e.laps - 1) \in Int /\ CYCLE * (e.laps - 1) >= 0
          BY <2>2
        <5>5. QED
          BY <2>1, <2>3, <4>4, <5>2, <5>3, <5>4
      <4>5. QED
        BY <4>3, <4>4
    <3>4. TimersOf' = TimersOf
      BY <2>1, <2>2, <3>3 DEF TimersOf
    <3>5. \A c \in TimersOf : c.due > Started + 1
      BY <3>3 DEF TimersOf
    <3>6. cop = NoCall
      BY <2>1 DEF WheelInv, ClockBehind
    <3>7. Timers!Tick
      BY <1>7, <2>1, <3>2, <3>4, <3>5, <3>6 DEF Timers!Tick, TimersOf, VisitSlot
    <3>8. QED
      BY <3>7 DEF Timers!Next
  <2>6. QED
    BY <2>4, <2>5
<1>8. ASSUME NEW e \in wheel, TakeFirst(e) PROVE Timers!Next
  <2>1. /\ pc = "chain" /\ Started = call_out_time /\ call_out_time < current_time
        /\ cop = NoCall /\ wheel' = wheel \ {e}
    BY <1>0, <1>8 DEF TakeFirst, WheelInv, ClockBehind
  <2>2. Started' = Started /\ \A s : BeingVisited(s)' = BeingVisited(s)
    BY <1>8 DEF TakeFirst, Started, BeingVisited, Visited
  <2>3. \A x : DueAt(x)' = DueAt(x)
    BY <2>2, DueKept
  <2>4. PICK c : c = TimerOf(e)
    OBVIOUS
  <2>5. c.id = e.id /\ c.ob = e.ob /\ c.fun = e.fun /\ c.due = DueAt(e)
    BY <2>4 DEF TimerOf
  <2>6. TimersOf' = TimersOf \ {c} /\ c \in TimersOf
    BY <2>1, <2>3, <2>4 DEF TimersOf, TimerOf, WheelInv, IdsUnique
  <2>7. Timers!Next1(c)
    <3>1. c.due = Started + 1
      BY <1>8, <2>1, <2>5, DueNow DEF TakeFirst
    <3>2. \A x \in wheel : DueAt(x) = Started + 1 => x.id <= e.id
      BY <1>8, <2>1, DueNow DEF TakeFirst
    <3>3. \A d \in TimersOf : d.due = c.due => d.id <= c.id
      BY <2>5, <3>1, <3>2 DEF TimersOf
    <3>4. QED
      BY <2>1, <3>1, <3>3 DEF Timers!Next1, TimersOf
  <2>8. Timers!Fire(c) \/ Timers!Drop(c)
    <3>1. CASE Dropped(e)
      BY <1>8, <2>1, <2>2, <2>5, <2>6, <2>7, <3>1
      DEF Timers!Drop, Timers!Dropped, Dropped, TimersOf, TakeFirst
    <3>2. CASE ~Dropped(e)
      BY <1>8, <2>1, <2>2, <2>5, <2>6, <2>7, <3>2
      DEF Timers!Fire, Timers!Dropped, Dropped, TimersOf, TakeFirst
    <3>3. QED
      BY <3>1, <3>2
  <2>9. QED
    BY <2>6, <2>8 DEF Timers!Next, TimersOf
<1>9. ASSUME CallbackReturns PROVE Timers!Next
  <2>1. Started' = Started /\ \A s : BeingVisited(s)' = BeingVisited(s)
    BY <1>9 DEF CallbackReturns, Started, BeingVisited, Visited
  <2>2. TimersOf' = TimersOf
    BY <1>9, <2>1, DueKept DEF TimersOf, CallbackReturns
  <2>3. Timers!Return
    BY <1>9, <2>1, <2>2 DEF Timers!Return, TimersOf, CallbackReturns, WheelInv, ClockBehind
  <2>4. QED
    BY <2>3 DEF Timers!Next
<1>10. ASSUME LeaveSlot PROVE Timers!Next
  <2>1. /\ pc = "chain" /\ Started = call_out_time /\ call_out_time \in Nat
        /\ call_out_time < current_time /\ cop = NoCall /\ Due(wheel) = {}
        /\ Started' = call_out_time + 1 /\ pc' = "slots" /\ wheel' = wheel
    BY <1>0, <1>10 DEF LeaveSlot, WheelInv, TypeOK, ClockBehind, Started
  <2>2. ASSUME NEW e \in wheel PROVE DueAt(e)' = DueAt(e) /\ DueAt(e) > Started + 1
    <3>1. e.slot \in 0..(CYCLE - 1) /\ e.laps \in Int
      BY DEF WheelInv, TypeOK, Entry
    <3>2. DueAt(e) > Started + 1
      <4>1. DueAt(e) \in Int /\ DueAt(e) >= Started + 1 /\ DueAt(e) # Started + 1
        BY <2>1, DueNow
      <4>2. QED
        BY <2>1, <4>1
    <3>3. DueAt(e)' = call_out_time + 2 + ((e.slot - call_out_time - 2) % CYCLE) + CYCLE * (e.laps - 1)
      <4>1. ~BeingVisited(e.slot)'
        BY <2>1 DEF BeingVisited
      <4>2. Started' + 1 = call_out_time + 2 /\ e.slot - Started' - 1 = e.slot - call_out_time - 2
        BY <2>1, <3>1
      <4>3. QED
        BY <4>1, <4>2 DEF DueAt, FirstVisit
    <3>4. CASE e.slot = Visited
      <4>1. DueAt(e) = call_out_time + 1 + ((e.slot - call_out_time - 1) % CYCLE) + CYCLE * e.laps
        BY <2>1, <3>4 DEF DueAt, FirstVisit, BeingVisited
      <4>2. /\ call_out_time + 1 + ((e.slot - call_out_time - 1) % CYCLE) = call_out_time + 1
            /\ call_out_time + 2 + ((e.slot - call_out_time - 2) % CYCLE) + CYCLE * (e.laps - 1)
                 = call_out_time + 1 + CYCLE * e.laps
        <5>1. e.slot = (call_out_time + 1) % CYCLE
          BY <3>4 DEF Visited
        <5>2. QED
          BY <2>1, <3>1, <5>1, DueAfterVisit
      <4>3. QED
        BY <3>2, <3>3, <4>1, <4>2
    <3>5. CASE e.slot # Visited
      <4>1. DueAt(e) = call_out_time + 1 + ((e.slot - call_out_time - 1) % CYCLE) + CYCLE * (e.laps - 1)
        BY <2>1, <3>5 DEF DueAt, FirstVisit, BeingVisited
      <4>2. call_out_time + 2 + ((e.slot - call_out_time - 2) % CYCLE)
              = call_out_time + 1 + ((e.slot - call_out_time - 1) % CYCLE)
        <5>1. e.slot # (call_out_time + 1) % CYCLE
          BY <3>5 DEF Visited
        <5>2. QED
          BY <2>1, <3>1, <5>1, DueElsewhere
      <4>3. QED
        BY <3>2, <3>3, <4>1, <4>2
    <3>6. QED
      BY <3>4, <3>5
  <2>3. TimersOf' = TimersOf
    BY <2>1, <2>2 DEF TimersOf
  <2>4. \A c \in TimersOf : c.due > Started + 1
    BY <2>2 DEF TimersOf
  <2>5. Timers!Tick
    BY <1>10, <2>1, <2>3, <2>4 DEF Timers!Tick, TimersOf, LeaveSlot
  <2>6. QED
    BY <2>5 DEF Timers!Next
<1>11. ASSUME CallOutEnd PROVE UNCHANGED Timers!vars
  <2>1. Started' = Started /\ \A s : BeingVisited(s)' = BeingVisited(s)
    BY <1>11 DEF CallOutEnd, Started, BeingVisited
  <2>2. TimersOf' = TimersOf
    BY <1>11, <2>1, DueKept DEF TimersOf, CallOutEnd
  <2>3. QED
    BY <1>11, <2>1, <2>2 DEF Timers!vars, TimersOf, CallOutEnd
<1>12. CASE UNCHANGED vars
  <2>1. Started' = Started /\ \A s : BeingVisited(s)' = BeingVisited(s)
    BY <1>12 DEF vars, Started, BeingVisited, Visited
  <2>2. TimersOf' = TimersOf
    BY <1>12, <2>1, DueKept DEF TimersOf, vars
  <2>3. QED
    BY <1>12, <2>1, <2>2 DEF Timers!vars, TimersOf, vars
<1>13. QED
  BY <1>1, <1>2, <1>3, <1>4, <1>5, <1>6, <1>7, <1>8, <1>9, <1>10, <1>11, <1>12 DEF Next

(* As long as no call out starts another one into the slot being visited,  *)
(* the wheel keeps the promise of the timers: each delayed call runs in    *)
(* the second it was asked for.                                            *)
THEOREM WheelImplementsTimers ==
  ASSUME ~LateInserts PROVE Spec => TimersImplemented
<1>1. WheelInv /\ [Next]_vars => [Timers!Next]_Timers!vars
  BY TimersStep
<1>2. QED
  BY <1>1, TimersInit, WheelInvariant, PTL DEF Spec, TimersImplemented, Timers!Spec
=============================================================================
