--------------------------- MODULE CallOutTimers ---------------------------
(***************************************************************************)
(* What call_out() promises to LPC code: a delayed call made at second now *)
(* with a delay d is made once, when the call out clock reaches second     *)
(* now + d; calls that are due in the same second are made latest first    *)
(* (src/src/Ideas, item 7); a call may be cancelled while it is pending,   *)
(* and those to a named function of a destructed object are dropped (one   *)
(* to a function pointer is tried and fails).  No wheel, no slots.         *)
(***************************************************************************)
EXTENDS Integers

CONSTANTS
  Objects, Funs,
  Pointers,     \* the members of Funs that are function pointers
  Waits,        \* the delays LPC code asks for, in seconds, at least 1
  NoCall        \* no delayed call is being made

VARIABLES
  pending,      \* the delayed calls, each with the second it is due
  issued,       \* how many call outs were ever started
  clock,        \* every call due at clock or before has been dealt with
  now,          \* the driver's current_time
  destructed,   \* the destructed objects
  running       \* the call being made, or NoCall

vars == <<pending, issued, clock, now, destructed, running>>

Init ==
  /\ pending = {} /\ issued = 0 /\ destructed = {} /\ running = NoCall
  /\ now \in Nat \ {0} /\ clock = now

(* A call out is started: it is due d >= 1 seconds from now.               *)
Schedule(o, f, d) ==
  /\ pending' = pending \cup
        {[id |-> issued + 1, ob |-> o, fun |-> f, due |-> now + d]}
  /\ issued' = issued + 1
  /\ UNCHANGED <<clock, now, destructed, running>>

(* One pending call out is cancelled, or all of one object's (those of     *)
(* destructed objects go with them).                                       *)
Cancel(c) ==
  /\ pending' = pending \ {c}
  /\ UNCHANGED <<issued, clock, now, destructed, running>>

CancelAll(o) ==
  /\ pending' = {c \in pending : c.ob # o /\ c.ob \notin destructed}
  /\ UNCHANGED <<issued, clock, now, destructed, running>>

(* The next call to make: due in the second the clock is about to enter,   *)
(* and the newest of those.                                                *)
Next1(c) ==
  /\ c.due = clock + 1 /\ clock < now
  /\ \A d \in pending : d.due = c.due => d.id <= c.id

Dropped(c) == c.ob \in destructed /\ c.fun \notin Pointers

Fire(c) ==
  /\ running = NoCall /\ Next1(c) /\ ~Dropped(c)
  /\ pending' = pending \ {c}
  /\ running' = [id |-> c.id, ob |-> c.ob, fun |-> c.fun]
  /\ UNCHANGED <<issued, clock, now, destructed>>

Drop(c) ==
  /\ running = NoCall /\ Next1(c) /\ Dropped(c)
  /\ pending' = pending \ {c}
  /\ UNCHANGED <<issued, clock, now, destructed, running>>

Return ==
  /\ running # NoCall
  /\ running' = NoCall
  /\ UNCHANGED <<pending, issued, clock, now, destructed>>

(* The call out clock moves on only when nothing is due any more.          *)
Tick ==
  /\ running = NoCall /\ clock < now
  /\ \A c \in pending : c.due > clock + 1
  /\ clock' = clock + 1
  /\ UNCHANGED <<pending, issued, now, destructed, running>>

(* Real time passes; before the first call out the clock just follows it.  *)
Pass ==
  /\ running = NoCall
  /\ now' \in Nat /\ now' >= now
  /\ \/ clock' = clock
     \/ issued = 0 /\ clock' = now'
  /\ UNCHANGED <<pending, issued, destructed, running>>

Destruct(o) ==
  /\ destructed' = destructed \cup {o}
  /\ UNCHANGED <<pending, issued, clock, now, running>>

Next ==
  \/ \E o \in Objects \ destructed, f \in Funs, d \in Waits : Schedule(o, f, d)
  \/ \E c \in pending : Cancel(c) \/ Fire(c) \/ Drop(c)
  \/ \E o \in Objects : CancelAll(o) \/ Destruct(o)
  \/ Return
  \/ Tick
  \/ Pass

Spec == Init /\ [][Next]_vars
=============================================================================
