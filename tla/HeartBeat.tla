----------------------------- MODULE HeartBeat -----------------------------
(***************************************************************************)
(* The heart beats of src/src/backend.c: the array heart_beats[], the      *)
(* round call_heart_beat() makes through it, and set_heart_beat(), which   *)
(* LPC code may call at any time, from within a heart beat too, and then   *)
(* has to move the indices of the round.  heart_beat_index counts from 0   *)
(* as in the source, so entry heart_beats[heart_beat_index + 1] is next.   *)
(***************************************************************************)
EXTENDS Integers, Sequences, FiniteSets

CONSTANTS
  Objects,
  Beating,       \* the objects whose program has a heart_beat() function
  Tos,           \* the arguments LPC code passes to set_heart_beat()
  SHORT,         \* a short holds -SHORT .. SHORT - 1 (32768 in the build)
  SlowBeats,     \* whether a heart_beat() may outlast the alarm interval
  Nobody         \* current_heart_beat == 0

ASSUME HeartBeatAssumption ==
  /\ Beating \subseteq Objects /\ Tos \subseteq Int
  /\ SHORT \in Nat \ {0} /\ SlowBeats \in BOOLEAN /\ Nobody \notin Objects
  /\ IsFiniteSet(Objects)

VARIABLES
  heart_beats,        \* the entries in use, a sequence of [ob, ticks, time]
  heart_beat_index,   \* the entry the round is at
  num_hb_to_do,       \* where the round ends; 0 outside a round
  current_heart_beat, \* whose heart_beat() is running
  heart_beat_flag,    \* set by SIGALRM
  armed,              \* an alarm is to come
  O_HEART_BEAT,       \* the objects with that flag
  destructed,
  pc,                 \* "lpc": outside the round; "round"; "beat": in heart_beat()
  waiting,            \* history: on the list since the round began, not reached yet
  reached             \* history: the objects the round has reached

array == <<heart_beats, heart_beat_index, num_hb_to_do>>
vars == <<heart_beats, heart_beat_index, num_hb_to_do, current_heart_beat, heart_beat_flag,
          armed, O_HEART_BEAT, destructed, pc, waiting, reached>>

Short == (-SHORT)..(SHORT - 1)
num_hb_objs == Len(heart_beats)

(* Shorts stay shorts, the index never runs below -1 and no round goes on  *)
(* past the entries in use.                                                *)
TypeOK ==
  /\ heart_beats \in Seq([ob: Objects, ticks: Short, time: Short])
  /\ heart_beat_index \in -1..num_hb_to_do
  /\ num_hb_to_do \in 0..Cardinality(Objects)
  /\ current_heart_beat \in Objects \cup {Nobody}
  /\ heart_beat_flag \in BOOLEAN /\ armed \in BOOLEAN
  /\ O_HEART_BEAT \subseteq Objects /\ destructed \subseteq Objects
  /\ pc \in {"lpc", "round", "beat"}
  /\ waiting \subseteq Objects /\ reached \subseteq Objects

Init ==
  /\ heart_beats = <<>> /\ heart_beat_index = 0 /\ num_hb_to_do = 0
  /\ current_heart_beat = Nobody
  /\ heart_beat_flag = TRUE /\ armed = FALSE   \* backend() starts with a round
  /\ O_HEART_BEAT = {} /\ destructed = {} /\ pc = "lpc"
  /\ waiting = {} /\ reached = {}
-----------------------------------------------------------------------------
(* Assigning an int to a short keeps its low bits.                         *)
ToShort(n) == ((n + SHORT) % (2 * SHORT)) - SHORT

Without(list, i) == SubSeq(list, 1, i - 1) \o SubSeq(list, i + 1, Len(list))

(* Mutants of Moved: the entry the round is at does not count; only the    *)
(* index moves.                                                            *)
MovedIfBefore(index) ==
  <<IF num_hb_to_do # 0 /\ index < heart_beat_index THEN 1 ELSE 0,
    IF num_hb_to_do # 0 /\ index < num_hb_to_do THEN 1 ELSE 0>>
MovedIndexOnly(index) ==
  <<IF num_hb_to_do # 0 /\ index <= heart_beat_index THEN 1 ELSE 0, 0>>

(* By how much the position and the end of a round under way move down     *)
(* when entry index leaves the array.                                      *)
Moved(index) ==
  <<IF num_hb_to_do # 0 /\ index <= heart_beat_index THEN 1 ELSE 0,
    IF num_hb_to_do # 0 /\ index < num_hb_to_do THEN 1 ELSE 0>>

(* set_heart_beat(ob, 0): the entry is taken out of the array, and a round *)
(* under way is told if the entry was before its position or its end.      *)
TurnOff(ob) ==
  LET at == {i \in 1..num_hb_objs : heart_beats[i].ob = ob}
  IN  IF at = {} \/ ob \in destructed
      THEN UNCHANGED <<heart_beats, heart_beat_index, num_hb_to_do, O_HEART_BEAT, waiting>>
      ELSE LET i == CHOOSE j \in at : \A k \in at : k <= j
               moved == Moved(i - 1)
           IN  /\ heart_beat_index' = heart_beat_index - moved[1]
               /\ num_hb_to_do' = num_hb_to_do - moved[2]
               /\ heart_beats' = Without(heart_beats, i)
               /\ O_HEART_BEAT' = O_HEART_BEAT \ {ob}
               /\ waiting' = waiting \ {ob}

(* set_heart_beat(ob, to) with to # 0: a listed object gets a new period,  *)
(* another one is added at the end.                                        *)
TurnOn(ob, to) ==
  /\ UNCHANGED <<heart_beat_index, num_hb_to_do, waiting>>
  /\ IF ob \in O_HEART_BEAT
     THEN /\ O_HEART_BEAT' = O_HEART_BEAT
          /\ heart_beats' = IF to < 0 THEN heart_beats
               ELSE [i \in 1..num_hb_objs |->
                       IF heart_beats[i].ob = ob
                       THEN [heart_beats[i] EXCEPT !.time = ToShort(to), !.ticks = ToShort(to)]
                       ELSE heart_beats[i]]
     ELSE /\ O_HEART_BEAT' = O_HEART_BEAT \cup {ob}
          /\ LET t == ToShort(IF to < 0 THEN 1 ELSE to)
             IN  heart_beats' = Append(heart_beats, [ob |-> ob, ticks |-> t, time |-> t])

LpcRuns == pc \in {"lpc", "beat"}

set_heart_beat(ob, to) ==
  /\ LpcRuns /\ ob \notin destructed
  /\ IF to = 0 THEN TurnOff(ob) ELSE TurnOn(ob, to)
  /\ UNCHANGED <<current_heart_beat, heart_beat_flag, armed, destructed, pc, reached>>

(* destruct_object() turns the heart beat off before it sets O_DESTRUCTED. *)
destruct_object(ob) ==
  /\ LpcRuns /\ ob \notin destructed
  /\ TurnOff(ob)
  /\ destructed' = destructed \cup {ob}
  /\ UNCHANGED <<current_heart_beat, heart_beat_flag, armed, pc, reached>>
-----------------------------------------------------------------------------
(* The round.                                                              *)

sigalrm_handler ==
  /\ armed /\ pc \in (IF SlowBeats THEN {"lpc", "beat"} ELSE {"lpc"})
  /\ heart_beat_flag' = TRUE /\ armed' = FALSE
  /\ UNCHANGED <<array, current_heart_beat, O_HEART_BEAT, destructed, pc, waiting, reached>>

(* The loop is left: nothing is to do any more, current_heart_beat is 0.   *)
EndRound ==
  /\ heart_beat_index' = 0 /\ num_hb_to_do' = 0
  /\ current_heart_beat' = Nobody /\ pc' = "lpc"

(* Mutant of call_heart_beat: the alarm is not set again.                  *)
RoundWithoutAlarm ==
  /\ pc = "lpc" /\ heart_beat_flag
  /\ heart_beat_flag' = FALSE /\ num_hb_to_do' = num_hb_objs
  /\ IF num_hb_objs = 0
       THEN pc' = "lpc" /\ UNCHANGED heart_beat_index
       ELSE pc' = "round" /\ heart_beat_index' = 0
  /\ waiting' = {heart_beats[i].ob : i \in 1..num_hb_objs} /\ reached' = {}
  /\ UNCHANGED <<heart_beats, armed, current_heart_beat, O_HEART_BEAT, destructed>>

call_heart_beat ==
  /\ pc = "lpc" /\ heart_beat_flag
  /\ heart_beat_flag' = FALSE /\ armed' = TRUE
  /\ num_hb_to_do' = num_hb_objs
  /\ IF num_hb_objs = 0
       THEN pc' = "lpc" /\ UNCHANGED heart_beat_index
       ELSE pc' = "round" /\ heart_beat_index' = 0
  /\ waiting' = {heart_beats[i].ob : i \in 1..num_hb_objs} /\ reached' = {}
  /\ UNCHANGED <<heart_beats, current_heart_beat, O_HEART_BEAT, destructed>>

(* Going on to the next entry, or out of the loop behind the last one.     *)
StepOn ==
  IF heart_beat_index + 1 = num_hb_to_do
    THEN EndRound
    ELSE /\ heart_beat_index' = heart_beat_index + 1
         /\ pc' = "round"
         /\ UNCHANGED <<num_hb_to_do, current_heart_beat>>

(* The entry's ticks run down; at the end of its period the object beats.  *)
ReachEntry ==
  LET i     == heart_beat_index + 1
      ob    == heart_beats[i].ob
      ticks == ToShort(heart_beats[i].ticks - 1)
      beats == ob \in Beating /\ ticks < 1
  IN  /\ pc = "round" /\ ~heart_beat_flag
      /\ heart_beats' = [heart_beats EXCEPT ![i].ticks = IF beats THEN heart_beats[i].time ELSE ticks]
      /\ IF beats
           THEN /\ current_heart_beat' = ob /\ pc' = "beat"
                /\ UNCHANGED <<heart_beat_index, num_hb_to_do>>
           ELSE StepOn
      /\ waiting' = waiting \ {ob} /\ reached' = reached \cup {ob}
      /\ UNCHANGED <<heart_beat_flag, armed, O_HEART_BEAT, destructed>>

(* An alarm during the round ends it.                                      *)
CutRound ==
  /\ pc = "round" /\ heart_beat_flag
  /\ EndRound
  /\ UNCHANGED <<heart_beats, heart_beat_flag, armed, O_HEART_BEAT, destructed, waiting, reached>>

BeatReturns ==
  /\ pc = "beat"
  /\ StepOn
  /\ UNCHANGED <<heart_beats, heart_beat_flag, armed, O_HEART_BEAT, destructed, waiting, reached>>

(* error_handler() turns off the heart beat that failed.  An error inside  *)
(* a safe_apply() made by the heart beat does so too, but the heart beat   *)
(* goes on; any other error jumps back to backend(), leaving the indices   *)
(* of the round as they are.                                               *)
BeatFails ==
  /\ pc = "beat"
  /\ IF current_heart_beat = Nobody
       THEN UNCHANGED <<array, O_HEART_BEAT, waiting>>
       ELSE TurnOff(current_heart_beat)
  /\ current_heart_beat' = Nobody
  /\ pc' \in {"lpc", "beat"}
  /\ UNCHANGED <<heart_beat_flag, armed, destructed, reached>>

Next ==
  \/ \E ob \in Objects : destruct_object(ob) \/ \E to \in Tos : set_heart_beat(ob, to)
  \/ sigalrm_handler \/ call_heart_beat \/ ReachEntry \/ CutRound \/ BeatReturns \/ BeatFails

Spec == Init /\ [][Next]_vars

(* An alarm once armed goes off, backend() calls call_heart_beat() when it *)
(* has, and the evaluation limit ends every heart_beat().                  *)
FairSpec ==
  /\ Spec
  /\ WF_vars(sigalrm_handler) /\ WF_vars(call_heart_beat)
  /\ WF_vars(ReachEntry) /\ WF_vars(CutRound) /\ WF_vars(BeatReturns)
-----------------------------------------------------------------------------
InRound == pc \in {"round", "beat"}

(* The first entry the round has not reached yet, counted from 1.          *)
NextEntry == heart_beat_index + (IF pc = "round" THEN 1 ELSE 2)

(* The array and the flags agree: an object is on the list once if it has  *)
(* O_HEART_BEAT and not at all otherwise, and no destructed object is.     *)
ListMatchesFlags ==
  /\ O_HEART_BEAT = {heart_beats[i].ob : i \in 1..num_hb_objs}
  /\ O_HEART_BEAT \cap destructed = {}
  /\ \A i, j \in 1..num_hb_objs : heart_beats[i].ob = heart_beats[j].ob => i = j

(* However heart beats turn each other on and off during a round, what is  *)
(* left between its position and its end are exactly the objects that were *)
(* on the list when it began, stayed on it and have not been reached: none *)
(* is skipped, none added meanwhile is taken in, and the end of the loop   *)
(* is never stepped over.  The end a failed round leaves behind stays      *)
(* inside the list too.                                                    *)
RoundOnCourse ==
  /\ num_hb_to_do <= num_hb_objs
  /\ InRound =>
       /\ NextEntry >= 1 /\ heart_beat_index < num_hb_to_do
       /\ waiting = {heart_beats[i].ob : i \in NextEntry..num_hb_to_do}
       /\ waiting \cap reached = {}

(* No round reaches an object twice, even if it is turned off and on again *)
(* in between, and a round that is not cut short by an alarm or an error   *)
(* reaches everything.                                                     *)
NoneTwiceNoneMissed ==
  [][/\ ReachEntry => heart_beats[heart_beat_index + 1].ob \notin reached
     /\ (ReachEntry \/ BeatReturns) /\ pc' = "lpc" => waiting' = {}]_vars

(* If from some time on no heart beat outlasts the alarm interval, every   *)
(* object that keeps its heart beat gets its turn, whatever the rounds cut *)
(* before and the errors in heart beats left behind.                       *)
TurnsUnlessCut ==
  <>[][~CutRound]_vars =>
    \A ob \in Objects : ob \in O_HEART_BEAT ~> (ob \in reached \/ ob \notin O_HEART_BEAT)

(* The list, the flags and the position of the round stay in step while    *)
(* heart beats turn each other on and off, destruct objects and fail.      *)
RoundSound == TypeOK /\ ListMatchesFlags /\ RoundOnCourse

(* For model checking: a negative argument means a period of 1.            *)
TosToTry == {-1, 0, 2}
=============================================================================
