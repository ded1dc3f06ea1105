---------------------------- MODULE BackendProofs ----------------------------
(***************************************************************************)
(* Proofs about what the backend runs: the rounds of heart beats, for any  *)
(* objects, any periods and any width of a short; the calls of LPC code,   *)
(* with the errors that unwind them, for any depth of the control stack,   *)
(* any objects and any numbers of arguments; and the preprocessor when a   *)
(* file is compiled, for any macros, any files and any programs.           *)
(***************************************************************************)
EXTENDS HeartBeat, Evaluation, Preprocessor, Lemmas, SequenceTheorems, FunctionTheorems,
        FiniteSetTheorems, TLAPS

Item == [ob: Objects, ticks: Short, time: Short]
ObsOf(list, from, to) == {list[i].ob : i \in from..to}

(* Whatever is assigned to a short fits into it.                           *)
LEMMA ShortFits == \A n \in Int : ToShort(n) \in Short
<1> SUFFICES ASSUME NEW n \in Int PROVE ToShort(n) \in Short
  OBVIOUS
<1>1. 2 * SHORT \in Nat \ {0} /\ SHORT \in Nat \ {0}
  BY HeartBeatAssumption
<1>2. \A a \in Int, b \in Nat \ {0} : (a % b) \in 0..(b - 1)
  OBVIOUS
<1>3. (n + SHORT) % (2 * SHORT) \in 0..(2 * SHORT - 1)
  BY <1>1, <1>2
<1> QED
  BY <1>1, <1>3 DEF ToShort, Short

(* What is left of a list without its i-th element.                        *)
LEMMA WithoutProperties ==
  ASSUME NEW S, NEW list \in Seq(S), NEW i \in 1..Len(list)
  PROVE  /\ Without(list, i) \in Seq(S)
         /\ Len(Without(list, i)) = Len(list) - 1
         /\ \A j \in 1..(Len(list) - 1) :
              Without(list, i)[j] = IF j < i THEN list[j] ELSE list[j + 1]
<1> DEFINE a == SubSeq(list, 1, i - 1)
           b == SubSeq(list, i + 1, Len(list))
<1>1. Len(list) \in Nat /\ \A j \in 1..Len(list) : list[j] \in S
  BY LenProperties, ElementOfSeq
<1>2. /\ a \in Seq(S) /\ Len(a) = i - 1
      /\ \A j \in 1..(i - 1) : a[j] = list[j]
  <2>1. \A j \in 1..(i - 1) : list[j] \in S
    BY <1>1
  <2>2. /\ SubSeq(list, 1, i - 1) \in Seq(S)
        /\ Len(SubSeq(list, 1, i - 1)) = IF 1 <= i - 1 THEN i - 1 - 1 + 1 ELSE 0
        /\ \A j \in 1..(i - 1 - 1 + 1) : SubSeq(list, 1, i - 1)[j] = list[1 + j - 1]
    BY <2>1, SubSeqProperties
  <2> QED
    BY <2>2, <1>1
<1>3. /\ b \in Seq(S) /\ Len(b) = Len(list) - i
      /\ \A j \in 1..(Len(list) - i) : b[j] = list[i + j]
  <2>1. \A j \in (i + 1)..Len(list) : list[j] \in S
    BY <1>1
  <2>2. /\ SubSeq(list, i + 1, Len(list)) \in Seq(S)
        /\ Len(SubSeq(list, i + 1, Len(list))) =
             IF i + 1 <= Len(list) THEN Len(list) - (i + 1) + 1 ELSE 0
        /\ \A j \in 1..(Len(list) - (i + 1) + 1) :
             SubSeq(list, i + 1, Len(list))[j] = list[i + 1 + j - 1]
    BY <2>1, <1>1, SubSeqProperties
  <2> QED
    BY <2>2, <1>1
<1> HIDE DEF a, b
<1>4. /\ a \o b \in Seq(S)
      /\ Len(a \o b) = Len(a) + Len(b)
      /\ \A j \in 1..(Len(a) + Len(b)) : (a \o b)[j] = IF j <= Len(a) THEN a[j] ELSE b[j - Len(a)]
  BY <1>2, <1>3, ConcatProperties
<1>5. \A j \in 1..(Len(list) - 1) : (a \o b)[j] = IF j < i THEN list[j] ELSE list[j + 1]
  <2> SUFFICES ASSUME NEW j \in 1..(Len(list) - 1)
               PROVE  (a \o b)[j] = IF j < i THEN list[j] ELSE list[j + 1]
    OBVIOUS
  <2>1. CASE j < i
    BY <1>1, <1>2, <1>3, <1>4, <2>1
  <2>2. CASE ~(j < i)
    <3>1. j - (i - 1) \in 1..(Len(list) - i) /\ i + (j - (i - 1)) = j + 1
      BY <1>1, <2>2
    <3>2. b[j - (i - 1)] = list[j + 1]
      BY <1>3, <3>1
    <3> QED
      BY <1>1, <1>2, <1>3, <1>4, <2>2, <3>2
  <2> QED
    BY <2>1, <2>2
<1>6. Without(list, i) = a \o b
  BY DEF a, b, Without
<1> QED
  BY <1>1, <1>2, <1>3, <1>4, <1>5, <1>6
-----------------------------------------------------------------------------
(* A list without repetitions is no longer than there are objects.         *)
LEMMA ListFits ==
  ASSUME TypeOK, ListMatchesFlags
  PROVE  num_hb_objs \in Nat /\ num_hb_objs <= Cardinality(Objects)
<1> DEFINE f == [i \in 1..num_hb_objs |-> heart_beats[i].ob]
<1>1. num_hb_objs \in Nat /\ \A i \in 1..num_hb_objs : heart_beats[i] \in Item
  BY LenProperties, ElementOfSeq DEF TypeOK, num_hb_objs, Item
<1>2. f \in [1..num_hb_objs -> Objects]
  BY <1>1 DEF Item
<1>3. f \in Injection(1..num_hb_objs, Objects)
  BY <1>2, Fun_IsInj DEF ListMatchesFlags
<1> HIDE DEF f
<1>4. Cardinality(1..num_hb_objs) <= Cardinality(Objects)
  BY <1>3, FS_Injection, HeartBeatAssumption
<1>5. Cardinality(1..num_hb_objs) = num_hb_objs
  BY <1>1, FS_Interval
<1> QED
  BY <1>1, <1>4, <1>5

(* What turning off the heart beat of an object keeps, while LPC code runs *)
(* outside a round or inside one.                                          *)
LEMMA TurnedOff ==
  ASSUME RoundSound, LpcRuns, NEW ob \in Objects, TurnOff(ob)
  PROVE  /\ heart_beats' \in Seq(Item)
         /\ heart_beat_index' \in -1..num_hb_to_do'
         /\ num_hb_to_do' \in 0..Cardinality(Objects)
         /\ O_HEART_BEAT' = ObsOf(heart_beats', 1, Len(heart_beats'))
         /\ O_HEART_BEAT' \subseteq Objects
         /\ O_HEART_BEAT' \cap (destructed \cup {ob}) = {}
         /\ \A i, j \in 1..Len(heart_beats') : heart_beats'[i].ob = heart_beats'[j].ob => i = j
         /\ waiting' \subseteq waiting
         /\ num_hb_to_do' <= Len(heart_beats')
         /\ pc = "beat" => /\ heart_beat_index' < num_hb_to_do'
                           /\ waiting' = ObsOf(heart_beats', heart_beat_index' + 2, num_hb_to_do')
<1> DEFINE n == Len(heart_beats)
           at == {i \in 1..n : heart_beats[i].ob = ob}
<1>1. /\ heart_beats \in Seq(Item) /\ n \in Nat
      /\ \A i \in 1..n : heart_beats[i] \in Item /\ heart_beats[i].ob \in Objects
      /\ heart_beat_index \in -1..num_hb_to_do /\ num_hb_to_do \in 0..Cardinality(Objects)
      /\ heart_beat_index \in Int /\ num_hb_to_do \in Nat
      /\ O_HEART_BEAT \subseteq Objects
  <2>1. heart_beats \in Seq(Item)
    BY DEF RoundSound, TypeOK, Item
  <2>2. n \in Nat /\ \A i \in 1..n : heart_beats[i] \in Item
    BY <2>1, LenProperties, ElementOfSeq
  <2>3. Cardinality(Objects) \in Nat
    BY HeartBeatAssumption, FS_CardinalityType
  <2> QED
    BY <2>1, <2>2, <2>3 DEF RoundSound, TypeOK, Item
<1>2. /\ O_HEART_BEAT = ObsOf(heart_beats, 1, n)
      /\ O_HEART_BEAT \cap destructed = {}
      /\ \A i, j \in 1..n : heart_beats[i].ob = heart_beats[j].ob => i = j
  BY DEF RoundSound, ListMatchesFlags, ObsOf, num_hb_objs
<1>3. /\ num_hb_to_do <= n
      /\ pc = "beat" => /\ heart_beat_index < num_hb_to_do
                        /\ waiting = ObsOf(heart_beats, heart_beat_index + 2, num_hb_to_do)
  BY DEF RoundSound, RoundOnCourse, InRound, NextEntry, ObsOf, num_hb_objs
<1>4. CASE at = {} \/ ob \in destructed
  <2>1. UNCHANGED <<heart_beats, heart_beat_index, num_hb_to_do, O_HEART_BEAT, waiting>>
    BY <1>4 DEF TurnOff, num_hb_objs
  <2>2. ob \notin O_HEART_BEAT
    BY <1>2, <1>4 DEF ObsOf
  <2> QED
    BY <1>1, <1>2, <1>3, <2>1, <2>2
<1>5. CASE at # {} /\ ob \notin destructed
  <2> DEFINE k == CHOOSE j \in at : \A i \in at : i <= j
  <2>1. PICK p \in 1..n : heart_beats[p].ob = ob
    BY <1>5
  <2>2. at = {p}
    BY <1>2, <2>1
  <2>3. k = p
    BY <2>2, <1>1
  <2> HIDE DEF k
  <2>4. /\ heart_beat_index' = heart_beat_index - Moved(p - 1)[1]
        /\ num_hb_to_do' = num_hb_to_do - Moved(p - 1)[2]
        /\ heart_beats' = Without(heart_beats, p)
        /\ O_HEART_BEAT' = O_HEART_BEAT \ {ob}
        /\ waiting' = waiting \ {ob}
    BY <1>5, <2>3 DEF TurnOff, num_hb_objs, k
  <2>5. /\ heart_beats' \in Seq(Item) /\ Len(heart_beats') = n - 1
        /\ \A j \in 1..(n - 1) :
             heart_beats'[j] = IF j < p THEN heart_beats[j] ELSE heart_beats[j + 1]
    BY <1>1, <2>4, WithoutProperties
  <2>6. \A j \in 1..n : j # p => heart_beats[j].ob # ob
    BY <1>2, <2>1
  <2>7. ObsOf(heart_beats', 1, n - 1) = ObsOf(heart_beats, 1, n) \ {ob}
    <3>1. \A j \in 1..(n - 1) : \E i \in 1..n : i # p /\ heart_beats'[j].ob = heart_beats[i].ob
      <4> TAKE j \in 1..(n - 1)
      <4>1. CASE j < p
        BY <1>1, <2>5, <4>1
      <4>2. CASE ~(j < p)
        <5> j + 1 \in 1..n /\ j + 1 # p
          BY <1>1, <4>2
        <5> QED
          BY <2>5, <4>2
      <4> QED
        BY <4>1, <4>2
    <3>2. \A i \in 1..n : i # p => \E j \in 1..(n - 1) : heart_beats'[j].ob = heart_beats[i].ob
      <4> TAKE i \in 1..n
      <4> HAVE i # p
      <4>1. CASE i < p
        BY <1>1, <2>5, <4>1
      <4>2. CASE i > p
        <5> i - 1 \in 1..(n - 1) /\ ~(i - 1 < p) /\ (i - 1) + 1 = i
          BY <1>1, <4>2
        <5> QED
          BY <2>5, <4>2
      <4> QED
        BY <1>1, <4>1, <4>2
    <3>3. ObsOf(heart_beats', 1, n - 1) \subseteq ObsOf(heart_beats, 1, n) \ {ob}
      BY <3>1, <2>6, SMTT(30) DEF ObsOf
    <3>4. ObsOf(heart_beats, 1, n) \ {ob} \subseteq ObsOf(heart_beats', 1, n - 1)
      BY <3>2, <2>1 DEF ObsOf
    <3> QED
      BY <3>3, <3>4
  <2>8. \A i, j \in 1..(n - 1) : heart_beats'[i].ob = heart_beats'[j].ob => i = j
    BY <1>1, <1>2, <2>1, <2>5
  <2>9. Moved(p - 1) = <<IF num_hb_to_do # 0 /\ p - 1 <= heart_beat_index THEN 1 ELSE 0,
                         IF num_hb_to_do # 0 /\ p - 1 < num_hb_to_do THEN 1 ELSE 0>>
    BY DEF Moved
  <2>10. /\ heart_beat_index' \in -1..num_hb_to_do' /\ num_hb_to_do' \in 0..Cardinality(Objects)
         /\ num_hb_to_do' <= n - 1
    <3> DEFINE m1 == IF num_hb_to_do # 0 /\ p - 1 <= heart_beat_index THEN 1 ELSE 0
               m2 == IF num_hb_to_do # 0 /\ p - 1 < num_hb_to_do THEN 1 ELSE 0
    <3>1. Cardinality(Objects) \in Nat
      BY HeartBeatAssumption, FS_CardinalityType
    <3>2. heart_beat_index' = heart_beat_index - m1 /\ num_hb_to_do' = num_hb_to_do - m2
      BY <2>4, <2>9
    <3>3. CASE num_hb_to_do = 0
      BY <1>1, <1>3, <3>1, <3>2, <3>3
    <3>4. CASE num_hb_to_do # 0 /\ p - 1 <= heart_beat_index
      BY <1>1, <1>3, <3>1, <3>2, <3>4
    <3>5. CASE num_hb_to_do # 0 /\ ~(p - 1 <= heart_beat_index)
      BY <1>1, <1>3, <3>1, <3>2, <3>5
    <3> QED
      BY <3>3, <3>4, <3>5
  <2>11. ASSUME pc = "beat"
         PROVE  /\ heart_beat_index' < num_hb_to_do'
                /\ waiting' = ObsOf(heart_beats', heart_beat_index' + 2, num_hb_to_do')
    <3>1. CASE num_hb_to_do = 0
      <4>1. num_hb_to_do' = 0 /\ heart_beat_index' = -1 /\ heart_beat_index = -1
        BY <1>1, <1>3, <2>4, <2>9, <2>11, <3>1
      <4>2. (heart_beat_index + 2)..num_hb_to_do = {} /\ (heart_beat_index' + 2)..num_hb_to_do' = {}
        BY <3>1, <4>1
      <4>3. ObsOf(heart_beats, heart_beat_index + 2, num_hb_to_do) = {}
        BY <4>2 DEF ObsOf
      <4>4. ObsOf(heart_beats', heart_beat_index' + 2, num_hb_to_do') = {}
        BY <4>2 DEF ObsOf
      <4> QED
        BY <1>1, <1>3, <2>4, <2>11, <3>1, <4>1, <4>3, <4>4
    <3>2. CASE num_hb_to_do # 0 /\ p - 1 <= heart_beat_index
      <4>1. heart_beat_index' = heart_beat_index - 1 /\ num_hb_to_do' = num_hb_to_do - 1
        BY <1>1, <1>3, <2>4, <2>9, <2>11, <3>2
      <4>2. \A j \in (heart_beat_index + 1)..(num_hb_to_do - 1) : heart_beats'[j] = heart_beats[j + 1]
        BY <1>1, <1>3, <2>5, <2>11, <3>2
      <4>3. ObsOf(heart_beats', heart_beat_index + 1, num_hb_to_do - 1)
              = ObsOf(heart_beats, heart_beat_index + 2, num_hb_to_do)
        <5>1. \A i \in (heart_beat_index + 2)..num_hb_to_do :
                i - 1 \in (heart_beat_index + 1)..(num_hb_to_do - 1) /\ (i - 1) + 1 = i
          BY <1>1
        <5>2. \A j \in (heart_beat_index + 1)..(num_hb_to_do - 1) :
                j + 1 \in (heart_beat_index + 2)..num_hb_to_do
          BY <1>1
        <5> QED
          BY <4>2, <5>1, <5>2 DEF ObsOf
      <4>4. ob \notin ObsOf(heart_beats, heart_beat_index + 2, num_hb_to_do)
        BY <1>1, <1>3, <2>6, <2>11, <3>2 DEF ObsOf
      <4>5. heart_beat_index' + 2 = heart_beat_index + 1
        BY <1>1, <4>1
      <4> QED
        BY <1>1, <1>3, <2>4, <2>11, <3>2, <4>1, <4>3, <4>4, <4>5
    <3>3. CASE num_hb_to_do # 0 /\ p - 1 > heart_beat_index /\ p - 1 < num_hb_to_do
      <4>1. heart_beat_index' = heart_beat_index /\ num_hb_to_do' = num_hb_to_do - 1
        BY <1>1, <2>4, <2>9, <3>3
      <4>2. \A j \in (heart_beat_index + 2)..(num_hb_to_do - 1) :
              heart_beats'[j] = IF j < p THEN heart_beats[j] ELSE heart_beats[j + 1]
        <5> \A j \in (heart_beat_index + 2)..(num_hb_to_do - 1) : j \in 1..(n - 1)
          BY <1>1, <1>3
        <5> QED
          BY <2>5
      <4>3. ObsOf(heart_beats', heart_beat_index + 2, num_hb_to_do - 1)
              = ObsOf(heart_beats, heart_beat_index + 2, num_hb_to_do) \ {ob}
        <5>1. \A i \in (heart_beat_index + 2)..num_hb_to_do :
                /\ i < p => i \in (heart_beat_index + 2)..(num_hb_to_do - 1)
                /\ i > p => /\ i - 1 \in (heart_beat_index + 2)..(num_hb_to_do - 1)
                            /\ ~(i - 1 < p) /\ (i - 1) + 1 = i
                /\ i \in 1..n /\ (i < p \/ i = p \/ i > p)
          BY <1>1, <1>3, <2>11, <3>3
        <5>2. \A j \in (heart_beat_index + 2)..(num_hb_to_do - 1) :
                /\ j \in (heart_beat_index + 2)..num_hb_to_do
                /\ j + 1 \in (heart_beat_index + 2)..num_hb_to_do
                /\ j < p \/ j + 1 # p
                /\ j \in 1..n /\ j + 1 \in 1..n
          BY <1>1, <1>3, <2>11, <3>3
        <5>3. ASSUME NEW o \in ObsOf(heart_beats, heart_beat_index + 2, num_hb_to_do) \ {ob}
              PROVE  o \in ObsOf(heart_beats', heart_beat_index + 2, num_hb_to_do - 1)
          <6>1. PICK i \in (heart_beat_index + 2)..num_hb_to_do : o = heart_beats[i].ob
            BY DEF ObsOf
          <6>2. i # p
            BY <2>1, <6>1
          <6>3. CASE i < p
            BY <4>2, <5>1, <6>1, <6>3 DEF ObsOf
          <6>4. CASE i > p
            BY <4>2, <5>1, <6>1, <6>4 DEF ObsOf
          <6> QED
            BY <5>1, <6>2, <6>3, <6>4
        <5>4. ASSUME NEW o \in ObsOf(heart_beats', heart_beat_index + 2, num_hb_to_do - 1)
              PROVE  o \in ObsOf(heart_beats, heart_beat_index + 2, num_hb_to_do) \ {ob}
          <6>1. PICK j \in (heart_beat_index + 2)..(num_hb_to_do - 1) : o = heart_beats'[j].ob
            BY DEF ObsOf
          <6>2. CASE j < p
            <7>1. j \in 1..n /\ j # p /\ o = heart_beats[j].ob
              BY <1>1, <4>2, <5>2, <6>1, <6>2
            <7>2. o # ob /\ j \in (heart_beat_index + 2)..num_hb_to_do
              BY <2>6, <5>2, <7>1
            <7> QED
              BY <7>1, <7>2 DEF ObsOf
          <6>3. CASE ~(j < p)
            BY <2>6, <4>2, <5>2, <6>1, <6>3 DEF ObsOf
          <6> QED
            BY <6>2, <6>3
        <5> QED
          BY <5>3, <5>4
      <4> QED
        BY <1>1, <1>3, <2>4, <2>11, <3>3, <4>1, <4>3
    <3>4. CASE num_hb_to_do # 0 /\ p - 1 > heart_beat_index /\ p - 1 >= num_hb_to_do
      <4>1. heart_beat_index' = heart_beat_index /\ num_hb_to_do' = num_hb_to_do
        BY <1>1, <2>4, <2>9, <3>4
      <4>2. \A j \in (heart_beat_index + 2)..num_hb_to_do : heart_beats'[j] = heart_beats[j]
        <5> \A j \in (heart_beat_index + 2)..num_hb_to_do : j \in 1..(n - 1) /\ j < p
          BY <1>1, <1>3, <3>4
        <5> QED
          BY <2>5
      <4>3. ObsOf(heart_beats', heart_beat_index + 2, num_hb_to_do)
              = ObsOf(heart_beats, heart_beat_index + 2, num_hb_to_do)
        BY <4>2 DEF ObsOf
      <4>4. ob \notin ObsOf(heart_beats, heart_beat_index + 2, num_hb_to_do)
        BY <1>1, <1>3, <2>6, <2>11, <3>4 DEF ObsOf
      <4> QED
        BY <1>1, <1>3, <2>4, <2>11, <3>4, <4>1, <4>3, <4>4
    <3> QED
      BY <1>1, <3>1, <3>2, <3>3, <3>4
  <2>12. O_HEART_BEAT' \cap (destructed \cup {ob}) = {} /\ O_HEART_BEAT' \subseteq Objects
    BY <1>1, <1>2, <2>4
  <2>13. waiting' \subseteq waiting /\ O_HEART_BEAT' = ObsOf(heart_beats', 1, n - 1)
    BY <1>2, <2>4, <2>7
  <2> QED
    BY <2>5, <2>8, <2>10, <2>11, <2>12, <2>13
<1> QED
  BY <1>4, <1>5

(* The same for an object that gets a heart beat or another period.        *)
LEMMA TurnedOn ==
  ASSUME RoundSound, LpcRuns, NEW ob \in Objects, NEW to \in Int, ob \notin destructed,
         TurnOn(ob, to)
  PROVE  /\ heart_beats' \in Seq(Item)
         /\ O_HEART_BEAT' = ObsOf(heart_beats', 1, Len(heart_beats'))
         /\ O_HEART_BEAT' \subseteq Objects
         /\ O_HEART_BEAT' \cap destructed = {}
         /\ \A i, j \in 1..Len(heart_beats') : heart_beats'[i].ob = heart_beats'[j].ob => i = j
         /\ Len(heart_beats') >= Len(heart_beats)
         /\ \A i \in 1..Len(heart_beats) : heart_beats'[i].ob = heart_beats[i].ob
<1> DEFINE n == Len(heart_beats)
<1>1. /\ heart_beats \in Seq(Item) /\ n \in Nat
      /\ \A i \in 1..n : heart_beats[i] \in Item
  <2>1. heart_beats \in Seq(Item)
    BY DEF RoundSound, TypeOK, Item
  <2> QED
    BY <2>1, LenProperties, ElementOfSeq
<1>2. /\ O_HEART_BEAT = ObsOf(heart_beats, 1, n) /\ O_HEART_BEAT \subseteq Objects
      /\ O_HEART_BEAT \cap destructed = {}
      /\ \A i, j \in 1..n : heart_beats[i].ob = heart_beats[j].ob => i = j
  BY DEF RoundSound, TypeOK, ListMatchesFlags, ObsOf, num_hb_objs
<1>3. CASE ob \in O_HEART_BEAT
  <2>1. O_HEART_BEAT' = O_HEART_BEAT
    BY <1>3 DEF TurnOn
  <2>2. /\ heart_beats' \in Seq(Item) /\ Len(heart_beats') = n
        /\ \A i \in 1..n : heart_beats'[i].ob = heart_beats[i].ob
    <3>1. CASE to < 0
      BY <1>1, <1>3, <3>1 DEF TurnOn
    <3>2. CASE ~(to < 0)
      <4> DEFINE g == [i \in 1..n |->
                         IF heart_beats[i].ob = ob
                         THEN [heart_beats[i] EXCEPT !.time = ToShort(to), !.ticks = ToShort(to)]
                         ELSE heart_beats[i]]
      <4>1. heart_beats' = g
        BY <1>3, <3>2 DEF TurnOn, num_hb_objs
      <4>2. ToShort(to) \in Short
        BY ShortFits
      <4>3. \A i \in 1..n : g[i] \in Item /\ g[i].ob = heart_beats[i].ob
        BY <1>1, <4>2 DEF Item
      <4>4. g \in [1..n -> Item]
        BY <4>3
      <4> HIDE DEF g
      <4>5. g \in Seq(Item) /\ Len(g) = n
        BY <1>1, <4>4, SeqDef, LenProperties
      <4> QED
        BY <4>1, <4>3, <4>5
    <3> QED
      BY <3>1, <3>2
  <2>3. ObsOf(heart_beats', 1, n) = ObsOf(heart_beats, 1, n)
    BY <2>2 DEF ObsOf
  <2> QED
    BY <1>1, <1>2, <2>1, <2>2, <2>3
<1>4. CASE ob \notin O_HEART_BEAT
  <2> DEFINE t == ToShort(IF to < 0 THEN 1 ELSE to)
             e == [ob |-> ob, ticks |-> t, time |-> t]
  <2>1. t \in Short
    BY ShortFits
  <2>2. e \in Item /\ e.ob = ob
    BY <2>1 DEF Item
  <2>3. heart_beats' = Append(heart_beats, e) /\ O_HEART_BEAT' = O_HEART_BEAT \cup {ob}
    BY <1>4 DEF TurnOn
  <2> HIDE DEF e
  <2>4. /\ heart_beats' \in Seq(Item) /\ Len(heart_beats') = n + 1
        /\ \A i \in 1..n : heart_beats'[i] = heart_beats[i]
        /\ heart_beats'[n + 1] = e
    BY <1>1, <2>2, <2>3, AppendProperties
  <2>5. \A i \in 1..n : heart_beats[i].ob # ob
    BY <1>2, <1>4 DEF ObsOf
  <2>6. 1..(n + 1) = (1..n) \cup {n + 1}
    BY <1>1
  <2>7. ObsOf(heart_beats', 1, n + 1) = ObsOf(heart_beats, 1, n) \cup {ob}
    <3>1. \A i \in 1..(n + 1) : heart_beats'[i].ob \in ObsOf(heart_beats, 1, n) \cup {ob}
      BY <2>2, <2>4, <2>6 DEF ObsOf
    <3>2. ObsOf(heart_beats', 1, n + 1) \subseteq ObsOf(heart_beats, 1, n) \cup {ob}
      BY <3>1 DEF ObsOf
    <3>3. ASSUME NEW o \in ObsOf(heart_beats, 1, n) \cup {ob} PROVE o \in ObsOf(heart_beats', 1, n + 1)
      <4>1. CASE o = ob
        BY <2>2, <2>4, <2>6, <4>1 DEF ObsOf
      <4>2. CASE o # ob
        <5>1. PICK i \in 1..n : o = heart_beats[i].ob
          BY <4>2 DEF ObsOf
        <5>2. i \in 1..(n + 1) /\ o = heart_beats'[i].ob
          BY <2>4, <2>6, <5>1
        <5> QED
          BY <5>2 DEF ObsOf
      <4> QED
        BY <4>1, <4>2
    <3> QED
      BY <3>2, <3>3
  <2>8. \A i, j \in 1..(n + 1) : heart_beats'[i].ob = heart_beats'[j].ob => i = j
    BY <1>2, <2>2, <2>4, <2>5, <2>6
  <2> QED
    BY <1>1, <1>2, <2>3, <2>4, <2>7, <2>8
<1> QED
  BY <1>3, <1>4
-----------------------------------------------------------------------------
(* Whoever turns a heart beat off, set_heart_beat(), destruct_object() or  *)
(* error_handler(), keeps the round on course.                             *)
LEMMA TurnOffSound ==
  ASSUME RoundSound, LpcRuns, NEW ob \in Objects, TurnOff(ob),
         current_heart_beat' \in Objects \cup {Nobody},
         destructed' \in {destructed, destructed \cup {ob}},
         pc' \in {pc, "lpc"},
         UNCHANGED <<heart_beat_flag, armed, reached>>
  PROVE  RoundSound'
<1>1. /\ heart_beat_flag \in BOOLEAN /\ armed \in BOOLEAN /\ destructed \subseteq Objects
      /\ pc \in {"lpc", "beat"} /\ waiting \subseteq Objects /\ reached \subseteq Objects
  BY DEF RoundSound, TypeOK, LpcRuns
<1>2. pc = "beat" => waiting \cap reached = {}
  BY DEF RoundSound, RoundOnCourse, InRound
<1>3. TypeOK'
  BY <1>1, TurnedOff DEF TypeOK, Item
<1>4. ListMatchesFlags'
  BY <1>1, TurnedOff DEF ListMatchesFlags, ObsOf, num_hb_objs
<1>5. RoundOnCourse'
  <2> SUFFICES ASSUME pc' # "lpc" PROVE RoundOnCourse'
    BY TurnedOff DEF RoundOnCourse, InRound, num_hb_objs
  <2>1. pc = "beat" /\ pc' = "beat"
    BY <1>1
  <2>2. /\ num_hb_to_do' <= Len(heart_beats') /\ heart_beat_index' < num_hb_to_do'
        /\ waiting' = ObsOf(heart_beats', heart_beat_index' + 2, num_hb_to_do')
        /\ heart_beat_index' \in -1..num_hb_to_do' /\ num_hb_to_do' \in Nat
        /\ waiting' \subseteq waiting
    BY <2>1, TurnedOff, FS_CardinalityType, HeartBeatAssumption
  <2>3. heart_beat_index' + 2 >= 1 /\ NextEntry' = heart_beat_index' + 2
    <3>1. heart_beat_index' + 2 >= 1
      <4>1. \A i, j \in Int : i \in -1..j => i + 2 >= 1
        OBVIOUS
      <4>2. num_hb_to_do' \in Int /\ heart_beat_index' \in Int
        BY <2>2
      <4> QED
        BY <2>2, <4>1, <4>2
    <3>2. NextEntry' = heart_beat_index' + 2
      BY <2>1 DEF NextEntry
    <3> QED
      BY <3>1, <3>2
  <2> QED
    BY <1>2, <2>1, <2>2, <2>3 DEF RoundOnCourse, ObsOf, num_hb_objs
<1> QED
  BY <1>3, <1>4, <1>5 DEF RoundSound

(* What the invariant says of the list, in the words of the lemmas above.  *)
LEMMA ListFacts ==
  ASSUME RoundSound
  PROVE  /\ heart_beats \in Seq(Item) /\ Len(heart_beats) \in Nat
         /\ \A i \in 1..Len(heart_beats) : heart_beats[i] \in Item
         /\ heart_beat_index \in Int /\ num_hb_to_do \in Nat /\ heart_beat_index >= -1
         /\ Cardinality(Objects) \in Nat /\ Len(heart_beats) <= Cardinality(Objects)
         /\ num_hb_to_do <= Cardinality(Objects) /\ num_hb_to_do <= Len(heart_beats)
<1>1. Cardinality(Objects) \in Nat
  BY HeartBeatAssumption, FS_CardinalityType
<1>2. heart_beats \in Seq(Item)
  BY DEF RoundSound, TypeOK, Item
<1>3. Len(heart_beats) \in Nat /\ \A i \in 1..Len(heart_beats) : heart_beats[i] \in Item
  BY <1>2, LenProperties, ElementOfSeq
<1>4. Len(heart_beats) <= Cardinality(Objects)
  BY ListFits DEF RoundSound, num_hb_objs
<1> QED
  BY <1>1, <1>2, <1>3, <1>4 DEF RoundSound, TypeOK, RoundOnCourse, num_hb_objs

(* Going on behind an entry that the round has reached.                    *)
LEMMA StepOnSound ==
  ASSUME RoundSound, InRound, StepOn,
         heart_beats' \in Seq(Item), Len(heart_beats') = Len(heart_beats),
         \A i \in 1..Len(heart_beats) : heart_beats'[i].ob = heart_beats[i].ob,
         waiting' = ObsOf(heart_beats, heart_beat_index + 2, num_hb_to_do),
         heart_beat_index >= 0 \/ pc = "beat",
         waiting' \cap reached' = {}, waiting' \subseteq Objects, reached' \subseteq Objects,
         UNCHANGED <<heart_beat_flag, armed, O_HEART_BEAT, destructed>>
  PROVE  RoundSound' /\ (pc' = "lpc" => waiting' = {})
<1> DEFINE n == Len(heart_beats)
<1>1. /\ n \in Nat /\ heart_beat_index \in Int /\ num_hb_to_do \in Nat
      /\ Cardinality(Objects) \in Nat /\ heart_beat_index >= -1 /\ num_hb_to_do <= Cardinality(Objects)
  BY ListFacts
<1>2. num_hb_to_do <= n /\ heart_beat_index < num_hb_to_do
  BY DEF RoundSound, RoundOnCourse, num_hb_objs
<1>3. ListMatchesFlags'
  <2>1. \A i, j \in 1..n : heart_beats'[i].ob = heart_beats'[j].ob => i = j
    BY DEF RoundSound, ListMatchesFlags, num_hb_objs
  <2>2. {heart_beats'[i].ob : i \in 1..n} = {heart_beats[i].ob : i \in 1..n}
    OBVIOUS
  <2>3. O_HEART_BEAT = {heart_beats[i].ob : i \in 1..n} /\ O_HEART_BEAT \cap destructed = {}
    BY DEF RoundSound, ListMatchesFlags, num_hb_objs
  <2> QED
    BY <2>1, <2>2, <2>3 DEF ListMatchesFlags, num_hb_objs
<1>4. CASE heart_beat_index + 1 = num_hb_to_do
  <2>1. heart_beat_index' = 0 /\ num_hb_to_do' = 0 /\ current_heart_beat' = Nobody /\ pc' = "lpc"
    BY <1>4 DEF StepOn, EndRound
  <2>2. TypeOK'
    BY <1>1, <2>1 DEF RoundSound, TypeOK, Item
  <2>3. (heart_beat_index + 2)..num_hb_to_do = {}
    BY <1>1, <1>4
  <2>4. waiting' = {}
    BY <2>3 DEF ObsOf
  <2> QED
    BY <1>1, <1>3, <2>1, <2>2, <2>4 DEF RoundSound, RoundOnCourse, InRound, num_hb_objs
<1>5. CASE heart_beat_index + 1 # num_hb_to_do
  <2>1. /\ heart_beat_index' = heart_beat_index + 1 /\ pc' = "round"
        /\ num_hb_to_do' = num_hb_to_do /\ current_heart_beat' = current_heart_beat
    BY <1>5 DEF StepOn
  <2>2. heart_beat_index' \in 0..num_hb_to_do' /\ heart_beat_index' < num_hb_to_do'
    BY <1>1, <1>2, <1>5, <2>1
  <2>3. TypeOK'
    BY <1>1, <2>1, <2>2 DEF RoundSound, TypeOK, Item
  <2>4. NextEntry' = heart_beat_index + 2 /\ NextEntry' >= 1
    BY <1>1, <2>1 DEF NextEntry
  <2>5. \A i \in (heart_beat_index + 2)..num_hb_to_do : i \in 1..n
    BY <1>1, <1>2
  <2>6. waiting' = {heart_beats'[i].ob : i \in (heart_beat_index + 2)..num_hb_to_do}
    BY <2>5 DEF ObsOf
  <2>7. RoundOnCourse'
    BY <1>1, <1>2, <2>1, <2>2, <2>4, <2>6 DEF RoundOnCourse, num_hb_objs
  <2> QED
    BY <1>3, <2>1, <2>3, <2>7 DEF RoundSound
<1> QED
  BY <1>4, <1>5

(* The entry the round is at, and what reaching it leaves to be done.      *)
LEMMA EntryReached ==
  ASSUME RoundSound, pc = "round"
  PROVE  /\ heart_beat_index + 1 \in 1..Len(heart_beats)
         /\ heart_beat_index >= 0
         /\ heart_beats[heart_beat_index + 1].ob \in waiting
         /\ waiting \ {heart_beats[heart_beat_index + 1].ob}
              = ObsOf(heart_beats, heart_beat_index + 2, num_hb_to_do)
<1> DEFINE n == Len(heart_beats)
           k == heart_beat_index + 1
<1>1. n \in Nat /\ heart_beat_index \in Int /\ num_hb_to_do \in Nat
  BY ListFacts
<1>2. /\ num_hb_to_do <= n /\ k >= 1 /\ heart_beat_index < num_hb_to_do
      /\ waiting = {heart_beats[i].ob : i \in k..num_hb_to_do}
  BY DEF RoundSound, RoundOnCourse, InRound, NextEntry, num_hb_objs
<1>3. k \in k..num_hb_to_do /\ k \in 1..n /\ heart_beat_index >= 0
  BY <1>1, <1>2
<1>4. \A i, j \in 1..n : heart_beats[i].ob = heart_beats[j].ob => i = j
  BY DEF RoundSound, ListMatchesFlags, num_hb_objs
<1>5. /\ \A i \in (heart_beat_index + 2)..num_hb_to_do : i \in k..num_hb_to_do /\ i # k /\ i \in 1..n
      /\ \A i \in k..num_hb_to_do : i # k => i \in (heart_beat_index + 2)..num_hb_to_do
  BY <1>1, <1>2
<1> HIDE DEF k
<1>6. waiting \ {heart_beats[k].ob} = ObsOf(heart_beats, heart_beat_index + 2, num_hb_to_do)
  BY <1>2, <1>3, <1>4, <1>5 DEF ObsOf
<1>7. heart_beats[k].ob \in waiting
  BY <1>2, <1>3
<1> QED
  BY <1>3, <1>6, <1>7 DEF k
-----------------------------------------------------------------------------
(* Reaching an entry, whether its object beats or not.                     *)
LEMMA ReachEntrySound ==
  ASSUME RoundSound, ReachEntry
  PROVE  RoundSound' /\ (pc' = "lpc" => waiting' = {})
<1> DEFINE n == Len(heart_beats)
           k == heart_beat_index + 1
           ob == heart_beats[k].ob
           ticks == ToShort(heart_beats[k].ticks - 1)
           beats == ob \in Beating /\ ticks < 1
           left == IF beats THEN heart_beats[k].time ELSE ticks
<1>1. /\ heart_beats \in Seq(Item) /\ n \in Nat /\ \A i \in 1..n : heart_beats[i] \in Item
      /\ heart_beat_index \in Int /\ num_hb_to_do \in Nat
  BY ListFacts
<1>2. pc = "round"
  BY DEF ReachEntry
<1>3. /\ k \in 1..n /\ heart_beat_index >= 0 /\ ob \in waiting
      /\ waiting \ {ob} = ObsOf(heart_beats, heart_beat_index + 2, num_hb_to_do)
  BY <1>2, EntryReached
<1>4. heart_beats[k] \in Item
  BY <1>1, <1>3
<1>5. ticks \in Short
  <2>1. heart_beats[k].ticks - 1 \in Int
    BY <1>4, HeartBeatAssumption DEF Item, Short
  <2> QED
    BY <2>1, ShortFits
<1>6. left \in Short
  BY <1>4, <1>5 DEF Item
<1>7. /\ heart_beats' = [heart_beats EXCEPT ![k] = [heart_beats[k] EXCEPT !.ticks = left]]
      /\ waiting' = waiting \ {ob} /\ reached' = reached \cup {ob}
      /\ UNCHANGED <<heart_beat_flag, armed, O_HEART_BEAT, destructed>>
  BY <1>1, <1>3 DEF ReachEntry
<1>8. IF beats
        THEN /\ current_heart_beat' = ob /\ pc' = "beat"
             /\ UNCHANGED <<heart_beat_index, num_hb_to_do>>
        ELSE StepOn
  BY DEF ReachEntry
<1> DEFINE e == [heart_beats[k] EXCEPT !.ticks = left]
<1>9. e \in Item /\ e.ob = ob
  BY <1>4, <1>6 DEF Item
<1>10. ob \in Objects
  BY <1>4 DEF Item
<1> HIDE DEF left, ticks, beats
<1>11. /\ heart_beats' \in Seq(Item) /\ Len(heart_beats') = n
       /\ \A i \in 1..n : heart_beats'[i] = IF i = k THEN e ELSE heart_beats[i]
  <2> HIDE DEF e, k
  <2>1. heart_beats' = [heart_beats EXCEPT ![k] = e]
    BY <1>7 DEF e
  <2> QED
    BY <2>1, <1>1, <1>3, <1>9, ExceptSeq
<1>12. \A i \in 1..n : heart_beats'[i].ob = heart_beats[i].ob
  <2> HIDE DEF e
  <2> QED
    BY <1>9, <1>11
<1> HIDE DEF e
<1>13. waiting \subseteq Objects /\ reached \subseteq Objects /\ waiting \cap reached = {}
  BY <1>2 DEF RoundSound, TypeOK, RoundOnCourse, InRound
<1>14. waiting' \cap reached' = {} /\ waiting' \subseteq Objects /\ reached' \subseteq Objects
  BY <1>7, <1>10, <1>13
<1> HIDE DEF ob
<1>15. CASE ~beats
  <2>1. StepOn
    BY <1>8, <1>15
  <2> QED
    BY <1>2, <1>3, <1>7, <1>11, <1>12, <1>14, <2>1, StepOnSound DEF InRound
<1>16. CASE beats
  <2>1. /\ current_heart_beat' = ob /\ pc' = "beat"
        /\ UNCHANGED <<heart_beat_index, num_hb_to_do>>
    BY <1>8, <1>16
  <2>2. TypeOK'
    BY <1>7, <1>10, <1>11, <1>14, <2>1 DEF RoundSound, TypeOK, Item
  <2>3. ListMatchesFlags'
    <3>1. {heart_beats'[i].ob : i \in 1..n} = {heart_beats[i].ob : i \in 1..n}
      BY <1>12
    <3>2. \A i, j \in 1..n : heart_beats'[i].ob = heart_beats'[j].ob => i = j
      BY <1>12 DEF RoundSound, ListMatchesFlags, num_hb_objs
    <3> QED
      BY <1>7, <1>11, <3>1, <3>2 DEF RoundSound, ListMatchesFlags, num_hb_objs
  <2>4. num_hb_to_do <= n /\ heart_beat_index < num_hb_to_do
    BY <1>2 DEF RoundSound, RoundOnCourse, InRound, num_hb_objs
  <2>5. \A i \in (heart_beat_index + 2)..num_hb_to_do : i \in 1..n
    BY <1>1, <1>3, <2>4
  <2>6. waiting' = {heart_beats'[i].ob : i \in (heart_beat_index + 2)..num_hb_to_do}
    BY <1>3, <1>7, <1>12, <2>5 DEF ObsOf
  <2>7. NextEntry' = heart_beat_index + 2 /\ NextEntry' >= 1
    BY <1>1, <1>3, <2>1 DEF NextEntry
  <2>8. RoundOnCourse'
    BY <1>11, <1>14, <2>1, <2>4, <2>6, <2>7 DEF RoundOnCourse, num_hb_objs
  <2> QED
    BY <2>1, <2>2, <2>3, <2>8 DEF RoundSound
<1> QED
  BY <1>15, <1>16

(* Coming back from a heart_beat(), which may have moved the entries.      *)
LEMMA BeatReturnsSound ==
  ASSUME RoundSound, BeatReturns
  PROVE  RoundSound' /\ (pc' = "lpc" => waiting' = {})
<1>1. /\ pc = "beat" /\ StepOn
      /\ UNCHANGED <<heart_beats, heart_beat_flag, armed, O_HEART_BEAT, destructed, waiting, reached>>
  BY DEF BeatReturns
<1>2. /\ waiting = ObsOf(heart_beats, heart_beat_index + 2, num_hb_to_do)
      /\ waiting \cap reached = {} /\ waiting \subseteq Objects /\ reached \subseteq Objects
  BY <1>1 DEF RoundSound, RoundOnCourse, TypeOK, InRound, NextEntry, ObsOf
<1>3. heart_beats \in Seq(Item)
  BY ListFacts
<1> QED
  BY <1>1, <1>2, <1>3, StepOnSound DEF InRound

(* RoundSound holds when backend() starts.                                 *)
LEMMA RoundSoundInit == Init => RoundSound
<1> SUFFICES ASSUME Init PROVE RoundSound
  OBVIOUS
<1>1. heart_beats = <<>> /\ Len(heart_beats) = 0 /\ heart_beats \in Seq(Item)
  BY EmptySeq DEF Init
<1>2. Cardinality(Objects) \in Nat
  BY HeartBeatAssumption, FS_CardinalityType
<1>3. TypeOK
  <2>1. 0 \in -1..0 /\ 0 \in 0..Cardinality(Objects)
    BY <1>2
  <2> QED
    BY <1>1, <2>1 DEF Init, TypeOK, Item
<1>4. ListMatchesFlags
  <2> 1..Len(heart_beats) = {}
    BY <1>1
  <2> QED
    BY DEF Init, ListMatchesFlags, num_hb_objs
<1> QED
  BY <1>1, <1>3, <1>4 DEF Init, RoundSound, RoundOnCourse, InRound, num_hb_objs

(* Every step of the round, of the LPC code in it and outside it, and of   *)
(* the alarm keeps it.                                                     *)
LEMMA RoundSoundStep == RoundSound /\ [Next]_vars => RoundSound'
<1> SUFFICES ASSUME RoundSound, [Next]_vars PROVE RoundSound'
  OBVIOUS
<1>1. ASSUME NEW ob \in Objects, destruct_object(ob) PROVE RoundSound'
  BY <1>1, TurnOffSound DEF destruct_object, RoundSound, TypeOK
<1>2. ASSUME NEW ob \in Objects, NEW to \in Tos, set_heart_beat(ob, to) PROVE RoundSound'
  <2>1. CASE to = 0
    BY <1>2, <2>1, TurnOffSound DEF set_heart_beat, RoundSound, TypeOK
  <2>2. CASE to # 0
    <3>1. /\ LpcRuns /\ ob \notin destructed /\ TurnOn(ob, to) /\ to \in Int
          /\ UNCHANGED <<current_heart_beat, heart_beat_flag, armed, destructed, pc, reached>>
          /\ UNCHANGED <<heart_beat_index, num_hb_to_do, waiting>>
      BY <1>2, <2>2, HeartBeatAssumption DEF set_heart_beat, TurnOn
    <3>2. /\ heart_beats' \in Seq(Item)
          /\ O_HEART_BEAT' = ObsOf(heart_beats', 1, Len(heart_beats'))
          /\ O_HEART_BEAT' \subseteq Objects /\ O_HEART_BEAT' \cap destructed = {}
          /\ \A i, j \in 1..Len(heart_beats') : heart_beats'[i].ob = heart_beats'[j].ob => i = j
          /\ Len(heart_beats') >= Len(heart_beats)
          /\ \A i \in 1..Len(heart_beats) : heart_beats'[i].ob = heart_beats[i].ob
      BY <3>1, TurnedOn
    <3>3. TypeOK'
      BY <3>1, <3>2 DEF RoundSound, TypeOK, Item
    <3>4. ListMatchesFlags'
      BY <3>1, <3>2 DEF ListMatchesFlags, ObsOf, num_hb_objs
    <3>5. RoundOnCourse'
      <4>1. /\ Len(heart_beats) \in Nat /\ Len(heart_beats') \in Nat
            /\ num_hb_to_do \in Nat /\ heart_beat_index \in Int
            /\ num_hb_to_do <= Len(heart_beats)
        BY <3>2, ListFacts, LenProperties
      <4> SUFFICES ASSUME InRound PROVE RoundOnCourse'
        BY <3>1, <3>2, <4>1 DEF RoundOnCourse, InRound, num_hb_objs
      <4>2. /\ NextEntry >= 1 /\ NextEntry \in Int
            /\ heart_beat_index < num_hb_to_do
            /\ waiting = {heart_beats[i].ob : i \in NextEntry..num_hb_to_do}
            /\ waiting \cap reached = {}
        BY <4>1 DEF RoundSound, RoundOnCourse, num_hb_objs, NextEntry
      <4>3. \A i \in NextEntry..num_hb_to_do : heart_beats'[i].ob = heart_beats[i].ob
        BY <3>2, <4>1, <4>2
      <4>4. NextEntry' = NextEntry
        BY <3>1 DEF NextEntry
      <4>5. num_hb_to_do <= Len(heart_beats')
        BY <3>2, <4>1, <4>2
      <4>6. waiting = {heart_beats'[i].ob : i \in NextEntry..num_hb_to_do}
        BY <4>2, <4>3
      <4> QED
        BY <3>1, <4>2, <4>4, <4>5, <4>6 DEF RoundOnCourse, num_hb_objs
    <3> QED
      BY <3>3, <3>4, <3>5 DEF RoundSound
  <2> QED
    BY <2>1, <2>2
<1>3. CASE sigalrm_handler
  <2>1. /\ UNCHANGED <<heart_beats, heart_beat_index, num_hb_to_do, current_heart_beat>>
        /\ UNCHANGED <<O_HEART_BEAT, destructed, pc, waiting, reached>>
        /\ heart_beat_flag' = TRUE /\ armed' = FALSE
    BY <1>3 DEF sigalrm_handler, array
  <2>2. TypeOK'
    BY <2>1 DEF RoundSound, TypeOK
  <2>3. ListMatchesFlags' /\ RoundOnCourse'
    BY <2>1 DEF RoundSound, ListMatchesFlags, RoundOnCourse, InRound, NextEntry, num_hb_objs
  <2> QED
    BY <2>2, <2>3 DEF RoundSound
<1>4. CASE call_heart_beat
  <2> DEFINE n == Len(heart_beats)
  <2>1. /\ n \in Nat /\ n <= Cardinality(Objects) /\ Cardinality(Objects) \in Nat
        /\ \A i \in 1..n : heart_beats[i].ob \in Objects
        /\ heart_beat_index \in Int /\ num_hb_to_do \in Nat
    BY ListFacts DEF Item
  <2>2. /\ num_hb_to_do' = n /\ heart_beat_flag' = FALSE /\ armed' = TRUE
        /\ waiting' = {heart_beats[i].ob : i \in 1..n} /\ reached' = {}
        /\ UNCHANGED <<heart_beats, current_heart_beat, O_HEART_BEAT, destructed>>
    BY <1>4 DEF call_heart_beat, num_hb_objs
  <2>3. ListMatchesFlags'
    BY <2>2 DEF RoundSound, ListMatchesFlags, num_hb_objs
  <2>4. waiting' \subseteq Objects
    BY <2>1, <2>2
  <2>5. CASE n = 0
    <3>1. pc' = "lpc" /\ heart_beat_index' = heart_beat_index
      BY <1>4, <2>5 DEF call_heart_beat, num_hb_objs
    <3>2. heart_beat_index \in -1..0
      BY <2>1, <2>5 DEF RoundSound, TypeOK, RoundOnCourse, num_hb_objs
    <3>3. TypeOK'
      <4>1. heart_beat_index' \in -1..num_hb_to_do' /\ num_hb_to_do' \in 0..Cardinality(Objects)
        BY <2>1, <2>2, <2>5, <3>1, <3>2
      <4> QED
        BY <2>2, <2>4, <3>1, <4>1 DEF RoundSound, TypeOK
    <3> QED
      BY <2>1, <2>2, <2>3, <3>1, <3>3 DEF RoundSound, RoundOnCourse, InRound, num_hb_objs
  <2>6. CASE n # 0
    <3>1. pc' = "round" /\ heart_beat_index' = 0
      BY <1>4, <2>6 DEF call_heart_beat, num_hb_objs
    <3>2. TypeOK'
      <4>1. heart_beat_index' \in -1..num_hb_to_do' /\ num_hb_to_do' \in 0..Cardinality(Objects)
        BY <2>1, <2>2, <3>1
      <4> QED
        BY <2>2, <2>4, <3>1, <4>1 DEF RoundSound, TypeOK
    <3>3. NextEntry' = 1
      BY <3>1 DEF NextEntry
    <3>4. RoundOnCourse'
      BY <2>1, <2>2, <2>6, <3>1, <3>3 DEF RoundOnCourse, num_hb_objs
    <3> QED
      BY <2>3, <3>2, <3>4 DEF RoundSound
  <2> QED
    BY <2>5, <2>6
<1>5. CASE ReachEntry
  BY <1>5, ReachEntrySound
<1>6. CASE CutRound
  <2>1. /\ heart_beat_index' = 0 /\ num_hb_to_do' = 0 /\ current_heart_beat' = Nobody /\ pc' = "lpc"
        /\ UNCHANGED <<heart_beats, heart_beat_flag, armed, O_HEART_BEAT, destructed, waiting, reached>>
    BY <1>6 DEF CutRound, EndRound
  <2>2. Len(heart_beats) \in Nat /\ Cardinality(Objects) \in Nat
    BY ListFacts
  <2>3. TypeOK'
    BY <2>1, <2>2 DEF RoundSound, TypeOK
  <2>4. ListMatchesFlags'
    BY <2>1 DEF RoundSound, ListMatchesFlags, num_hb_objs
  <2> QED
    BY <2>1, <2>2, <2>3, <2>4 DEF RoundSound, RoundOnCourse, InRound, num_hb_objs
<1>7. CASE BeatReturns
  BY <1>7, BeatReturnsSound
<1>8. CASE BeatFails
  <2>1. /\ pc = "beat" /\ LpcRuns /\ current_heart_beat' = Nobody /\ pc' \in {"lpc", "beat"}
        /\ UNCHANGED <<heart_beat_flag, armed, destructed, reached>>
    BY <1>8 DEF BeatFails, LpcRuns
  <2>2. CASE current_heart_beat = Nobody
    <3>1. UNCHANGED <<heart_beats, heart_beat_index, num_hb_to_do, O_HEART_BEAT, waiting>>
      BY <1>8, <2>2 DEF BeatFails, array
    <3>2. TypeOK'
      BY <2>1, <3>1 DEF RoundSound, TypeOK
    <3>3. ListMatchesFlags'
      BY <2>1, <3>1 DEF RoundSound, ListMatchesFlags, num_hb_objs
    <3>4. RoundOnCourse'
      BY <2>1, <3>1 DEF RoundSound, RoundOnCourse, InRound, NextEntry, num_hb_objs
    <3> QED
      BY <3>2, <3>3, <3>4 DEF RoundSound
  <2>3. CASE current_heart_beat # Nobody
    <3>1. current_heart_beat \in Objects /\ TurnOff(current_heart_beat)
      BY <1>8, <2>3 DEF BeatFails, RoundSound, TypeOK
    <3> QED
      BY <2>1, <3>1, TurnOffSound
  <2> QED
    BY <2>2, <2>3
<1>9. CASE UNCHANGED vars
  BY <1>9 DEF vars, RoundSound, TypeOK, ListMatchesFlags, RoundOnCourse, InRound, NextEntry, num_hb_objs
<1> QED
  BY <1>1, <1>2, <1>3, <1>4, <1>5, <1>6, <1>7, <1>8, <1>9 DEF Next

(* Throughout a run of the driver the list of heart beats, the objects'    *)
(* flags and the position of the round agree, whatever heart beats do to   *)
(* each other and wherever an error leaves a round.                        *)
THEOREM RoundsSound == Spec => []RoundSound
<1>1. Init => RoundSound
  BY RoundSoundInit
<1>2. RoundSound /\ [Next]_vars => RoundSound'
  BY RoundSoundStep
<1> QED
  BY <1>1, <1>2, PTL DEF Spec

(* No round reaches an object twice and one that is left at its end has    *)
(* missed nobody: call_heart_beat() steps over no entry though entries     *)
(* leave the array under it.                                               *)
THEOREM RoundsComplete == Spec => NoneTwiceNoneMissed
<1> DEFINE Fair == /\ ReachEntry => heart_beats[heart_beat_index + 1].ob \notin reached
                   /\ (ReachEntry \/ BeatReturns) /\ pc' = "lpc" => waiting' = {}
<1>1. ASSUME RoundSound PROVE Fair
  <2>1. ASSUME ReachEntry PROVE heart_beats[heart_beat_index + 1].ob \notin reached
    <3>1. pc = "round"
      BY <2>1 DEF ReachEntry
    <3>2. heart_beats[heart_beat_index + 1].ob \in waiting
      BY <1>1, <3>1, EntryReached
    <3>3. waiting \cap reached = {}
      BY <1>1, <3>1 DEF RoundSound, RoundOnCourse, InRound
    <3> QED
      BY <3>2, <3>3
  <2> QED
    BY <1>1, <2>1, ReachEntrySound, BeatReturnsSound
<1>2. RoundSound /\ [Next]_vars => [Fair]_vars
  BY <1>1
<1>3. [][Fair]_vars => NoneTwiceNoneMissed
  BY PTL DEF NoneTwiceNoneMissed
<1> QED
  BY <1>2, <1>3, RoundsSound, PTL DEF Spec
-----------------------------------------------------------------------------
(* Calls of LPC code.                                                      *)

(* The types.                                                              *)
Ids == Obs \cup {0, Master}
Callers == {"DRIVER", "CALL_OTHER", "SIMUL_EFUN", "FUNCTION_POINTER", "FUNCTIONAL", "LOCAL"}
Regs == [ob : Ids, prev : Ids, caller : Callers, fp : Int]
Frame == [kind : Kinds, external : BOOLEAN, regs : Regs \cup {<<>>}, nlocals : Int]
Mark == [regs : Regs, csp : 0 .. MaxCallDepth, sp : Int, cg : Ids]
Context == [sp : Int, csp : 0 .. MaxCallDepth, cg : Ids]
ActKinds == {"backend", "apply", "command", "safe_apply", "local", "funp",
             "safe_funp", "catch", "handler"}
Econs == {<<>>} \cup {<<e>> : e \in Context}
Activation == [k : ActKinds, n : Nat, before : Mark, econ : Econs]
Outcome == [k : ActKinds, n : Nat, failed : BOOLEAN, left : Nat, before : Mark]
Outcomes == {<<>>} \cup {<<b>> : b \in Outcome}
Stack == [1 .. MaxCallDepth -> Frame]
CStack == Seq(Activation)
Phase == {"lpc", "raise", "jump", "crash"}
Machine == [stack : Stack, csp : 0 .. MaxCallDepth, sp : Int, regs : Regs, cg : Ids,
            acts : CStack, now : Phase, too_deep : BOOLEAN, max_eval : BOOLEAN,
            handling : Int, back : Outcomes]

(* What the C function i of the C stack was left with by the one above it, *)
(* or what there is now.                                                   *)
Followed(s, i) == IF i = Len(s.acts) THEN Before(s) ELSE s.acts[i + 1].before

(* The backend is at the bottom of the C stack and nowhere else.           *)
Bottom(s) ==
    /\ Len(s.acts) > 0
    /\ \A i \in 1 .. Len(s.acts) : s.acts[i].k = "backend" <=> i = 1
    /\ s.acts[1].before = [regs |-> NoRegs, csp |-> 0, sp |-> 0, cg |-> 0]

(* An error context holds what its holder should find again; the arguments *)
(* of the safe_ functions had been pushed when it was saved.               *)
WithContext == {"backend", "catch", "safe_apply", "safe_funp"}
ContextOf(a) ==
    <<[sp |-> IF a.k \in {"safe_apply", "safe_funp"} THEN a.before.sp + a.n
              ELSE a.before.sp,
       csp |-> a.before.csp, cg |-> a.before.cg]>>
HasContext(a) == a.econ = IF a.k \in WithContext THEN ContextOf(a) ELSE <<>>
Contexts(s) == \A i \in 1 .. Len(s.acts) : HasContext(s.acts[i])

(* The registers of every C function that waits are in the frame above its *)
(* own one, or are the present ones while there is no such frame.          *)
Kept(s, b) ==
    /\ b.csp <= s.csp
    /\ b.csp < s.csp => s.stack[b.csp + 1].regs = b.regs
    /\ b.csp = s.csp => s.regs = b.regs
Saved(s) == \A i \in 1 .. Len(s.acts) : Kept(s, s.acts[i].before)

(* Frames in use hold registers.                                           *)
Live(s) == \A i \in 1 .. s.csp : s.stack[i].regs \in Regs

(* The frames of a C function are above those of the ones below it, and as *)
(* many as it may have.                                                    *)
Nested(s) ==
    \A i, j \in 1 .. Len(s.acts) : i <= j => s.acts[i].before.csp <= s.acts[j].before.csp
FramesCounted(s) ==
    \A i \in 1 .. Len(s.acts) :
        Followed(s, i).csp - s.acts[i].before.csp \in FrameCount(s.acts[i])

(* Only parse_command() changes the command giver.                         *)
Giver(s) ==
    \A i \in 1 .. Len(s.acts) :
        s.acts[i].k # "command" => Followed(s, i).cg = s.acts[i].before.cg

(* The code that C function a waits for runs, with e as registers, frames  *)
(* and values: a has all its frames, and fp points at the arguments.       *)
InCode(a, e) ==
    CASE a.k = "backend" -> e.csp = 0 /\ e.regs = NoRegs
      [] a.k = "catch" -> e.csp = a.before.csp + 1
      [] a.k \in {"funp", "safe_funp"} ->
            e.csp = a.before.csp + 2 /\ e.regs.fp = a.before.sp + 1
      [] OTHER -> e.csp = a.before.csp + 1 /\ e.regs.fp = a.before.sp + 1

(* All C functions were called by running code, but for the error handler, *)
(* which may be called in the middle of a call.                            *)
Resumes(s) ==
    \A i \in 1 .. Len(s.acts) - 1 :
        s.acts[i + 1].k # "handler" => InCode(s.acts[i], s.acts[i + 1].before)

(* What holds of the stacks in every phase, in error() and longjmp() too.  *)
Core(s) ==
    /\ Bottom(s) /\ Contexts(s) /\ Saved(s) /\ Live(s) /\ Nested(s)
    /\ FramesCounted(s) /\ Giver(s) /\ Resumes(s)

(* While LPC code runs, it is the code the innermost C function waits for. *)
Good(s) ==
    /\ s \in Machine /\ Core(s)
    /\ s.now = "lpc" => InCode(Last(s.acts), Before(s))

(* GoesOnAsBefore, of a machine.                                           *)
Settled(s) ==
    s.back # <<>> /\ s.now = "lpc" =>
        LET b == s.back[1] IN
        /\ s.regs = b.before.regs
        /\ s.csp = b.before.csp
        /\ s.sp = b.before.sp + b.left
        /\ b.failed \/ b.k = "command" => s.cg = b.before.cg

(* The inductive invariant.                                                *)
EvaluationInv == Good(m) /\ Settled(m)
-----------------------------------------------------------------------------
(* The last of a sequence that is not empty.                               *)
LEMMA LastIs == ASSUME NEW T, NEW q \in Seq(T), Len(q) > 0
                PROVE  Last(q) = q[Len(q)] /\ Last(q) \in T
BY LenProperties DEF Last

(* All but the last.                                                       *)
LEMMA FrontIs ==
  ASSUME NEW T, NEW q \in Seq(T), Len(q) > 0
  PROVE  /\ Front(q) \in Seq(T) /\ Len(Front(q)) = Len(q) - 1
         /\ \A i \in 1 .. Len(q) - 1 : Front(q)[i] = q[i]
<1>1. Len(q) \in Nat /\ Len(q) - 1 \in Nat /\ 1 \in 1 .. Len(q) + 1 /\ Len(q) - 1 \in 0 .. Len(q)
  BY LenProperties
<1>2. Front(q) = [i \in 1 .. Len(q) - 1 |-> q[i]]
  BY <1>1 DEF Front, SubSeq
<1>3. \A i \in 1 .. Len(q) : q[i] \in T
  BY LenProperties
<1>4. Front(q) \in [1 .. Len(q) - 1 -> T]
  BY <1>1, <1>2, <1>3
<1>5. Front(q) \in Seq(T) /\ Len(Front(q)) = Len(q) - 1
  BY <1>1, <1>4, LenProperties, IsASeq
<1> QED
  BY <1>2, <1>5

(* What the top of the C stack is.                                         *)
LEMMA TopOf ==
  ASSUME NEW s \in Machine, Bottom(s)
  PROVE  /\ Last(s.acts) = s.acts[Len(s.acts)] /\ Last(s.acts) \in Activation
         /\ Len(s.acts) \in Nat \ {0}
BY LastIs DEF Machine, CStack, Bottom

(* The numbers of frames are natural numbers.                              *)
LEMMA Heights ==
  ASSUME NEW s \in Machine, Bottom(s)
  PROVE  /\ Len(s.acts) \in Nat \ {0} /\ Last(s.acts) = s.acts[Len(s.acts)] /\ s.csp \in Nat
         /\ \A i \in 1 .. Len(s.acts) : s.acts[i] \in Activation /\ s.acts[i].before.csp \in Nat
<1>1. \A i \in 1 .. Len(s.acts) : s.acts[i] \in Activation
  <2>1. s.acts \in Seq(Activation)
    BY DEF Machine, CStack
  <2> QED
    BY <2>1, LenProperties
<1>2. \A a \in Activation : a.before.csp \in Nat
  BY EvaluationAssumption DEF Activation, Mark
<1>3. s.csp \in Nat
  BY EvaluationAssumption DEF Machine
<1> QED
  BY <1>1, <1>2, <1>3, TopOf

(* A frame is pushed.                                                      *)
LEMMA FramePushed ==
  ASSUME NEW s \in Machine, NEW t \in Machine, Core(s), t.acts = s.acts, t.cg = s.cg,
         t.csp = s.csp + 1, t.stack[s.csp + 1].regs = s.regs,
         \A i \in 1 .. s.csp : t.stack[i].regs = s.stack[i].regs,
         t.csp - Last(s.acts).before.csp \in FrameCount(Last(s.acts))
  PROVE  Core(t)
<1> DEFINE N == Len(s.acts)
<1>1. N \in Nat \ {0} /\ Last(s.acts) = s.acts[N] /\ s.csp \in Nat
      /\ \A i \in 1 .. N : s.acts[i].before.csp \in Nat
  BY Heights DEF Core
<1>2. Bottom(t) /\ Contexts(t) /\ Nested(t) /\ Resumes(t)
  BY DEF Core, Bottom, Contexts, Nested, Resumes
<1>3. Saved(t)
  <2> SUFFICES ASSUME NEW i \in 1 .. N PROVE Kept(t, s.acts[i].before)
    BY DEF Saved
  <2>1. Kept(s, s.acts[i].before)
    BY DEF Core, Saved
  <2>2. s.acts[i].before.csp \in Nat /\ s.acts[i].before.csp <= s.acts[N].before.csp
    BY <1>1 DEF Core, Nested
  <2> DEFINE b == s.acts[i].before
             c == b.csp
  <2>3. c \in Nat /\ c <= s.csp /\ c <= Last(s.acts).before.csp
        /\ (c < s.csp => s.stack[c + 1].regs = b.regs) /\ (c = s.csp => s.regs = b.regs)
    BY <1>1, <2>1, <2>2 DEF Kept
  <2>4. s.csp \in Nat /\ Last(s.acts).before.csp \in Nat
    BY <1>1
  <2> HIDE DEF c
  <2>5. c <= t.csp /\ (c < t.csp => t.stack[c + 1].regs = b.regs) /\ (c = t.csp => t.regs = b.regs)
    BY <2>3, <2>4
  <2> QED
    BY <2>5 DEF Kept, c
<1>4. Live(t)
  <2>1. Live(s) /\ s.regs \in Regs
    BY DEF Core, Machine
  <2>2. SUFFICES ASSUME NEW i \in 1 .. t.csp PROVE t.stack[i].regs \in Regs
    BY DEF Live
  <2>3. CASE i = s.csp + 1
    BY <2>1, <2>3
  <2>4. CASE i # s.csp + 1
    <3>1. i \in 1 .. s.csp
      BY <1>1, <2>2, <2>4
    <3> QED
      BY <2>1, <3>1 DEF Live
  <2> QED
    BY <2>3, <2>4
<1>5. \A i \in 1 .. N : i # N => Followed(t, i) = Followed(s, i)
  BY DEF Followed
<1>6. Followed(t, N).csp = t.csp /\ Followed(t, N).cg = Followed(s, N).cg
  BY DEF Followed, Before
<1>7. FramesCounted(t)
  BY <1>1, <1>5, <1>6 DEF Core, FramesCounted
<1>8. Giver(t)
  BY <1>1, <1>5, <1>6 DEF Core, Giver
<1> QED
  BY <1>2, <1>3, <1>4, <1>7, <1>8 DEF Core

(* Neither frames nor C functions come or go; the registers may change in  *)
(* a frame of the running function.                                        *)
LEMMA Steady ==
  ASSUME NEW s \in Machine, NEW t \in Machine, Core(s), t.acts = s.acts,
         t.cg = s.cg \/ Last(s.acts).k = "command",
         t.csp = s.csp, \A i \in 1 .. s.csp : t.stack[i].regs = s.stack[i].regs,
         t.regs = s.regs \/ s.csp > Last(s.acts).before.csp
  PROVE  Core(t)
<1> DEFINE N == Len(s.acts)
<1>1. N \in Nat \ {0} /\ Last(s.acts) = s.acts[N] /\ s.csp \in Nat
      /\ \A i \in 1 .. N : s.acts[i].before.csp \in Nat
  BY Heights DEF Core
<1>2. Bottom(t) /\ Contexts(t) /\ Nested(t) /\ Resumes(t)
  BY DEF Core, Bottom, Contexts, Nested, Resumes
<1>3. Saved(t)
  <2> SUFFICES ASSUME NEW i \in 1 .. N PROVE Kept(t, s.acts[i].before)
    BY DEF Saved
  <2>1. Kept(s, s.acts[i].before)
    BY DEF Core, Saved
  <2>2. s.acts[i].before.csp \in Nat /\ s.acts[i].before.csp <= s.acts[N].before.csp
    BY <1>1 DEF Core, Nested
  <2> DEFINE b == s.acts[i].before
             c == b.csp
  <2>3. c \in Nat /\ c <= s.csp /\ c <= Last(s.acts).before.csp
        /\ (c < s.csp => s.stack[c + 1].regs = b.regs) /\ (c = s.csp => s.regs = b.regs)
    BY <1>1, <2>1, <2>2 DEF Kept
  <2>4. s.csp \in Nat /\ Last(s.acts).before.csp \in Nat
    BY <1>1
  <2> HIDE DEF c
  <2>5. c <= t.csp /\ (c < t.csp => t.stack[c + 1].regs = b.regs) /\ (c = t.csp => t.regs = b.regs)
    BY <2>3, <2>4
  <2> QED
    BY <2>5 DEF Kept, c
<1>4. Live(t)
  BY <1>1 DEF Core, Live, Machine
<1>5. \A i \in 1 .. N : i # N => Followed(t, i) = Followed(s, i)
  BY DEF Followed
<1>6. Followed(t, N).csp = Followed(s, N).csp
      /\ (s.acts[N].k = "command" \/ Followed(t, N).cg = Followed(s, N).cg)
  BY <1>1 DEF Followed, Before
<1>7. FramesCounted(t)
  BY <1>1, <1>5, <1>6 DEF Core, FramesCounted
<1>8. Giver(t)
  BY <1>1, <1>5, <1>6 DEF Core, Giver
<1> QED
  BY <1>2, <1>3, <1>4, <1>7, <1>8 DEF Core

(* A frame of the running function is popped.                              *)
LEMMA Popped ==
  ASSUME NEW s \in Machine, NEW t \in Machine, Core(s), t.acts = s.acts, t.cg = s.cg,
         s.csp > Last(s.acts).before.csp, t.csp = s.csp - 1, t.regs = s.stack[s.csp].regs,
         \A i \in 1 .. t.csp : t.stack[i].regs = s.stack[i].regs
  PROVE  Core(t)
<1> DEFINE N == Len(s.acts)
<1>1. N \in Nat \ {0} /\ Last(s.acts) = s.acts[N] /\ s.csp \in Nat
      /\ \A i \in 1 .. N : s.acts[i].before.csp \in Nat
  BY Heights DEF Core
<1>2. Bottom(t) /\ Contexts(t) /\ Nested(t) /\ Resumes(t)
  BY DEF Core, Bottom, Contexts, Nested, Resumes
<1>3. Saved(t)
  <2> SUFFICES ASSUME NEW i \in 1 .. N PROVE Kept(t, s.acts[i].before)
    BY DEF Saved
  <2>1. Kept(s, s.acts[i].before)
    BY DEF Core, Saved
  <2>2. s.acts[i].before.csp \in Nat /\ s.acts[i].before.csp <= s.acts[N].before.csp
    BY <1>1 DEF Core, Nested
  <2> DEFINE b == s.acts[i].before
             c == b.csp
  <2>3. c \in Nat /\ c <= s.csp /\ c <= Last(s.acts).before.csp
        /\ (c < s.csp => s.stack[c + 1].regs = b.regs) /\ (c = s.csp => s.regs = b.regs)
    BY <1>1, <2>1, <2>2 DEF Kept
  <2>4. s.csp \in Nat /\ Last(s.acts).before.csp \in Nat
    BY <1>1
  <2> HIDE DEF c
  <2>5. c <= t.csp /\ (c < t.csp => t.stack[c + 1].regs = b.regs) /\ (c = t.csp => t.regs = b.regs)
    BY <2>3, <2>4
  <2> QED
    BY <2>5 DEF Kept, c
<1>4. Live(t)
  BY <1>1 DEF Core, Live, Machine
<1>5. \A i \in 1 .. N : i # N => Followed(t, i) = Followed(s, i)
  BY DEF Followed
<1>6. Followed(t, N).csp = Followed(s, N).csp - 1 /\ Followed(t, N).cg = Followed(s, N).cg
  BY <1>1 DEF Followed, Before
<1>7. Followed(s, N).csp = s.csp
  BY DEF Followed, Before
<1>8. FramesCounted(t)
  <2> SUFFICES ASSUME NEW i \in 1 .. N
               PROVE  Followed(t, i).csp - s.acts[i].before.csp \in FrameCount(s.acts[i])
    BY DEF FramesCounted
  <2>1. Followed(s, i).csp - s.acts[i].before.csp \in FrameCount(s.acts[i])
    BY DEF Core, FramesCounted
  <2>2. CASE i # N
    BY <2>1, <2>2, <1>5
  <2>3. CASE i = N
    BY <2>1, <2>3, <1>1, <1>6, <1>7 DEF FrameCount
  <2> QED
    BY <2>2, <2>3
<1>9. Giver(t)
  BY <1>1, <1>5, <1>6 DEF Core, Giver
<1> QED
  BY <1>2, <1>3, <1>4, <1>8, <1>9 DEF Core

(* A C function is called, with the present state as what it should find   *)
(* again.                                                                  *)
LEMMA ActOpened ==
  ASSUME NEW s \in Machine, NEW t \in Machine, NEW a \in Activation, Core(s),
         a.before = Before(s), a.k # "backend", HasContext(a),
         t.acts = Append(s.acts, a), t.csp = s.csp, t.stack = s.stack, t.regs = s.regs,
         t.cg = s.cg \/ a.k = "command",
         a.k # "handler" => InCode(Last(s.acts), Before(s))
  PROVE  Core(t) /\ Last(t.acts) = a
<1> DEFINE N == Len(s.acts)
<1>1. N \in Nat \ {0} /\ Last(s.acts) = s.acts[N] /\ s.csp \in Nat
      /\ \A i \in 1 .. N : s.acts[i].before.csp \in Nat
  BY Heights DEF Core
<1>2. Len(t.acts) = N + 1 /\ t.acts[N + 1] = a /\ \A i \in 1 .. N : t.acts[i] = s.acts[i]
  BY AppendProperties DEF Machine, CStack
<1>3. a.before.csp = s.csp /\ a.before.regs = s.regs /\ a.before.cg = s.cg
  BY DEF Before
<1> HIDE DEF N
<1>4. 1 .. N + 1 = (1 .. N) \cup {N + 1}
  BY <1>1
<1>5. Last(t.acts) = a
  BY <1>2, Heights DEF Last
<1>6. Bottom(t)
  BY <1>1, <1>2, <1>4 DEF Core, Bottom, N
<1>7. Contexts(t)
  BY <1>1, <1>2, <1>4 DEF Core, Contexts, N
<1>8. Saved(t)
  <2>1. \A i \in 1 .. N : Kept(t, s.acts[i].before)
    BY DEF Core, Saved, Kept, N
  <2>2. Kept(t, a.before)
    BY <1>1, <1>3 DEF Kept
  <2> QED
    BY <2>1, <2>2, <1>2, <1>4 DEF Saved
<1>9. Live(t)
  BY DEF Core, Live
<1>10. Nested(t)
  <2>1. \A i \in 1 .. N : s.acts[i].before.csp <= s.csp
    BY DEF Core, Saved, Kept, N
  <2>2. \A i, j \in 1 .. N : i <= j => s.acts[i].before.csp <= s.acts[j].before.csp
    BY DEF Core, Nested, N
  <2> SUFFICES ASSUME NEW i \in 1 .. N + 1, NEW j \in 1 .. N + 1, i <= j
               PROVE  t.acts[i].before.csp <= t.acts[j].before.csp
    BY <1>2 DEF Nested
  <2>3. CASE j \in 1 .. N
    BY <2>2, <2>3, <1>1, <1>2
  <2>4. CASE j = N + 1 /\ i \in 1 .. N
    BY <2>1, <2>4, <1>2, <1>3
  <2>5. CASE j = N + 1 /\ i = N + 1
    BY <2>5, <1>1, <1>2, <1>3
  <2> QED
    BY <2>3, <2>4, <2>5, <1>4
<1>11. \A i \in 1 .. N : Followed(t, i) = Followed(s, i)
  BY <1>1, <1>2, <1>4 DEF Followed, N
<1>12. Followed(t, N + 1) = Before(t) /\ Before(t).csp = s.csp /\ Before(t).cg = t.cg
  BY <1>2 DEF Followed, Before
<1>13. FramesCounted(t)
  <2>1. \A i \in 1 .. N : Followed(s, i).csp - s.acts[i].before.csp \in FrameCount(s.acts[i])
    BY DEF Core, FramesCounted, N
  <2>2. s.csp - a.before.csp \in FrameCount(a)
    BY <1>1, <1>3 DEF FrameCount
  <2> QED
    BY <2>1, <2>2, <1>2, <1>4, <1>11, <1>12 DEF FramesCounted
<1>14. Giver(t)
  <2>1. \A i \in 1 .. N : s.acts[i].k # "command" => Followed(s, i).cg = s.acts[i].before.cg
    BY DEF Core, Giver, N
  <2>2. a.k # "command" => t.cg = a.before.cg
    BY <1>3
  <2> QED
    BY <2>1, <2>2, <1>2, <1>4, <1>11, <1>12 DEF Giver
<1>15. Resumes(t)
  <2> SUFFICES ASSUME NEW i \in 1 .. N, t.acts[i + 1].k # "handler"
               PROVE  InCode(t.acts[i], t.acts[i + 1].before)
    BY <1>1, <1>2 DEF Resumes
  <2>1. CASE i = N
    BY <2>1, <1>1, <1>2
  <2>2. CASE i # N
    <3>1. i \in 1 .. N - 1 /\ i + 1 \in 1 .. N
      BY <2>2, <1>1
    <3>2. s.acts[i + 1].k # "handler" => InCode(s.acts[i], s.acts[i + 1].before)
      BY <3>1 DEF Core, Resumes, N
    <3> QED
      BY <3>1, <3>2, <1>2
  <2> QED
    BY <2>1, <2>2
<1> QED
  BY <1>5, <1>6, <1>7, <1>8, <1>9, <1>10, <1>13, <1>14, <1>15 DEF Core

(* The C stack is cut back to its first n functions, at the height of the  *)
(* control stack that the next one was called at, with its command giver.  *)
LEMMA CutBack ==
  ASSUME NEW s \in Machine, NEW t \in Machine, Core(s), NEW n \in 1 .. Len(s.acts),
         NEW e \in Mark,
         Len(t.acts) = n, \A i \in 1 .. n : t.acts[i] = s.acts[i],
         t.csp = e.csp, t.cg = e.cg, t.regs = e.regs, e.csp <= s.csp,
         \A i \in 1 .. t.csp : t.stack[i].regs = s.stack[i].regs,
         \A i \in 1 .. n : s.acts[i].before.csp <= e.csp,
         Kept(s, e),
         e.csp - s.acts[n].before.csp \in FrameCount(s.acts[n]),
         s.acts[n].k # "command" => e.cg = s.acts[n].before.cg
  PROVE  Core(t)
<1> DEFINE N == Len(s.acts)
<1>1. N \in Nat \ {0} /\ s.csp \in Nat /\ n \in Nat \ {0} /\ n <= N /\ e.csp \in Nat
      /\ \A i \in 1 .. N : s.acts[i].before.csp \in Nat
  BY Heights, EvaluationAssumption DEF Core, Mark
<1> HIDE DEF N
<1>2. 1 .. n \subseteq 1 .. N
  BY <1>1
<1>3. Bottom(t) /\ Contexts(t) /\ Nested(t)
  <2>1. 1 \in 1 .. n
    BY <1>1
  <2>2. Bottom(t)
    BY <1>1, <1>2, <2>1, SMTT(40) DEF Core, Bottom, N
  <2>3. Contexts(t)
    BY <1>2 DEF Core, Contexts, N
  <2>4. Nested(t)
    BY <1>2 DEF Core, Nested, N
  <2> QED
    BY <2>2, <2>3, <2>4
<1>4. Live(t)
  <2>1. 1 .. t.csp \subseteq 1 .. s.csp
    BY <1>1
  <2>2. Live(s)
    BY DEF Core
  <2> QED
    BY <2>1, <2>2 DEF Live
<1>5. Saved(t)
  <2> SUFFICES ASSUME NEW i \in 1 .. n PROVE Kept(t, s.acts[i].before)
    BY DEF Saved
  <2>1. Kept(s, s.acts[i].before)
    BY <1>2 DEF Core, Saved, N
  <2> DEFINE b == s.acts[i].before
             c == b.csp
  <2>2. c \in Nat /\ c <= s.csp /\ c <= e.csp
        /\ (c < s.csp => s.stack[c + 1].regs = b.regs) /\ (c = s.csp => s.regs = b.regs)
    BY <1>1, <1>2, <2>1 DEF Kept
  <2>3. (e.csp < s.csp => s.stack[e.csp + 1].regs = e.regs) /\ (e.csp = s.csp => s.regs = e.regs)
    BY DEF Kept
  <2> HIDE DEF c
  <2>4. c < e.csp => t.stack[c + 1].regs = b.regs
    BY <2>2, <1>1
  <2>5. c = e.csp => e.regs = b.regs
    BY <2>2, <2>3, <1>1
  <2> QED
    BY <2>2, <2>4, <2>5 DEF Kept, c
<1>6. \A i \in 1 .. n : i # n => Followed(t, i) = Followed(s, i) /\ i \in 1 .. N
  <2>1. \A i \in 1 .. n : i # n => i + 1 \in 1 .. n /\ i # N /\ i \in 1 .. N
    BY <1>1
  <2> QED
    BY <2>1 DEF Followed, N
<1>7. Followed(t, n).csp = e.csp /\ Followed(t, n).cg = e.cg
  BY DEF Followed, Before
<1>8. FramesCounted(t)
  BY <1>2, <1>6, <1>7 DEF Core, FramesCounted, N
<1>9. Giver(t)
  BY <1>2, <1>6, <1>7 DEF Core, Giver, N
<1>10. Resumes(t)
  <2>1. ASSUME NEW i \in 1 .. n - 1 PROVE i \in 1 .. N - 1 /\ i \in 1 .. n /\ i + 1 \in 1 .. n
    <3>1. i \in Int /\ 1 <= i /\ i <= n - 1
      BY <1>1
    <3> QED
      BY <1>1, <3>1
  <2> QED
    BY <2>1 DEF Core, Resumes, N
<1> QED
  BY <1>3, <1>4, <1>5, <1>8, <1>9, <1>10 DEF Core

(* The innermost C function is over: the one below it finds again what it  *)
(* had.                                                                    *)
LEMMA Closed ==
  ASSUME NEW s \in Machine, NEW t \in Machine, Core(s), Last(s.acts).k # "backend",
         s.csp = Last(s.acts).before.csp, t.acts = Front(s.acts), t.csp = s.csp,
         t.regs = s.regs, \A i \in 1 .. t.csp : t.stack[i].regs = s.stack[i].regs,
         t.cg = Last(s.acts).before.cg
  PROVE  /\ Core(t) /\ s.regs = Last(s.acts).before.regs
         /\ Last(s.acts).k # "handler" => InCode(Last(t.acts), Before(t))
<1> DEFINE N == Len(s.acts)
           e == s.acts[N].before
<1>1. N \in Nat \ {0} /\ Last(s.acts) = s.acts[N] /\ s.csp \in Nat /\ s.acts[N] \in Activation
  BY Heights DEF Core
<1>2. N # 1 /\ N - 1 \in 1 .. N /\ N \in 1 .. N
  BY <1>1 DEF Core, Bottom
<1>3. e \in Mark
  BY <1>1 DEF Activation
<1>4. Len(t.acts) = N - 1 /\ \A i \in 1 .. N - 1 : t.acts[i] = s.acts[i]
  BY <1>1, FrontIs DEF Machine, CStack
<1>5. Kept(s, e)
  BY <1>2 DEF Core, Saved
<1>6. s.regs = e.regs
  BY <1>1, <1>5 DEF Kept
<1>7. \A i \in 1 .. N - 1 : s.acts[i].before.csp <= e.csp
  BY <1>1, <1>2 DEF Core, Nested
<1>8. Followed(s, N - 1) = e
  BY <1>1, <1>2 DEF Followed
<1>9. /\ e.csp - s.acts[N - 1].before.csp \in FrameCount(s.acts[N - 1])
      /\ s.acts[N - 1].k # "command" => e.cg = s.acts[N - 1].before.cg
  BY <1>2, <1>8 DEF Core, FramesCounted, Giver
<1>10. Core(t)
  <2>1. PICK n : n = N - 1
    OBVIOUS
  <2>2. t.csp = e.csp /\ t.cg = e.cg /\ t.regs = e.regs /\ e.csp <= s.csp
    BY <1>1, <1>6
  <2> HIDE DEF N, e
  <2> QED
    BY <2>1, <2>2, <1>2, <1>3, <1>4, <1>5, <1>7, <1>9, CutBack DEF N
<1>11. Last(t.acts) = s.acts[N - 1]
  BY <1>1, <1>2, <1>4 DEF Last
<1>12. s.acts[N].k # "handler" => InCode(s.acts[N - 1], s.acts[N].before)
  <2>1. N - 1 \in 1 .. Len(s.acts) - 1 /\ (N - 1) + 1 = N
    BY <1>1, <1>2
  <2> QED
    BY <2>1 DEF Core, Resumes
<1>13. Before(t).csp = e.csp /\ Before(t).regs = e.regs
  BY <1>1, <1>6 DEF Before
<1> QED
  BY <1>1, <1>6, <1>10, <1>11, <1>12, <1>13 DEF InCode

(* A longjmp() to the context of C function n.                             *)
LEMMA Reaching ==
  ASSUME NEW s \in Machine, NEW t \in Machine, Core(s), NEW n \in 1 .. Len(s.acts),
         t.acts = SubSeq(s.acts, 1, n), t.csp = s.acts[n].before.csp,
         t.cg = s.acts[n].before.cg, t.regs = s.acts[n].before.regs,
         \A i \in 1 .. t.csp : t.stack[i].regs = s.stack[i].regs
  PROVE  /\ Core(t) /\ Len(t.acts) = n /\ Last(t.acts) = s.acts[n]
<1> DEFINE N == Len(s.acts)
           e == s.acts[n].before
<1>1. N \in Nat \ {0} /\ s.csp \in Nat /\ s.acts[n] \in Activation /\ n \in Nat \ {0} /\ n <= N
  BY Heights DEF Core
<1>2. e \in Mark /\ e.csp \in Nat
  BY <1>1, EvaluationAssumption DEF Activation, Mark
<1>3. Len(t.acts) = n /\ \A i \in 1 .. n : t.acts[i] = s.acts[i]
  <2>1. s.acts \in Seq(Activation) /\ 1 \in 1 .. N + 1 /\ n \in 0 .. N
    BY <1>1 DEF Machine, CStack
  <2>2. Len(SubSeq(s.acts, 1, n)) = n - 1 + 1
    BY <2>1, <1>1, SubSeqProperties
  <2>3. \A i \in 1 .. n - 1 + 1 : SubSeq(s.acts, 1, n)[i] = s.acts[1 + i - 1]
    BY <2>1, <1>1, SubSeqProperties
  <2> QED
    BY <2>2, <2>3, <1>1
<1>4. Kept(s, e) /\ e.csp <= s.csp
  BY DEF Core, Saved, Kept
<1>5. \A i \in 1 .. n : s.acts[i].before.csp <= e.csp
  BY <1>1 DEF Core, Nested
<1>6. e.csp - s.acts[n].before.csp \in FrameCount(s.acts[n])
  BY <1>2 DEF FrameCount
<1>7. Core(t)
  BY <1>1, <1>2, <1>3, <1>4, <1>5, <1>6, CutBack
<1> QED
  BY <1>1, <1>3, <1>7 DEF Last
-----------------------------------------------------------------------------
(* The operations on the machine.                                          *)

(* Registers and stacks apart, s and t are the same.                       *)
Unmoved(s, t) ==
    /\ t.now = s.now /\ t.too_deep = s.too_deep /\ t.max_eval = s.max_eval
    /\ t.handling = s.handling /\ t.back = s.back /\ t.acts = s.acts /\ t.cg = s.cg

(* What push_control_stack() leaves.                                       *)
LEMMA PushIs ==
  ASSUME NEW s \in Machine, ~TooDeep(s), NEW kind \in Kinds, NEW external \in BOOLEAN
  PROVE  LET t == push_control_stack(s, kind, external) IN
         /\ t \in Machine /\ Unmoved(s, t) /\ t.csp = s.csp + 1 /\ t.sp = s.sp /\ t.regs = s.regs
         /\ t.stack[s.csp + 1].regs = s.regs
         /\ \A i \in 1 .. s.csp : t.stack[i].regs = s.stack[i].regs
<1> DEFINE f == [kind |-> kind, external |-> external, regs |-> s.regs, nlocals |-> 0]
           t == push_control_stack(s, kind, external)
<1>1. s.csp + 1 \in 0 .. MaxCallDepth /\ s.csp + 1 \in 1 .. MaxCallDepth /\ s.csp \in Nat /\ s.csp <= MaxCallDepth
  BY EvaluationAssumption DEF TooDeep, Machine
<1>2. f \in Frame
  BY DEF Frame, Machine
<1> DEFINE g == [s.stack EXCEPT ![s.csp + 1] = f]
<1>3. g \in Stack
  BY <1>1, <1>2 DEF Machine, Stack
<1>4. t = [s EXCEPT !.csp = s.csp + 1, !.stack = g]
  BY DEF push_control_stack, Machine
<1>5. s.stack \in [1 .. MaxCallDepth -> Frame]
  BY DEF Machine, Stack
<1>6. g[s.csp + 1] = f /\ \A i \in 1 .. s.csp : g[i] = s.stack[i]
  <2> HIDE DEF f
  <2>1. g[s.csp + 1] = f
    BY <1>1, <1>5
  <2>2. \A i \in 1 .. s.csp : i \in 1 .. MaxCallDepth /\ i # s.csp + 1
    BY <1>1, EvaluationAssumption
  <2> QED
    BY <2>1, <2>2, <1>5
<1>7. f.regs = s.regs
  OBVIOUS
<1> HIDE DEF g, f, t
<1>8. t \in Machine
  BY <1>1, <1>3, <1>4, Zenon DEF Machine
<1>9. Unmoved(s, t) /\ t.csp = s.csp + 1 /\ t.sp = s.sp /\ t.regs = s.regs /\ t.stack = g
  BY <1>4 DEF Machine, Unmoved
<1> QED
  BY <1>6, <1>7, <1>8, <1>9 DEF t

(* What pop_control_stack() leaves.                                        *)
LEMMA PopIs ==
  ASSUME NEW s \in Machine, s.csp # 0, s.stack[s.csp].regs \in Regs
  PROVE  LET t == pop_control_stack(s) IN
         /\ t \in Machine /\ Unmoved(s, t) /\ t.csp = s.csp - 1 /\ t.sp = s.sp
         /\ t.regs = s.stack[s.csp].regs
         /\ \A i \in 1 .. t.csp : t.stack[i].regs = s.stack[i].regs
<1> DEFINE f == Stale(s.stack[s.csp])
           r == s.stack[s.csp].regs
           g == [s.stack EXCEPT ![s.csp] = f]
           t == pop_control_stack(s)
<1>1. s.csp - 1 \in 0 .. MaxCallDepth /\ s.csp \in 1 .. MaxCallDepth /\ s.csp \in Nat
  BY EvaluationAssumption DEF Machine
<1>2. s.stack \in [1 .. MaxCallDepth -> Frame]
  BY DEF Machine, Stack
<1>3. s.stack[s.csp] \in Frame
  BY <1>1, <1>2
<1>4. f \in Frame
  <2>1. PICK k \in Kinds : k = s.stack[s.csp].kind
    BY <1>3 DEF Frame
  <2>2. NoFrame \in Frame
    BY DEF NoFrame, Frame, Kinds
  <2>3. f = [NoFrame EXCEPT !.kind = k]
    BY <2>1 DEF Stale
  <2> HIDE DEF f
  <2> QED
    BY <2>2, <2>3, Zenon DEF Frame
<1> HIDE DEF f
<1>5. g \in Stack
  BY <1>1, <1>2, <1>4 DEF Stack
<1>6. \A i \in 1 .. s.csp - 1 : g[i] = s.stack[i]
  <2>1. \A i \in 1 .. s.csp - 1 : i \in 1 .. MaxCallDepth /\ i # s.csp
    BY <1>1, EvaluationAssumption
  <2> QED
    BY <2>1, <1>2
<1>7. t = [s EXCEPT !.regs = r, !.stack = g, !.csp = s.csp - 1]
  BY DEF pop_control_stack, Machine, f
<1> HIDE DEF g, t, r
<1>8. t \in Machine
  <2>1. r \in Regs
    BY DEF r
  <2> QED
    BY <1>1, <1>5, <1>7, <2>1, Zenon DEF Machine
<1>9. Unmoved(s, t) /\ t.csp = s.csp - 1 /\ t.sp = s.sp /\ t.regs = r /\ t.stack = g
  BY <1>7 DEF Machine, Unmoved
<1> QED
  BY <1>6, <1>8, <1>9 DEF t, r

(* What setup_variables() leaves.                                          *)
LEMMA SetupIs ==
  ASSUME NEW s \in Machine, s.csp # 0, NEW actual \in Nat, NEW num_arg \in Nat
  PROVE  LET t == setup_variables(s, actual, num_arg) IN
         /\ t \in Machine /\ Unmoved(s, t) /\ t.csp = s.csp /\ t.sp = s.sp - actual + num_arg
         /\ t.regs.fp = s.sp - actual + 1
         /\ \A i \in 1 .. s.csp : t.stack[i].regs = s.stack[i].regs
<1> DEFINE f == [s.stack[s.csp] EXCEPT !.nlocals = num_arg]
           r == [s.regs EXCEPT !.fp = s.sp - actual + 1]
           g == [s.stack EXCEPT ![s.csp] = f]
           h == s.sp - actual + num_arg
           t == setup_variables(s, actual, num_arg)
<1>1. s.csp \in 1 .. MaxCallDepth /\ s.csp \in Nat /\ s.sp \in Int /\ s.regs \in Regs
  BY EvaluationAssumption DEF Machine
<1>2. s.stack \in [1 .. MaxCallDepth -> Frame]
  BY DEF Machine, Stack
<1>3. s.stack[s.csp] \in Frame
  BY <1>1, <1>2
<1>4. f \in Frame /\ f.regs = s.stack[s.csp].regs
  BY <1>3 DEF Frame
<1>5. r \in Regs /\ r.fp = s.sp - actual + 1
  BY <1>1 DEF Regs
<1>6. h \in Int
  BY <1>1
<1> HIDE DEF f
<1>7. g \in Stack
  BY <1>1, <1>2, <1>4 DEF Stack
<1>8. \A i \in 1 .. s.csp : g[i].regs = s.stack[i].regs
  <2>1. \A i \in 1 .. s.csp : i \in 1 .. MaxCallDepth
    BY <1>1, EvaluationAssumption
  <2> QED
    BY <2>1, <1>2, <1>4
<1>9. t = [s EXCEPT !.sp = h, !.regs = r, !.stack = g]
  BY DEF setup_variables, Machine, f
<1> HIDE DEF g, t, r, h
<1>10. t \in Machine
  BY <1>5, <1>6, <1>7, <1>9, Zenon DEF Machine
<1>11. Unmoved(s, t) /\ t.csp = s.csp /\ t.sp = h /\ t.regs = r /\ t.stack = g
  BY <1>9 DEF Machine, Unmoved
<1> QED
  BY <1>5, <1>8, <1>10, <1>11 DEF t, h

(* Registers assigned one by one.                                          *)
LEMMA RegsAre ==
  ASSUME NEW s \in Machine, NEW r \in Regs
  PROVE  LET t == [s EXCEPT !.regs = r] IN
         t \in Machine /\ Unmoved(s, t) /\ t.csp = s.csp /\ t.sp = s.sp /\ t.stack = s.stack /\ t.regs = r
<1> DEFINE t == [s EXCEPT !.regs = r]
<1>1. t \in Machine
  BY Zenon DEF Machine
<1>2. Unmoved(s, t) /\ t.csp = s.csp /\ t.sp = s.sp /\ t.stack = s.stack /\ t.regs = r
  BY DEF Machine, Unmoved
<1> QED
  BY <1>1, <1>2

(* t is s with a frame more, whose variables are the n arguments passed    *)
(* and what is missing.                                                    *)
Framed(s, t, n) ==
    /\ t \in Machine /\ Unmoved(s, t) /\ t.csp = s.csp + 1
    /\ t.regs.fp = s.sp - n + 1
    /\ t.stack[s.csp + 1].regs = s.regs
    /\ \A i \in 1 .. s.csp : t.stack[i].regs = s.stack[i].regs

(* The frame of a function and its variables.                              *)
LEMMA FrameIs ==
  ASSUME NEW s \in Machine, ~TooDeep(s), NEW kind \in Kinds, NEW external \in BOOLEAN,
         NEW actual \in Nat, NEW num_arg \in Nat,
         NEW t, t = setup_variables(push_control_stack(s, kind, external), actual, num_arg)
  PROVE  Framed(s, t, actual)
<1>1. PICK p : p = push_control_stack(s, kind, external)
  OBVIOUS
<1>2. /\ p \in Machine /\ Unmoved(s, p) /\ p.csp = s.csp + 1 /\ p.sp = s.sp
      /\ p.stack[s.csp + 1].regs = s.regs
      /\ \A i \in 1 .. s.csp : p.stack[i].regs = s.stack[i].regs
  BY <1>1, PushIs
<1>3. s.csp \in Nat /\ p.csp # 0
  BY <1>2, EvaluationAssumption DEF Machine
<1>4. t = setup_variables(p, actual, num_arg)
  BY <1>1
<1>5. /\ t \in Machine /\ Unmoved(p, t) /\ t.csp = p.csp /\ t.regs.fp = p.sp - actual + 1
      /\ \A i \in 1 .. p.csp : t.stack[i].regs = p.stack[i].regs
  BY <1>2, <1>3, <1>4, SetupIs
<1>6. /\ t.stack[s.csp + 1].regs = s.regs
      /\ \A i \in 1 .. s.csp : t.stack[i].regs = s.stack[i].regs
  BY <1>2, <1>3, <1>5
<1>7. Unmoved(s, t)
  BY <1>2, <1>5 DEF Unmoved
<1> QED
  BY <1>1, <1>2, <1>4, <1>5, <1>6, <1>7 DEF Framed
-----------------------------------------------------------------------------
(* A C function is about to push its last frame.                           *)
OneFrame == {"apply", "command", "safe_apply", "local", "handler"}
TwoFrames == {"funp", "safe_funp"}
Ready(s) ==
    \/ Last(s.acts).k \in OneFrame /\ s.csp = Last(s.acts).before.csp
    \/ Last(s.acts).k \in TwoFrames /\ s.csp = Last(s.acts).before.csp + 1

(* With the frames of the function that was called, its code runs.         *)
LEMMA Entered ==
  ASSUME NEW s \in Machine, NEW t \in Machine, Core(s), Ready(s), t.acts = s.acts, t.cg = s.cg,
         t.csp = s.csp + 1, t.stack[s.csp + 1].regs = s.regs,
         \A i \in 1 .. s.csp : t.stack[i].regs = s.stack[i].regs,
         t.regs.fp = Last(s.acts).before.sp + 1
  PROVE  Good(t)
<1>1. PICK a : a = Last(s.acts)
  OBVIOUS
<1>2. s.csp \in Nat /\ a.before.csp \in Nat
  BY <1>1, Heights DEF Core
<1>3. t.csp - a.before.csp \in FrameCount(a)
  BY <1>1, <1>2 DEF Ready, FrameCount, OneFrame, TwoFrames
<1>4. Core(t)
  BY <1>1, <1>3, FramePushed
<1>5. InCode(a, Before(t))
  <2>1. Before(t).csp = s.csp + 1 /\ Before(t).regs.fp = a.before.sp + 1
    BY <1>1 DEF Before
  <2> HIDE DEF Before
  <2> QED
    BY <1>1, <1>2, <2>1 DEF Ready, InCode, OneFrame, TwoFrames
<1> QED
  BY <1>1, <1>4, <1>5 DEF Good

(* "Too deep recursion.", and other errors.                                *)
LEMMA Raised ==
  ASSUME NEW s \in Machine, NEW t \in Machine, Core(s), t.acts = s.acts, t.cg = s.cg,
         t.csp = s.csp, t.stack = s.stack, t.regs = s.regs, t.now # "lpc"
  PROVE  Good(t)
BY Steady DEF Good

(* "Too deep recursion." is such an error.                                 *)
LEMMA DeeperIs ==
  ASSUME NEW s \in Machine, Core(s)
  PROVE  Good(Deeper(s)) /\ Deeper(s).now = "raise" /\ Deeper(s).back = s.back
<1>1. PICK t : t = Deeper(s)
  OBVIOUS
<1>2. t \in Machine
  <2>1. TRUE \in BOOLEAN /\ "raise" \in Phase
    BY DEF Phase
  <2> QED
    BY <1>1, <2>1, Zenon DEF Deeper, Machine
<1>3. /\ t.acts = s.acts /\ t.cg = s.cg /\ t.csp = s.csp /\ t.stack = s.stack /\ t.regs = s.regs
      /\ t.now = "raise" /\ t.back = s.back
  BY <1>1 DEF Deeper, Machine
<1> QED
  BY <1>1, <1>2, <1>3, Raised

(* apply_low() enters the function, or finds no room for a frame.          *)
LEMMA ApplyLow ==
  ASSUME NEW s \in Machine, Core(s), Ready(s), NEW ob \in Ids, NEW caller \in Callers,
         NEW n \in Nat, NEW num_arg \in Nat, s.sp = Last(s.acts).before.sp + n
  PROVE  Good(apply_low(s, ob, caller, n, num_arg))
         /\ apply_low(s, ob, caller, n, num_arg).back = s.back
<1>1. CASE TooDeep(s)
  BY <1>1, DeeperIs DEF apply_low
<1>2. CASE ~TooDeep(s)
  <2>1. PICK f : f = setup_variables(push_control_stack(s, "FUNCTION", TRUE), n, num_arg)
    OBVIOUS
  <2>2. "FUNCTION" \in Kinds /\ TRUE \in BOOLEAN
    BY DEF Kinds
  <2>3. /\ f \in Machine /\ Unmoved(s, f) /\ f.csp = s.csp + 1 /\ f.regs.fp = s.sp - n + 1
        /\ f.stack[s.csp + 1].regs = s.regs
        /\ \A i \in 1 .. s.csp : f.stack[i].regs = s.stack[i].regs
    <3>1. Framed(s, f, n)
      BY <1>2, <2>1, <2>2, FrameIs
    <3> QED
      BY <3>1 DEF Framed
  <2>4. s.regs \in Regs /\ f.regs \in Regs /\ s.regs.ob \in Ids /\ s.sp \in Int
    BY <2>3 DEF Machine, Regs
  <2>5. PICK r : r = [f.regs EXCEPT !.prev = s.regs.ob, !.ob = ob, !.caller = caller]
    OBVIOUS
  <2>6. r \in Regs
    BY <2>4, <2>5, Zenon DEF Regs
  <2>7. r.fp = f.regs.fp
    BY <2>4, <2>5 DEF Regs
  <2>8. PICK t : t = [f EXCEPT !.regs = r]
    OBVIOUS
  <2>9. apply_low(s, ob, caller, n, num_arg) = t
    BY <1>2, <2>1, <2>3, <2>5, <2>8 DEF apply_low, ApplyFrame, Machine
  <2>10. t \in Machine /\ Unmoved(f, t) /\ t.csp = f.csp /\ t.stack = f.stack /\ t.regs = r
    BY <2>3, <2>6, <2>8, RegsAre
  <2>11. Last(s.acts).before.sp \in Int
    BY TopOf DEF Core, Activation, Mark
  <2>12. t.regs.fp = Last(s.acts).before.sp + 1
    BY <2>3, <2>4, <2>7, <2>10, <2>11
  <2>13. t.acts = s.acts /\ t.cg = s.cg /\ t.back = s.back
    BY <2>3, <2>10 DEF Unmoved
  <2>14. Good(t)
    BY <2>3, <2>10, <2>12, <2>13, Entered
  <2> QED
    BY <2>9, <2>13, <2>14
<1> QED
  BY <1>1, <1>2
-----------------------------------------------------------------------------
(* The C functions.                                                        *)

(* What an activation should find again has its type.                      *)
LEMMA BeforeIs == ASSUME NEW s \in Machine
                  PROVE  Before(s) \in Mark
BY DEF Before, Machine, Mark

(* What an activation is.                                                  *)
LEMMA ActIs ==
  ASSUME NEW s \in Machine, NEW k \in ActKinds, NEW n \in Nat
  PROVE  LET a == Act(s, k, n) IN
         a \in Activation /\ a.k = k /\ a.n = n /\ a.before = Before(s) /\ a.econ = <<>>
BY BeforeIs DEF Act, Activation, Econs

(* save_context() for a C function called with n arguments pushed.         *)
LEMMA ContextIs ==
  ASSUME NEW s \in Machine, NEW p \in Machine, NEW k \in WithContext, NEW n \in Nat,
         p.csp = s.csp, p.cg = s.cg,
         p.sp = IF k \in {"safe_apply", "safe_funp"} THEN s.sp + n ELSE s.sp
  PROVE  LET a == save_context(p, Act(s, k, n)) IN
         /\ a \in Activation /\ a.k = k /\ a.n = n /\ a.before = Before(s) /\ HasContext(a)
<1> DEFINE b == Act(s, k, n)
           e == [sp |-> p.sp, csp |-> p.csp, cg |-> p.cg]
           a == save_context(p, b)
<1>1. k \in ActKinds
  BY DEF WithContext, ActKinds
<1>2. b \in Activation /\ b.k = k /\ b.n = n /\ b.before = Before(s)
  BY <1>1, ActIs
<1>3. e \in Context
  BY DEF Context, Machine
<1>4. <<e>> \in Econs
  BY <1>3 DEF Econs
<1>5. a = [b EXCEPT !.econ = <<e>>]
  BY DEF save_context
<1> HIDE DEF a, b, e
<1>6. a \in Activation
  BY <1>2, <1>4, <1>5, Zenon DEF Activation
<1>7. a.k = k /\ a.n = n /\ a.before = Before(s) /\ a.econ = <<e>>
  BY <1>2, <1>5 DEF Activation
<1>8. Before(s).sp = s.sp /\ Before(s).csp = s.csp /\ Before(s).cg = s.cg
  BY DEF Before
<1>9. ContextOf(a) = <<e>>
  BY <1>7, <1>8 DEF ContextOf, e
<1> QED
  BY <1>6, <1>7, <1>9 DEF HasContext, a, b

(* What is appended last is taken off first.                               *)
LEMMA FrontAppend ==
  ASSUME NEW T, NEW q \in Seq(T), NEW a \in T
  PROVE  Front(Append(q, a)) = q
<1>1. /\ Append(q, a) \in Seq(T) /\ Len(Append(q, a)) = Len(q) + 1 /\ Len(q) \in Nat
      /\ \A i \in 1 .. Len(q) : Append(q, a)[i] = q[i]
  BY AppendProperties, LenProperties
<1>2. PICK p \in Seq(T) : p = Append(q, a)
  BY <1>1
<1>3. /\ Front(p) \in Seq(T) /\ Len(Front(p)) = Len(p) - 1
      /\ \A i \in 1 .. Len(p) - 1 : Front(p)[i] = p[i]
  <2>1. Len(p) > 0
    BY <1>1, <1>2
  <2> QED
    BY <2>1, FrontIs
<1>4. Len(Front(p)) = Len(q) /\ \A i \in 1 .. Len(q) : Front(p)[i] = q[i]
  BY <1>1, <1>2, <1>3
<1> QED
  BY <1>2, <1>3, <1>4, SeqEqual

(* The running code goes on running.                                       *)
LEMMA StillRunning ==
  ASSUME NEW s \in Machine, NEW t \in Machine, Good(s), t.acts = s.acts, t.cg = s.cg,
         t.csp = s.csp, t.stack = s.stack, t.regs = s.regs, t.now = s.now
  PROVE  Good(t)
<1>1. Core(t)
  BY Steady DEF Good
<1>2. Before(t).csp = Before(s).csp /\ Before(t).regs = Before(s).regs
  BY DEF Before
<1>3. InCode(Last(s.acts), Before(s)) => InCode(Last(t.acts), Before(t))
  BY <1>2 DEF InCode
<1> QED
  BY <1>1, <1>3 DEF Good

(* Any C function but the error handler is called by running code.         *)
LEMMA Called ==
  ASSUME NEW s \in Machine, NEW t \in Machine, NEW a \in Activation, Good(s), s.now = "lpc",
         a.before = Before(s), a.k # "backend", HasContext(a),
         t.acts = Append(s.acts, a), t.csp = s.csp, t.stack = s.stack, t.regs = s.regs,
         t.cg = s.cg \/ a.k = "command"
  PROVE  Core(t) /\ Last(t.acts) = a /\ t.csp = a.before.csp
<1>1. a.before.csp = s.csp
  BY DEF Before
<1> QED
  BY <1>1, ActOpened DEF Good

(* Push keeps the invariant.                                               *)
LEMMA PushOk == ASSUME Good(m), Push PROVE Good(m') /\ Settled(m')
<1>1. PICK h : h = m.sp + 1
  OBVIOUS
<1>2. m \in Machine /\ h \in Int /\ <<>> \in Outcomes
  BY <1>1 DEF Good, Machine, Outcomes
<1>3. m' = [m EXCEPT !.back = <<>>, !.sp = h]
  BY <1>1, <1>2 DEF Push, Fresh, Machine
<1>4. m' \in Machine
  BY <1>2, <1>3, Zenon DEF Machine
<1>5. /\ m'.acts = m.acts /\ m'.cg = m.cg /\ m'.csp = m.csp /\ m'.stack = m.stack
      /\ m'.regs = m.regs /\ m'.now = m.now /\ m'.back = <<>>
  BY <1>2, <1>3 DEF Machine
<1> QED
  BY <1>2, <1>4, <1>5, StillRunning DEF Settled

(* Pop keeps the invariant.                                                *)
LEMMA PopOk == ASSUME Good(m), Pop PROVE Good(m') /\ Settled(m')
<1>1. PICK h : h = m.sp - 1
  OBVIOUS
<1>2. m \in Machine /\ h \in Int /\ <<>> \in Outcomes
  BY <1>1 DEF Good, Machine, Outcomes
<1>3. m' = [m EXCEPT !.back = <<>>, !.sp = h]
  BY <1>1, <1>2 DEF Pop, Fresh, Machine
<1>4. m' \in Machine
  BY <1>2, <1>3, Zenon DEF Machine
<1>5. /\ m'.acts = m.acts /\ m'.cg = m.cg /\ m'.csp = m.csp /\ m'.stack = m.stack
      /\ m'.regs = m.regs /\ m'.now = m.now /\ m'.back = <<>>
  BY <1>2, <1>3 DEF Machine
<1> QED
  BY <1>2, <1>4, <1>5, StillRunning DEF Settled

(* Error, TooLong and Throw.                                               *)
LEMMA Failing ==
  ASSUME NEW s, Good(s), NEW p \in Phase, p # "lpc", NEW x \in BOOLEAN,
         NEW t, t = [s EXCEPT !.back = <<>>, !.now = p, !.max_eval = x]
  PROVE  Good(t) /\ Settled(t)
<1>1. s \in Machine /\ <<>> \in Outcomes
  BY DEF Good, Outcomes
<1>2. t \in Machine
  BY <1>1, Zenon DEF Machine
<1>3. /\ t.acts = s.acts /\ t.cg = s.cg /\ t.csp = s.csp /\ t.stack = s.stack
      /\ t.regs = s.regs /\ t.now = p /\ t.back = <<>>
  BY <1>1 DEF Machine
<1> QED
  BY <1>1, <1>2, <1>3, Raised DEF Settled, Good

(* The same without the flag.                                              *)
LEMMA FailingOnly ==
  ASSUME NEW s, Good(s), NEW p \in Phase, p # "lpc",
         NEW t, t = [s EXCEPT !.back = <<>>, !.now = p]
  PROVE  Good(t) /\ Settled(t)
<1>1. s \in Machine /\ <<>> \in Outcomes
  BY DEF Good, Outcomes
<1>2. t \in Machine
  BY <1>1, Zenon DEF Machine
<1>3. /\ t.acts = s.acts /\ t.cg = s.cg /\ t.csp = s.csp /\ t.stack = s.stack
      /\ t.regs = s.regs /\ t.now = p /\ t.back = <<>>
  BY <1>1 DEF Machine
<1> QED
  BY <1>1, <1>2, <1>3, Raised DEF Settled, Good

(* Error and Throw keep the invariant.                                     *)
LEMMA ErrorOk == ASSUME Good(m), Error \/ Throw PROVE Good(m') /\ Settled(m')
<1>1. PICK p \in Phase : p # "lpc" /\ m' = [Fresh EXCEPT !.now = p]
  BY DEF Error, Throw, Phase
<1>2. m' = [m EXCEPT !.back = <<>>, !.now = p]
  BY <1>1 DEF Fresh, Good, Machine
<1> QED
  BY <1>1, <1>2, FailingOnly

(* TooLong keeps the invariant.                                            *)
LEMMA TooLongOk == ASSUME Good(m), TooLong PROVE Good(m') /\ Settled(m')
<1>1. PICK p \in Phase : p = "raise"
  BY DEF Phase
<1>2. PICK x \in BOOLEAN : x = TRUE
  OBVIOUS
<1>3. m' = [m EXCEPT !.back = <<>>, !.now = p, !.max_eval = x]
  BY <1>1, <1>2 DEF TooLong, Fresh, Good, Machine
<1> QED
  BY <1>1, <1>3, Failing
-----------------------------------------------------------------------------
(* apply_low() for a C function that holds no context.                     *)
LEMMA Applied ==
  ASSUME Good(m), m.now = "lpc", NEW k \in {"apply", "command", "local"}, NEW n \in Nat,
         NEW s \in Machine, s.sp = m.sp + n, s.acts = Append(m.acts, Act(m, k, n)),
         s.csp = m.csp, s.stack = m.stack, s.regs = m.regs, s.cg = m.cg \/ k = "command",
         s.back = <<>>, NEW ob \in Ids, NEW caller \in Callers, NEW num_arg \in Nat,
         NEW t, t = apply_low(s, ob, caller, n, num_arg)
  PROVE  Good(t) /\ Settled(t)
<1>1. PICK a : a = Act(m, k, n)
  OBVIOUS
<1>2. m \in Machine /\ k \in ActKinds
  BY DEF Good, ActKinds
<1>3. a \in Activation /\ a.k = k /\ a.before = Before(m) /\ a.econ = <<>>
  BY <1>1, <1>2, ActIs
<1>4. a.k # "backend" /\ HasContext(a)
  BY <1>3 DEF HasContext, WithContext
<1>5. Core(s) /\ Last(s.acts) = a /\ s.csp = a.before.csp
  BY <1>1, <1>2, <1>3, <1>4, Called
<1>6. Ready(s) /\ s.sp = a.before.sp + n
  BY <1>3, <1>5 DEF Ready, OneFrame, Before
<1>7. Good(t) /\ t.back = <<>>
  BY <1>5, <1>6, ApplyLow
<1> QED
  BY <1>7 DEF Settled

(* Apply and CallSimulEfun keep the invariant.                             *)
LEMMA ApplyOk ==
  ASSUME Good(m), NEW ob \in Ids, NEW n \in Nat, NEW d \in Nat, NEW caller \in Callers,
         NEW k \in {"apply", "command", "local"}, m.now = "lpc",
         m' = apply_low([Fresh EXCEPT !.sp = @ + n, !.acts = Append(@, Act(m, k, n))],
                        ob, caller, n, d)
  PROVE  Good(m') /\ Settled(m')
<1>1. PICK h, q : h = m.sp + n /\ q = Append(m.acts, Act(m, k, n))
  OBVIOUS
<1>2. m \in Machine /\ h \in Int /\ <<>> \in Outcomes
  BY <1>1 DEF Good, Machine, Outcomes
<1>3. q \in CStack
  <2>1. Act(m, k, n) \in Activation
    BY <1>2, ActIs DEF ActKinds
  <2> QED
    BY <1>1, <1>2, <2>1, AppendProperties DEF Machine, CStack
<1>4. PICK s : s = [m EXCEPT !.back = <<>>, !.sp = h, !.acts = q]
  OBVIOUS
<1>5. s \in Machine
  BY <1>2, <1>3, <1>4, Zenon DEF Machine
<1>6. /\ s.sp = h /\ s.acts = q /\ s.csp = m.csp /\ s.stack = m.stack /\ s.regs = m.regs
      /\ s.cg = m.cg /\ s.back = <<>>
  BY <1>2, <1>4 DEF Machine
<1>7. m' = apply_low(s, ob, caller, n, d)
  BY <1>1, <1>2, <1>4 DEF Fresh, Machine
<1> QED
  BY <1>1, <1>5, <1>6, <1>7, Applied

(* CallFunction keeps the invariant.                                       *)
LEMMA CallFunctionOk ==
  ASSUME Good(m), NEW ob \in Ids, NEW d \in Nat, CallFunction(ob, d)
  PROVE  Good(m') /\ Settled(m')
<1>1. PICK q, k : q = Append(m.acts, Act(m, k, 0)) /\ k = "apply"
  OBVIOUS
<1>2. m \in Machine /\ m.sp = m.sp + 0 /\ <<>> \in Outcomes /\ m.now = "lpc"
  BY DEF Good, Machine, Outcomes, CallFunction
<1>3. q \in CStack
  <2>1. Act(m, k, 0) \in Activation
    BY <1>1, <1>2, ActIs DEF ActKinds
  <2> QED
    BY <1>1, <1>2, <2>1, AppendProperties DEF Machine, CStack
<1>4. PICK s : s = [m EXCEPT !.back = <<>>, !.acts = q]
  OBVIOUS
<1>5. s \in Machine
  BY <1>2, <1>3, <1>4, Zenon DEF Machine
<1>6. /\ s.sp = m.sp /\ s.acts = q /\ s.csp = m.csp /\ s.stack = m.stack /\ s.regs = m.regs
      /\ s.cg = m.cg /\ s.back = <<>>
  BY <1>2, <1>4 DEF Machine
<1>7. m' = apply_low(s, ob, "DRIVER", 0, d)
  BY <1>1, <1>2, <1>4 DEF Fresh, Machine, CallFunction
<1>8. k \in {"apply", "command", "local"} /\ 0 \in Nat /\ "DRIVER" \in Callers
  BY <1>1 DEF Callers
<1> QED
  BY <1>1, <1>2, <1>5, <1>6, <1>7, <1>8, Applied

(* Command keeps the invariant.                                            *)
LEMMA CommandOk ==
  ASSUME Good(m), NEW ob \in Ids, NEW d \in Nat, Command(ob, d)
  PROVE  Good(m') /\ Settled(m')
<1>1. PICK h, q, k : h = m.sp + 1 /\ q = Append(m.acts, Act(m, k, 1)) /\ k = "command"
  OBVIOUS
<1>2. m \in Machine /\ h \in Int /\ <<>> \in Outcomes /\ m.now = "lpc"
  BY <1>1 DEF Good, Machine, Outcomes, Command
<1>3. q \in CStack
  <2>1. Act(m, k, 1) \in Activation
    BY <1>1, <1>2, ActIs DEF ActKinds
  <2> QED
    BY <1>1, <1>2, <2>1, AppendProperties DEF Machine, CStack
<1>4. PICK s : s = [m EXCEPT !.back = <<>>, !.sp = h, !.cg = ob, !.acts = q]
  OBVIOUS
<1>5. s \in Machine
  BY <1>2, <1>3, <1>4, Zenon DEF Machine
<1>6. /\ s.sp = h /\ s.acts = q /\ s.csp = m.csp /\ s.stack = m.stack /\ s.regs = m.regs
      /\ s.back = <<>>
  BY <1>2, <1>4 DEF Machine
<1>7. m' = apply_low(s, ob, "DRIVER", 1, d)
  BY <1>1, <1>2, <1>4 DEF Fresh, Machine, Command
<1>8. k \in {"apply", "command", "local"} /\ 1 \in Nat /\ "DRIVER" \in Callers
  BY <1>1 DEF Callers
<1> QED
  BY <1>1, <1>2, <1>5, <1>6, <1>7, <1>8, Applied

(* A C function that called nothing and left n values.                     *)
LEMMA CameToNothing ==
  ASSUME NEW s, Good(s), s.now = "lpc", NEW t \in Machine, NEW a \in Activation,
         a.before = Before(s), NEW x \in BOOLEAN, NEW n \in Nat,
         t.acts = Front(Append(s.acts, a)), t.cg = s.cg, t.csp = s.csp, t.stack = s.stack,
         t.regs = s.regs, t.now = s.now, t.sp = s.sp + n,
         t.back = <<[k |-> a.k, n |-> a.n, failed |-> x, left |-> n, before |-> a.before]>>
  PROVE  Good(t) /\ Settled(t)
<1>1. s \in Machine
  BY DEF Good
<1>2. t.acts = s.acts
  BY <1>1, FrontAppend DEF Machine, CStack
<1>3. Good(t)
  BY <1>1, <1>2, StillRunning
<1>4. /\ a.before.regs = s.regs /\ a.before.csp = s.csp /\ a.before.sp = s.sp
      /\ a.before.cg = s.cg
  BY DEF Before
<1> QED
  BY <1>3, <1>4 DEF Settled

(* ApplyMissing keeps the invariant.                                       *)
LEMMA ApplyMissingOk ==
  ASSUME Good(m), NEW n \in Nat, ApplyMissing(n)
  PROVE  Good(m') /\ Settled(m')
<1>1. PICK a, q, b : /\ a = Act(m, "apply", n) /\ q = Front(Append(m.acts, a))
                     /\ b = <<[k |-> a.k, n |-> a.n, failed |-> FALSE, left |-> 0, before |-> a.before]>>
  OBVIOUS
<1>2. m \in Machine /\ m.now = "lpc" /\ m.sp = m.sp + 0
  BY DEF Good, Machine, ApplyMissing
<1>3. a \in Activation /\ a.before = Before(m)
  BY <1>1, <1>2, ActIs DEF ActKinds
<1>4. q \in CStack
  BY <1>1, <1>2, <1>3, FrontAppend DEF Machine, CStack
<1>5. b \in Outcomes
  <2>1. [k |-> a.k, n |-> a.n, failed |-> FALSE, left |-> 0, before |-> a.before] \in Outcome
    BY <1>3 DEF Activation, Outcome
  <2> QED
    BY <1>1, <2>1 DEF Outcomes
<1>6. m' = [m EXCEPT !.back = b, !.acts = q]
  BY <1>1, <1>2 DEF ApplyMissing, Ended, Fresh, Machine
<1>7. m' \in Machine
  BY <1>2, <1>4, <1>5, <1>6, Zenon DEF Machine
<1>8. /\ m'.acts = q /\ m'.cg = m.cg /\ m'.csp = m.csp /\ m'.stack = m.stack
      /\ m'.regs = m.regs /\ m'.now = m.now /\ m'.sp = m.sp /\ m'.back = b
  BY <1>2, <1>6 DEF Machine
<1>9. PICK t, x, l : t = m' /\ x = FALSE /\ l = 0
  OBVIOUS
<1>10. x \in BOOLEAN /\ l \in Nat /\ t \in Machine
  BY <1>7, <1>9
<1>11. b = <<[k |-> a.k, n |-> a.n, failed |-> x, left |-> l, before |-> a.before]>>
  BY <1>1, <1>9, Zenon
<1>12. Good(t) /\ Settled(t)
  BY <1>1, <1>2, <1>3, <1>8, <1>9, <1>10, <1>11, CameToNothing
<1> QED
  BY <1>9, <1>12
-----------------------------------------------------------------------------
(* The safe_ functions save a context with their arguments on the stack.   *)
SafePushed(n) == [Fresh EXCEPT !.sp = @ + n]
SafeOpened(k, n) ==
    [SafePushed(n) EXCEPT !.acts = Append(@, save_context(SafePushed(n), Act(m, k, n)))]

(* A safe_ function with its arguments pushed and its context saved.       *)
LEMMA SafeCalled ==
  ASSUME Good(m), m.now = "lpc", NEW k \in {"safe_apply", "safe_funp"}, NEW n \in Nat, NEW s
  PROVE  s = SafeOpened(k, n)
         => /\ s \in Machine /\ Core(s) /\ Last(s.acts).k = k
            /\ s.csp = Last(s.acts).before.csp
            /\ s.sp = Last(s.acts).before.sp + n /\ s.back = <<>> /\ s.now = "lpc"
<1> HAVE s = SafeOpened(k, n)
<1>0. PICK p : p = SafePushed(n)
  OBVIOUS
<1>1. PICK h : h = m.sp + n
  OBVIOUS
<1>2. m \in Machine /\ h \in Int /\ <<>> \in Outcomes
  BY <1>1 DEF Good, Machine, Outcomes
<1>3. p = [m EXCEPT !.back = <<>>, !.sp = h]
  BY <1>0, <1>1, <1>2 DEF Fresh, Machine, SafePushed
<1>4. p \in Machine
  BY <1>2, <1>3, Zenon DEF Machine
<1>5. /\ p.sp = h /\ p.acts = m.acts /\ p.csp = m.csp /\ p.stack = m.stack /\ p.regs = m.regs
      /\ p.cg = m.cg /\ p.back = <<>> /\ p.now = m.now
  BY <1>2, <1>3 DEF Machine
<1>6. PICK a : a = save_context(p, Act(m, k, n))
  OBVIOUS
<1>7. k \in WithContext /\ k # "backend"
  BY DEF WithContext
<1>8. a \in Activation /\ a.k = k /\ a.before = Before(m) /\ HasContext(a)
  BY <1>1, <1>2, <1>4, <1>5, <1>6, <1>7, ContextIs
<1>9. PICK q : q = Append(m.acts, a)
  OBVIOUS
<1>10. q \in CStack
  BY <1>2, <1>8, <1>9, AppendProperties DEF Machine, CStack
<1>11. s = [p EXCEPT !.acts = q]
  BY <1>0, <1>4, <1>5, <1>6, <1>9 DEF Machine, SafeOpened
<1>12. s \in Machine
  BY <1>4, <1>10, <1>11, Zenon DEF Machine
<1>13. /\ s.sp = h /\ s.acts = q /\ s.csp = m.csp /\ s.stack = m.stack /\ s.regs = m.regs
       /\ s.cg = m.cg /\ s.back = <<>> /\ s.now = m.now
  BY <1>4, <1>5, <1>11 DEF Machine
<1>14. Core(s) /\ Last(s.acts) = a /\ s.csp = a.before.csp
  BY <1>2, <1>7, <1>8, <1>9, <1>12, <1>13, Called
<1>15. a.before.sp = m.sp
  BY <1>8 DEF Before
<1> QED
  BY <1>1, <1>8, <1>12, <1>13, <1>14, <1>15

(* Without room for a frame they leave their arguments on the stack.       *)
SafeEnded(k, n) ==
    Ended([SafePushed(n) EXCEPT !.acts = Append(@, Act(m, k, n))], Act(m, k, n), TRUE, n)

(* A safe_ function that finds no room for a frame.                        *)
LEMMA SafeTooDeep ==
  ASSUME Good(m), m.now = "lpc", NEW k \in {"safe_apply", "safe_funp"}, NEW n \in Nat, NEW t
  PROVE  t = SafeEnded(k, n) => Good(t) /\ Settled(t)
<1>0. HAVE t = SafeEnded(k, n)
<1>1. PICK h, a, q, x, b :
         /\ h = m.sp + n /\ a = Act(m, k, n) /\ q = Front(Append(m.acts, a)) /\ x = TRUE
         /\ b = <<[k |-> a.k, n |-> a.n, failed |-> x, left |-> n, before |-> a.before]>>
  OBVIOUS
<1>2. m \in Machine /\ h \in Int /\ x \in BOOLEAN
  BY <1>1 DEF Good, Machine
<1>3. a \in Activation /\ a.before = Before(m)
  BY <1>1, <1>2, ActIs DEF ActKinds
<1>4. q \in CStack
  BY <1>1, <1>2, <1>3, FrontAppend DEF Machine, CStack
<1>5. b \in Outcomes
  <2>1. [k |-> a.k, n |-> a.n, failed |-> x, left |-> n, before |-> a.before] \in Outcome
    BY <1>2, <1>3, Zenon DEF Activation, Outcome
  <2> QED
    BY <1>1, <2>1 DEF Outcomes
<1>6. t = [m EXCEPT !.back = b, !.sp = h, !.acts = q]
  BY <1>0, <1>1, <1>2 DEF Ended, Fresh, Machine, SafeEnded, SafePushed
<1>7. t \in Machine
  BY <1>2, <1>4, <1>5, <1>6, Zenon DEF Machine
<1>8. /\ t.acts = q /\ t.cg = m.cg /\ t.csp = m.csp /\ t.stack = m.stack
      /\ t.regs = m.regs /\ t.now = m.now /\ t.sp = h /\ t.back = b
  BY <1>2, <1>6 DEF Machine
<1> QED
  BY <1>1, <1>2, <1>3, <1>7, <1>8, CameToNothing

(* SafeApply keeps the invariant.                                          *)
LEMMA SafeApplyOk ==
  ASSUME Good(m), NEW ob \in Ids, NEW n \in Nat, NEW d \in Nat, SafeApply(ob, n, d)
  PROVE  Good(m') /\ Settled(m')
<1>1. PICK k : k = "safe_apply"
  OBVIOUS
<1>2. m.now = "lpc" /\ k \in {"safe_apply", "safe_funp"}
  BY <1>1 DEF SafeApply
<1>3. CASE TooDeep(m)
  <2>1. m' = SafeEnded(k, n)
    BY <1>1, <1>3 DEF SafeApply, SafeEnded, SafePushed
  <2> QED
    BY <1>2, <2>1, SafeTooDeep
<1>4. CASE ~TooDeep(m)
  <2>1. PICK s : s = SafeOpened(k, n)
    OBVIOUS
  <2>2. /\ s \in Machine /\ Core(s) /\ Last(s.acts).k = k /\ s.csp = Last(s.acts).before.csp
        /\ s.sp = Last(s.acts).before.sp + n /\ s.back = <<>>
    BY <1>2, <2>1, SafeCalled
  <2>3. Ready(s) /\ "DRIVER" \in Callers
    BY <1>1, <2>2 DEF Ready, OneFrame, Callers
  <2>4. m' = apply_low(s, ob, "DRIVER", n, d)
    BY <1>1, <1>4, <2>1 DEF SafeApply, SafeOpened, SafePushed
  <2> QED
    BY <2>2, <2>3, <2>4, ApplyLow DEF Settled
<1> QED
  BY <1>3, <1>4
-----------------------------------------------------------------------------
(* The last frame of a call within the object or of a function pointer.    *)
CodeFrame(s, kind, external, caller, n, d) ==
    [setup_variables(push_control_stack(s, kind, external), n, d) EXCEPT !.regs.caller = caller]

(* What a frame for code of the object itself leaves.                      *)
LEMMA CodeFrameIs ==
  ASSUME NEW s \in Machine, Core(s), Ready(s), ~TooDeep(s), NEW kind \in Kinds,
         NEW external \in BOOLEAN, NEW caller \in Callers, NEW n \in Nat, NEW d \in Nat,
         s.sp = Last(s.acts).before.sp + n
  PROVE  LET t == CodeFrame(s, kind, external, caller, n, d) IN Good(t) /\ t.back = s.back
<1>1. PICK f : f = setup_variables(push_control_stack(s, kind, external), n, d)
  OBVIOUS
<1>2. /\ f \in Machine /\ Unmoved(s, f) /\ f.csp = s.csp + 1 /\ f.regs.fp = s.sp - n + 1
      /\ f.stack[s.csp + 1].regs = s.regs
      /\ \A i \in 1 .. s.csp : f.stack[i].regs = s.stack[i].regs
  <2>1. Framed(s, f, n)
    BY <1>1, FrameIs
  <2> QED
    BY <2>1 DEF Framed
<1>3. f.regs \in Regs /\ s.sp \in Int /\ Last(s.acts).before.sp \in Int
  BY <1>2, TopOf DEF Machine, Core, Activation, Mark
<1>4. PICK r : r = [f.regs EXCEPT !.caller = caller]
  OBVIOUS
<1>5. r \in Regs
  BY <1>3, <1>4, Zenon DEF Regs
<1>6. r.fp = f.regs.fp
  BY <1>3, <1>4 DEF Regs
<1>7. PICK t : t = [f EXCEPT !.regs = r]
  OBVIOUS
<1>8. CodeFrame(s, kind, external, caller, n, d) = t
  BY <1>1, <1>2, <1>4, <1>7 DEF CodeFrame, Machine
<1>9. t \in Machine /\ Unmoved(f, t) /\ t.csp = f.csp /\ t.stack = f.stack /\ t.regs = r
  BY <1>2, <1>5, <1>7, RegsAre
<1>10. t.regs.fp = Last(s.acts).before.sp + 1
  BY <1>2, <1>3, <1>6, <1>9
<1>11. t.acts = s.acts /\ t.cg = s.cg /\ t.back = s.back
  BY <1>2, <1>9 DEF Unmoved
<1>12. Good(t)
  BY <1>2, <1>9, <1>10, <1>11, Entered
<1> QED
  BY <1>8, <1>11, <1>12

(* A C function without a context has been called with n arguments.        *)
PlainOpened(k, n) == [Fresh EXCEPT !.sp = @ + n, !.acts = Append(@, Act(m, k, n))]

(* A C function without a context, with its arguments pushed.              *)
LEMMA PlainCalled ==
  ASSUME Good(m), m.now = "lpc", NEW k \in {"local", "funp"}, NEW n \in Nat, NEW s
  PROVE  s = PlainOpened(k, n)
         => /\ s \in Machine /\ Core(s) /\ Last(s.acts).k = k
            /\ s.csp = Last(s.acts).before.csp /\ s.csp = m.csp
            /\ s.sp = Last(s.acts).before.sp + n /\ s.back = <<>> /\ s.now = "lpc"
<1> HAVE s = PlainOpened(k, n)
<1>1. PICK h, a, q : h = m.sp + n /\ a = Act(m, k, n) /\ q = Append(m.acts, a)
  OBVIOUS
<1>2. m \in Machine /\ h \in Int /\ <<>> \in Outcomes /\ k \in ActKinds
  BY <1>1 DEF Good, Machine, Outcomes, ActKinds
<1>3. a \in Activation /\ a.k = k /\ a.before = Before(m) /\ a.econ = <<>>
  BY <1>1, <1>2, ActIs
<1>4. a.k # "backend" /\ HasContext(a)
  BY <1>3 DEF HasContext, WithContext
<1>5. q \in CStack
  BY <1>1, <1>2, <1>3, AppendProperties DEF Machine, CStack
<1>6. s = [m EXCEPT !.back = <<>>, !.sp = h, !.acts = q]
  BY <1>1, <1>2 DEF PlainOpened, Fresh, Machine
<1>7. s \in Machine
  BY <1>2, <1>5, <1>6, Zenon DEF Machine
<1>8. /\ s.sp = h /\ s.acts = q /\ s.csp = m.csp /\ s.stack = m.stack /\ s.regs = m.regs
      /\ s.cg = m.cg /\ s.back = <<>> /\ s.now = m.now
  BY <1>2, <1>6 DEF Machine
<1>9. Core(s) /\ Last(s.acts) = a /\ s.csp = a.before.csp
  BY <1>1, <1>2, <1>3, <1>4, <1>7, <1>8, Called
<1>10. a.before.sp = m.sp
  BY <1>3 DEF Before
<1> QED
  BY <1>1, <1>3, <1>7, <1>8, <1>9, <1>10

(* CallLocal keeps the invariant.                                          *)
LEMMA CallLocalOk ==
  ASSUME Good(m), NEW n \in Nat, NEW d \in Nat, CallLocal(n, d)
  PROVE  Good(m') /\ Settled(m')
<1>1. PICK k, s : k = "local" /\ s = PlainOpened(k, n)
  OBVIOUS
<1>2. m.now = "lpc" /\ k \in {"local", "funp"}
  BY <1>1 DEF CallLocal, Running
<1>3. /\ s \in Machine /\ Core(s) /\ Last(s.acts).k = k /\ s.csp = m.csp
      /\ s.csp = Last(s.acts).before.csp /\ s.sp = Last(s.acts).before.sp + n /\ s.back = <<>>
  BY <1>1, <1>2, PlainCalled
<1>4. CASE TooDeep(m)
  <2>1. m' = Deeper(s)
    BY <1>1, <1>4 DEF CallLocal, PlainOpened
  <2> QED
    BY <1>3, <2>1, DeeperIs DEF Settled
<1>5. CASE ~TooDeep(m)
  <2>1. PICK x \in BOOLEAN, f \in Kinds, c \in Callers : x = FALSE /\ f = "FUNCTION" /\ c = "LOCAL"
    BY DEF Kinds, Callers
  <2>2. Ready(s) /\ ~TooDeep(s)
    BY <1>1, <1>3, <1>5 DEF Ready, OneFrame, TooDeep
  <2>3. m' = CodeFrame(s, f, x, c, n, d)
    BY <1>1, <1>5, <2>1, Zenon DEF CallLocal, PlainOpened, CodeFrame
  <2> QED
    BY <1>3, <2>2, <2>3, CodeFrameIs DEF Settled
<1> QED
  BY <1>4, <1>5

(* What setup_fake_frame() leaves.                                         *)
LEMMA FakeFrameIs ==
  ASSUME NEW s \in Machine, Core(s), ~TooDeep(s), Last(s.acts).k \in TwoFrames,
         s.csp = Last(s.acts).before.csp, NEW owner \in Ids
  PROVE  LET t == setup_fake_frame(s, owner) IN
         /\ t \in Machine /\ Core(t) /\ Unmoved(s, t) /\ Ready(t) /\ t.csp = s.csp + 1 /\ t.sp = s.sp
         /\ t.stack[s.csp + 1].regs = s.regs
         /\ \A i \in 1 .. s.csp : t.stack[i].regs = s.stack[i].regs
<1>1. PICK x \in BOOLEAN, k \in Kinds : x = FALSE /\ k = "FAKE"
  BY DEF Kinds
<1>2. PICK f : f = push_control_stack(s, k, x)
  OBVIOUS
<1>3. /\ f \in Machine /\ Unmoved(s, f) /\ f.csp = s.csp + 1 /\ f.sp = s.sp /\ f.regs = s.regs
      /\ f.stack[s.csp + 1].regs = s.regs
      /\ \A i \in 1 .. s.csp : f.stack[i].regs = s.stack[i].regs
  BY <1>2, PushIs
<1>4. f.regs \in Regs /\ s.regs.ob \in Ids /\ "FUNCTION_POINTER" \in Callers
  BY <1>3 DEF Machine, Regs, Callers
<1>5. PICK r : r = [f.regs EXCEPT !.prev = s.regs.ob, !.ob = owner, !.caller = "FUNCTION_POINTER"]
  OBVIOUS
<1>6. r \in Regs
  BY <1>4, <1>5, Zenon DEF Regs
<1>7. PICK t : t = [f EXCEPT !.regs = r]
  OBVIOUS
<1>8. setup_fake_frame(s, owner) = t
  <2>1. f = push_control_stack(s, "FAKE", FALSE)
    BY <1>1, <1>2, Zenon
  <2> QED
    BY <2>1, <1>3, <1>5, <1>7 DEF setup_fake_frame, Machine
<1>9. t \in Machine /\ Unmoved(f, t) /\ t.csp = f.csp /\ t.sp = f.sp /\ t.stack = f.stack
  BY <1>3, <1>6, <1>7, RegsAre
<1>10. Unmoved(s, t) /\ t.acts = s.acts /\ t.cg = s.cg
  BY <1>3, <1>9 DEF Unmoved
<1>11. s.csp \in Nat /\ t.csp - Last(s.acts).before.csp \in FrameCount(Last(s.acts))
  BY <1>3, <1>9, Heights DEF Core, FrameCount, TwoFrames
<1>12. Core(t)
  BY <1>3, <1>9, <1>10, <1>11, FramePushed
<1>13. Ready(t)
  BY <1>3, <1>9, <1>10 DEF Ready
<1> QED
  BY <1>3, <1>8, <1>9, <1>10, <1>12, <1>13
-----------------------------------------------------------------------------
(* A C function that is over leaves its caller as it was.                  *)
LEMMA EndedIs ==
  ASSUME NEW s \in Machine, Bottom(s), NEW a \in Activation, NEW x \in BOOLEAN, NEW n \in Nat
  PROVE  LET t == Ended(s, a, x, n) IN
         /\ t \in Machine /\ t.acts = Front(s.acts) /\ t.csp = s.csp /\ t.sp = s.sp
         /\ t.regs = s.regs /\ t.stack = s.stack /\ t.cg = s.cg /\ t.now = s.now
         /\ t.back = <<[k |-> a.k, n |-> a.n, failed |-> x, left |-> n, before |-> a.before]>>
<1>1. PICK b, q : /\ b = <<[k |-> a.k, n |-> a.n, failed |-> x, left |-> n, before |-> a.before]>>
                  /\ q = Front(s.acts)
  OBVIOUS
<1>2. b \in Outcomes
  <2>1. [k |-> a.k, n |-> a.n, failed |-> x, left |-> n, before |-> a.before] \in Outcome
    BY Zenon DEF Activation, Outcome
  <2> QED
    BY <1>1, <2>1 DEF Outcomes
<1>3. q \in CStack
  BY <1>1, FrontIs DEF Machine, CStack, Bottom
<1>4. PICK t : t = [s EXCEPT !.acts = q, !.back = b]
  OBVIOUS
<1>5. Ended(s, a, x, n) = t
  BY <1>1, <1>4 DEF Ended, Machine
<1>6. t \in Machine
  BY <1>2, <1>3, <1>4, Zenon DEF Machine
<1>7. /\ t.acts = q /\ t.csp = s.csp /\ t.sp = s.sp /\ t.regs = s.regs /\ t.stack = s.stack
      /\ t.cg = s.cg /\ t.now = s.now /\ t.back = b
  BY <1>4 DEF Machine
<1> QED
  BY <1>1, <1>5, <1>6, <1>7

(* A C function that ends with its own registers and frames, and n values  *)
(* more on the stack than before, is one that went well.                   *)
LEMMA Returned ==
  ASSUME NEW s \in Machine, Core(s), NEW a \in Activation, a = Last(s.acts),
         a.k # "backend", a.k # "handler", s.csp = a.before.csp,
         a.k = "command" => s.cg = a.before.cg,
         NEW x \in BOOLEAN, NEW n \in Nat, s.sp = a.before.sp + n
  PROVE  Good(Ended(s, a, x, n)) /\ Settled(Ended(s, a, x, n))
<1>1. PICK t : t = Ended(s, a, x, n)
  OBVIOUS
<1>2. Bottom(s)
  BY DEF Core
<1>3. /\ t \in Machine /\ t.acts = Front(s.acts) /\ t.csp = s.csp /\ t.sp = s.sp
      /\ t.regs = s.regs /\ t.stack = s.stack /\ t.cg = s.cg
      /\ t.back = <<[k |-> a.k, n |-> a.n, failed |-> x, left |-> n, before |-> a.before]>>
  BY <1>1, <1>2, EndedIs
<1>4. s.cg = a.before.cg
  <2>1. Len(s.acts) \in Nat \ {0} /\ a = s.acts[Len(s.acts)]
    BY Heights DEF Core
  <2>2. Followed(s, Len(s.acts)).cg = s.cg
    BY DEF Followed, Before
  <2> QED
    BY <2>1, <2>2 DEF Core, Giver
<1>5. Core(t) /\ s.regs = a.before.regs /\ InCode(Last(t.acts), Before(t))
  BY <1>3, <1>4, Closed
<1> QED
  BY <1>1, <1>3, <1>4, <1>5 DEF Good, Settled
-----------------------------------------------------------------------------
(* Function pointers.                                                      *)
LEMMA HeightIs ==
  ASSUME NEW s \in Machine, NEW h \in Int
  PROVE  LET t == [s EXCEPT !.sp = h] IN
         /\ t \in Machine /\ t.sp = h /\ t.acts = s.acts /\ t.csp = s.csp /\ t.regs = s.regs
         /\ t.stack = s.stack /\ t.cg = s.cg /\ t.now = s.now /\ t.back = s.back
<1>1. PICK t : t = [s EXCEPT !.sp = h]
  OBVIOUS
<1>2. t \in Machine
  BY <1>1, Zenon DEF Machine
<1>3. /\ t.sp = h /\ t.acts = s.acts /\ t.csp = s.csp /\ t.regs = s.regs
      /\ t.stack = s.stack /\ t.cg = s.cg /\ t.now = s.now /\ t.back = s.back
  BY <1>1 DEF Machine
<1> QED
  BY <1>1, <1>2, <1>3

(* A frame that is above those of before is popped.                        *)
LEMMA PopCore ==
  ASSUME NEW s \in Machine, Core(s), s.csp > Last(s.acts).before.csp, NEW t, t = pop_control_stack(s)
  PROVE  /\ t \in Machine /\ Core(t) /\ Unmoved(s, t) /\ t.csp = s.csp - 1 /\ t.sp = s.sp
         /\ s.csp \in Nat \ {0}
<1>1. s.csp \in Nat /\ Last(s.acts).before.csp \in Nat
  BY Heights DEF Core
<1>2. s.csp # 0 /\ s.stack[s.csp].regs \in Regs
  BY <1>1 DEF Core, Live
<1>3. /\ t \in Machine /\ Unmoved(s, t) /\ t.csp = s.csp - 1 /\ t.sp = s.sp
      /\ t.regs = s.stack[s.csp].regs
      /\ \A i \in 1 .. t.csp : t.stack[i].regs = s.stack[i].regs
  BY <1>2, PopIs
<1>4. t.acts = s.acts /\ t.cg = s.cg
  BY <1>3 DEF Unmoved
<1>5. Core(t)
  BY <1>3, <1>4, Popped
<1> QED
  BY <1>1, <1>2, <1>3, <1>5

(* call_function_pointer(), whatever the pointer points to.                *)
LEMMA PointerCall ==
  ASSUME NEW s \in Machine, Core(s), Last(s.acts).k \in TwoFrames,
         s.csp = Last(s.acts).before.csp, NEW n \in Nat, s.sp = Last(s.acts).before.sp + n,
         s.back = <<>>, NEW owner \in Ids, NEW d \in Nat, NEW type \in PointerTypes
  PROVE  LET t == call_function_pointer(s, owner, n, d, type) IN Good(t) /\ Settled(t)
<1>1. PICK t : t = call_function_pointer(s, owner, n, d, type)
  OBVIOUS
<1>2. PICK f : f = setup_fake_frame(s, owner)
  OBVIOUS
<1>3. PICK a : a = Last(s.acts)
  OBVIOUS
<1>4. a \in Activation /\ a.k # "backend" /\ a.k # "handler" /\ a.k # "command"
      /\ a.before.sp \in Int /\ s.csp \in Nat
  BY <1>3, TopOf, Heights DEF Core, TwoFrames, Activation, Mark
<1>5. CASE type = "owner destructed"
  <2>1. t = [s EXCEPT !.now = "raise"]
    BY <1>1, <1>5 DEF call_function_pointer
  <2>2. "raise" \in Phase
    BY DEF Phase
  <2>3. t \in Machine
    BY <2>1, <2>2, Zenon DEF Machine
  <2>4. /\ t.acts = s.acts /\ t.cg = s.cg /\ t.csp = s.csp /\ t.stack = s.stack
        /\ t.regs = s.regs /\ t.now = "raise" /\ t.back = <<>>
    BY <2>1 DEF Machine
  <2> QED
    BY <1>1, <2>3, <2>4, Raised DEF Settled
<1>6. CASE type # "owner destructed" /\ TooDeep(s)
  <2>1. t = Deeper(s)
    BY <1>1, <1>6 DEF call_function_pointer
  <2> QED
    BY <1>1, <2>1, DeeperIs DEF Settled
<1>7. CASE type # "owner destructed" /\ ~TooDeep(s)
  <2>1. /\ f \in Machine /\ Core(f) /\ Unmoved(s, f) /\ Ready(f) /\ f.csp = s.csp + 1
        /\ f.sp = s.sp /\ f.stack[s.csp + 1].regs = s.regs
    BY <1>2, <1>7, FakeFrameIs
  <2>2. f.acts = s.acts /\ f.cg = s.cg /\ f.back = <<>>
    BY <2>1 DEF Unmoved
  <2>3. CASE type = "efun"
    <3>1. PICK p : p = pop_control_stack(f)
      OBVIOUS
    <3>2. f.csp > Last(f.acts).before.csp
      BY <1>4, <2>1, <2>2
    <3>3. p \in Machine /\ Core(p) /\ Unmoved(f, p) /\ p.csp = s.csp /\ p.sp = s.sp
      BY <1>4, <2>1, <3>1, <3>2, PopCore
    <3>4. PICK h : h = p.sp - n
      OBVIOUS
    <3>5. h = a.before.sp + 0 /\ h \in Int /\ 0 \in Nat
      BY <1>3, <1>4, <3>3, <3>4
    <3>6. PICK q : q = [p EXCEPT !.sp = h]
      OBVIOUS
    <3>7. /\ q \in Machine /\ q.sp = h /\ q.acts = p.acts /\ q.csp = p.csp /\ q.regs = p.regs
          /\ q.stack = p.stack /\ q.cg = p.cg
      BY <3>3, <3>5, <3>6, HeightIs
    <3>8. Core(q)
      BY <3>3, <3>7, Steady
    <3>9. q.acts = s.acts /\ q.csp = s.csp
      BY <2>2, <3>3, <3>7 DEF Unmoved
    <3>10. PICK x \in BOOLEAN : x = FALSE
      OBVIOUS
    <3>11. Good(Ended(q, a, x, 0)) /\ Settled(Ended(q, a, x, 0))
      BY <1>3, <1>4, <3>5, <3>7, <3>8, <3>9, Returned
    <3>12. t = Ended(q, a, FALSE, 0)
      BY <1>1, <1>2, <1>3, <1>7, <2>3, <3>1, <3>3, <3>4, <3>6 DEF call_function_pointer, EfunPointer, Machine
    <3>13. t = Ended(q, a, x, 0)
      BY <3>10, <3>12, Zenon
    <3> QED
      BY <1>1, <3>11, <3>13
  <2>4. CASE type = "failing efun"
    <3>1. t = [f EXCEPT !.now = "raise"]
      BY <1>1, <1>2, <1>7, <2>4 DEF call_function_pointer, EfunPointer
    <3>2. "raise" \in Phase
      BY DEF Phase
    <3>3. t \in Machine
      BY <2>1, <3>1, <3>2, Zenon DEF Machine
    <3>4. /\ t.acts = f.acts /\ t.cg = f.cg /\ t.csp = f.csp /\ t.stack = f.stack
          /\ t.regs = f.regs /\ t.now = "raise" /\ t.back = <<>>
      BY <2>1, <2>2, <3>1 DEF Machine
    <3> QED
      BY <1>1, <2>1, <3>3, <3>4, Raised DEF Settled
  <2>5. CASE type = "simul"
    <3>1. t = apply_low(f, owner, "SIMUL_EFUN", n, d)
      BY <1>1, <1>2, <1>7, <2>5 DEF call_function_pointer, SimulPointer
    <3>2. "SIMUL_EFUN" \in Callers
      BY DEF Callers
    <3> QED
      BY <1>1, <2>1, <2>2, <3>1, <3>2, ApplyLow DEF Settled
  <2>6. CASE type \in {"local", "functional"}
    <3>1. PICK k \in Kinds, c \in Callers :
            t = CodePointer(s, owner, n, d, k) /\ c = IF k = "FUNP" THEN "FUNCTIONAL" ELSE "LOCAL"
      BY <1>1, <1>7, <2>6 DEF call_function_pointer, Kinds, Callers
    <3>2. CASE TooDeep(f)
      <4>1. t = Deeper(f)
        BY <1>2, <3>1, <3>2 DEF CodePointer
      <4> QED
        BY <1>1, <2>1, <2>2, <4>1, DeeperIs DEF Settled
    <3>3. CASE ~TooDeep(f)
      <4>1. PICK x \in BOOLEAN : x = TRUE
        OBVIOUS
      <4>2. t = CodeFrame(f, k, x, c, n, d)
        BY <1>2, <3>1, <3>3, <4>1, Zenon DEF CodePointer, CodeFrame
      <4> QED
        BY <1>1, <2>1, <2>2, <3>3, <4>2, CodeFrameIs DEF Settled
    <3> QED
      BY <3>2, <3>3
  <2> QED
    BY <1>7, <2>3, <2>4, <2>5, <2>6 DEF PointerTypes
<1> QED
  BY <1>5, <1>6, <1>7

(* CallFunctionPointer keeps the invariant.                                *)
LEMMA CallFunctionPointerOk ==
  ASSUME Good(m), NEW owner \in Ids, NEW n \in Nat, NEW d \in Nat, NEW type \in PointerTypes,
         CallFunctionPointer(owner, n, d, type)
  PROVE  Good(m') /\ Settled(m')
<1>1. PICK k, s : k = "funp" /\ s = PlainOpened(k, n)
  OBVIOUS
<1>2. m.now = "lpc" /\ k \in {"local", "funp"} /\ k \in TwoFrames
  BY <1>1 DEF CallFunctionPointer, TwoFrames
<1>3. /\ s \in Machine /\ Core(s) /\ Last(s.acts).k = k
      /\ s.csp = Last(s.acts).before.csp /\ s.sp = Last(s.acts).before.sp + n /\ s.back = <<>>
  BY <1>1, <1>2, PlainCalled
<1>4. m' = call_function_pointer(s, owner, n, d, type)
  BY <1>1 DEF CallFunctionPointer, PlainOpened
<1> QED
  BY <1>2, <1>3, <1>4, PointerCall

(* SafeCallFunctionPointer keeps the invariant.                            *)
LEMMA SafeCallFunctionPointerOk ==
  ASSUME Good(m), NEW owner \in Ids, NEW n \in Nat, NEW d \in Nat, NEW type \in PointerTypes,
         SafeCallFunctionPointer(owner, n, d, type)
  PROVE  Good(m') /\ Settled(m')
<1>1. PICK k : k = "safe_funp"
  OBVIOUS
<1>2. m.now = "lpc" /\ k \in {"safe_apply", "safe_funp"} /\ k \in TwoFrames
  BY <1>1 DEF SafeCallFunctionPointer, TwoFrames
<1>3. CASE TooDeep(m)
  <2>1. m' = SafeEnded(k, n)
    BY <1>1, <1>3 DEF SafeCallFunctionPointer, SafeEnded, SafePushed
  <2> QED
    BY <1>2, <2>1, SafeTooDeep
<1>4. CASE ~TooDeep(m)
  <2>1. PICK s : s = SafeOpened(k, n)
    OBVIOUS
  <2>2. /\ s \in Machine /\ Core(s) /\ Last(s.acts).k = k /\ s.csp = Last(s.acts).before.csp
        /\ s.sp = Last(s.acts).before.sp + n /\ s.back = <<>>
    BY <1>2, <2>1, SafeCalled
  <2>3. m' = call_function_pointer(s, owner, n, d, type)
    BY <1>1, <1>4, <2>1 DEF SafeCallFunctionPointer, SafeOpened, SafePushed
  <2> QED
    BY <1>2, <2>2, <2>3, PointerCall
<1> QED
  BY <1>3, <1>4
-----------------------------------------------------------------------------
(* The machine with other heights, flags and command giver.                *)
LEMMA Lowered ==
  ASSUME NEW s \in Machine, Core(s), NEW t, NEW h \in Int, t = [s EXCEPT !.sp = h]
  PROVE  /\ t \in Machine /\ Core(t) /\ t.sp = h /\ t.acts = s.acts /\ t.csp = s.csp
         /\ t.cg = s.cg /\ t.back = s.back /\ t.now = s.now
<1>1. /\ t \in Machine /\ t.sp = h /\ t.acts = s.acts /\ t.csp = s.csp /\ t.regs = s.regs
      /\ t.stack = s.stack /\ t.cg = s.cg /\ t.now = s.now /\ t.back = s.back
  BY HeightIs
<1> QED
  BY <1>1, Steady

(* The C code behind the frame that was popped goes on.                    *)
LEMMA GoOnOk ==
  ASSUME NEW s \in Machine, Core(s), NEW a \in Activation, a = Last(s.acts),
         a.k \in OneFrame \cup TwoFrames, s.sp = a.before.sp + 1, s.back = <<>>,
         a.k \in OneFrame => s.csp = a.before.csp,
         a.k \in TwoFrames => s.csp = a.before.csp + 1
  PROVE  Good(GoOn(s)) /\ Settled(GoOn(s))
<1>1. PICK x \in BOOLEAN : x = FALSE
  OBVIOUS
<1>2. a.before.sp \in Int /\ a.before.cg \in Ids /\ s.csp \in Nat /\ 0 \in Nat /\ 1 \in Nat
      /\ a.before.csp \in Nat
  BY Heights, EvaluationAssumption DEF Core, Activation, Mark
<1>3. PICK h : h = s.sp - 1
  OBVIOUS
<1>4. h = a.before.sp + 0 /\ h \in Int
  BY <1>2, <1>3
<1>5. PICK l : l = [s EXCEPT !.sp = h]
  OBVIOUS
<1>6. /\ l \in Machine /\ Core(l) /\ l.sp = h /\ l.acts = s.acts /\ l.csp = s.csp
      /\ l.cg = s.cg /\ l.back = <<>>
  BY <1>4, <1>5, Lowered
<1>7. CASE a.k = "local"
  <2>1. Good(Ended(s, a, x, 1)) /\ Settled(Ended(s, a, x, 1))
    BY <1>2, <1>7, Returned DEF OneFrame
  <2>2. GoOn(s) = Ended(s, a, FALSE, 1)
    BY <1>7 DEF GoOn
  <2>3. GoOn(s) = Ended(s, a, x, 1)
    BY <1>1, <2>2, Zenon
  <2> QED
    BY <2>1, <2>3
<1>8. CASE a.k \in {"apply", "safe_apply"}
  <2>1. Good(Ended(l, a, x, 0)) /\ Settled(Ended(l, a, x, 0))
    BY <1>2, <1>4, <1>6, <1>8, Returned DEF OneFrame
  <2>2. GoOn(s) = Ended(l, a, FALSE, 0)
    BY <1>3, <1>5, <1>8 DEF GoOn
  <2>3. GoOn(s) = Ended(l, a, x, 0)
    BY <1>1, <2>2, Zenon
  <2> QED
    BY <2>1, <2>3
<1>9. CASE a.k = "command"
  <2>1. PICK c : c = a.before.cg
    OBVIOUS
  <2>2. PICK u : u = [s EXCEPT !.sp = h, !.cg = c]
    OBVIOUS
  <2>3. u \in Machine
    BY <1>2, <1>4, <2>1, <2>2, Zenon DEF Machine
  <2>4. /\ u.sp = h /\ u.acts = s.acts /\ u.csp = s.csp /\ u.regs = s.regs
        /\ u.stack = s.stack /\ u.cg = c
    BY <2>2 DEF Machine
  <2>5. Core(u)
    BY <1>9, <2>3, <2>4, Steady
  <2>6. Good(Ended(u, a, x, 0)) /\ Settled(Ended(u, a, x, 0))
    BY <1>2, <1>4, <1>9, <2>1, <2>3, <2>4, <2>5, Returned DEF OneFrame
  <2>7. GoOn(s) = Ended(u, a, FALSE, 0)
    BY <1>3, <1>9, <2>1, <2>2 DEF GoOn
  <2>8. GoOn(s) = Ended(u, a, x, 0)
    BY <1>1, <2>7, Zenon
  <2> QED
    BY <2>6, <2>8
<1>10. CASE a.k \in TwoFrames
  <2>1. PICK p : p = pop_control_stack(l)
    OBVIOUS
  <2>2. l.csp > Last(l.acts).before.csp
    BY <1>2, <1>6, <1>10
  <2>3. p \in Machine /\ Core(p) /\ Unmoved(l, p) /\ p.csp = l.csp - 1 /\ p.sp = h
    BY <1>6, <2>1, <2>2, PopCore
  <2>4. p.acts = s.acts /\ p.csp = a.before.csp
    BY <1>2, <1>6, <1>10, <2>3 DEF Unmoved
  <2>5. a.k # "backend" /\ a.k # "handler" /\ a.k # "command"
    BY <1>10 DEF TwoFrames
  <2>6. Good(Ended(p, a, x, 0)) /\ Settled(Ended(p, a, x, 0))
    BY <1>2, <1>4, <2>3, <2>4, <2>5, Returned
  <2>7. GoOn(s) = Ended(p, a, FALSE, 0)
    BY <1>3, <1>5, <1>10, <2>1 DEF GoOn, TwoFrames
  <2>8. GoOn(s) = Ended(p, a, x, 0)
    BY <1>1, <2>7, Zenon
  <2> QED
    BY <2>6, <2>8
<1>11. CASE a.k = "handler"
  <2>1. PICK k, u : k = s.handling - 1 /\ u = GoOn(s)
    OBVIOUS
  <2>2. u = [s EXCEPT !.sp = h, !.handling = k, !.now = "jump"]
    BY <1>3, <1>11, <2>1 DEF GoOn
  <2>3. k \in Int /\ "jump" \in Phase
    BY <2>1 DEF Machine, Phase
  <2>4. u \in Machine
    BY <1>4, <2>2, <2>3, Zenon DEF Machine
  <2>5. /\ u.acts = s.acts /\ u.cg = s.cg /\ u.csp = s.csp /\ u.stack = s.stack
        /\ u.regs = s.regs /\ u.now = "jump" /\ u.back = <<>>
    BY <2>2 DEF Machine
  <2> QED
    BY <2>1, <2>4, <2>5, Raised DEF Settled
<1> QED
  BY <1>7, <1>8, <1>9, <1>10, <1>11 DEF OneFrame

(* Return keeps the invariant.                                             *)
LEMMA ReturnOk == ASSUME Good(m), Return PROVE Good(m') /\ Settled(m')
<1>1. PICK a, h, f : a = Last(m.acts) /\ f = m.stack[m.csp] /\ h = m.sp + 1 - f.nlocals
  OBVIOUS
<1>2. m \in Machine /\ Core(m) /\ InCode(a, Before(m)) /\ <<>> \in Outcomes
  BY <1>1 DEF Return, Running, Good, Outcomes
<1>3. /\ a \in Activation /\ a.before.csp \in Nat /\ a.before.sp \in Int
      /\ m.csp \in Nat /\ m.csp <= MaxCallDepth
  BY <1>1, <1>2, TopOf, Heights, EvaluationAssumption DEF Core, Activation, Mark, Machine
<1>4. a.k \in OneFrame \cup TwoFrames
  BY <1>1, <1>3 DEF Return, Running, Top, Activation, ActKinds, OneFrame, TwoFrames
<1>5. /\ a.k \in OneFrame => m.csp = a.before.csp + 1
      /\ a.k \in TwoFrames => m.csp = a.before.csp + 2
      /\ m.regs.fp = a.before.sp + 1
  <2>1. Before(m).csp = m.csp /\ Before(m).regs = m.regs
    BY DEF Before
  <2> QED
    BY <1>2, <1>4, <2>1 DEF InCode, OneFrame, TwoFrames
<1>6. m.csp # 0 /\ m.csp \in 1 .. MaxCallDepth
  BY <1>3, <1>4, <1>5
<1>7. f.nlocals \in Int /\ m.sp \in Int
  BY <1>1, <1>2, <1>6 DEF Machine, Stack, Frame
<1>8. m.sp = m.regs.fp + f.nlocals - 1
  BY <1>1 DEF Return, Base, Top
<1>9. h = a.before.sp + 1 /\ h \in Int
  BY <1>1, <1>3, <1>5, <1>7, <1>8
<1>10. PICK u : u = [m EXCEPT !.back = <<>>, !.sp = h]
  OBVIOUS
<1>11. u \in Machine
  BY <1>2, <1>9, <1>10, Zenon DEF Machine
<1>12. /\ u.sp = h /\ u.acts = m.acts /\ u.csp = m.csp /\ u.regs = m.regs
       /\ u.stack = m.stack /\ u.cg = m.cg /\ u.back = <<>>
  BY <1>2, <1>10 DEF Machine
<1>13. Core(u)
  BY <1>2, <1>11, <1>12, Steady
<1>14. PICK p : p = pop_control_stack(u)
  OBVIOUS
<1>15. u.csp > Last(u.acts).before.csp
  BY <1>1, <1>3, <1>4, <1>5, <1>12
<1>16. p \in Machine /\ Core(p) /\ Unmoved(u, p) /\ p.csp = u.csp - 1 /\ p.sp = h
  BY <1>11, <1>12, <1>13, <1>14, <1>15, PopCore
<1>17. m' = GoOn(p)
  BY <1>1, <1>2, <1>10, <1>14 DEF Return, Fresh, Machine
<1>18. /\ a = Last(p.acts) /\ p.sp = a.before.sp + 1 /\ p.back = <<>>
       /\ a.k \in OneFrame => p.csp = a.before.csp
       /\ a.k \in TwoFrames => p.csp = a.before.csp + 1
  BY <1>1, <1>3, <1>5, <1>9, <1>12, <1>16 DEF Unmoved
<1> QED
  BY <1>3, <1>4, <1>16, <1>17, <1>18, GoOnOk
-----------------------------------------------------------------------------
(* catch().                                                                *)
LEMMA CatchOk == ASSUME Good(m), do_catch PROVE Good(m') /\ Settled(m')
<1>1. m \in Machine /\ m.now = "lpc" /\ <<>> \in Outcomes
  BY DEF Good, do_catch, Running, Outcomes
<1>2. CASE TooDeep(m)
  <2>1. PICK p \in Phase : p = "raise"
    BY DEF Phase
  <2>2. m' = [m EXCEPT !.back = <<>>, !.now = p]
    BY <1>1, <1>2, <2>1 DEF do_catch, Fresh, Machine
  <2> QED
    BY <2>1, <2>2, FailingOnly
<1>3. CASE ~TooDeep(m)
  <2>1. PICK k, z : k = "catch" /\ z = 0
    OBVIOUS
  <2>2. PICK a, q : a = save_context(m, Act(m, k, z)) /\ q = Append(m.acts, a)
    OBVIOUS
  <2>3. k \in WithContext /\ z \in Nat /\ k \notin {"safe_apply", "safe_funp"}
    BY <2>1 DEF WithContext
  <2>4. a \in Activation /\ a.k = k /\ a.before = Before(m) /\ HasContext(a)
    BY <1>1, <2>2, <2>3, ContextIs
  <2>5. q \in CStack
    BY <1>1, <2>2, <2>4, AppendProperties DEF Machine, CStack
  <2>6. PICK s : s = [m EXCEPT !.back = <<>>, !.acts = q]
    OBVIOUS
  <2>7. s \in Machine
    BY <1>1, <2>5, <2>6, Zenon DEF Machine
  <2>8. /\ s.acts = q /\ s.csp = m.csp /\ s.stack = m.stack /\ s.regs = m.regs
        /\ s.cg = m.cg /\ s.back = <<>> /\ s.now = m.now
    BY <1>1, <2>6 DEF Machine
  <2>9. Core(s) /\ Last(s.acts) = a /\ s.csp = a.before.csp
    BY <1>1, <2>1, <2>2, <2>4, <2>7, <2>8, Called
  <2>10. PICK x \in BOOLEAN, f \in Kinds : x = TRUE /\ f = "CATCH"
    BY DEF Kinds
  <2>11. PICK t : t = push_control_stack(s, f, x)
    OBVIOUS
  <2>12. ~TooDeep(s) /\ s.csp \in Nat
    BY <1>3, <2>7, <2>8, EvaluationAssumption DEF TooDeep, Machine
  <2>13. /\ t \in Machine /\ Unmoved(s, t) /\ t.csp = s.csp + 1
         /\ t.stack[s.csp + 1].regs = s.regs
         /\ \A i \in 1 .. s.csp : t.stack[i].regs = s.stack[i].regs
    BY <2>7, <2>11, <2>12, PushIs
  <2>14. t.acts = s.acts /\ t.cg = s.cg /\ t.back = <<>>
    BY <2>8, <2>13 DEF Unmoved
  <2>15. t.csp - a.before.csp \in FrameCount(a)
    BY <2>1, <2>4, <2>9, <2>12, <2>13 DEF FrameCount
  <2>16. Core(t)
    BY <2>7, <2>9, <2>13, <2>14, <2>15, FramePushed
  <2>17. InCode(a, Before(t))
    BY <2>1, <2>4, <2>9, <2>13 DEF InCode, Before
  <2>18. m' = push_control_stack(s, "CATCH", TRUE)
    BY <1>1, <1>3, <2>1, <2>2, <2>6 DEF do_catch, Fresh, Machine
  <2>19. m' = t
    BY <2>10, <2>11, <2>18, Zenon
  <2> QED
    BY <2>9, <2>13, <2>14, <2>16, <2>17, <2>19 DEF Good, Settled
<1> QED
  BY <1>2, <1>3

(* EndCatch keeps the invariant.                                           *)
LEMMA EndCatchOk == ASSUME Good(m), EndCatch PROVE Good(m') /\ Settled(m')
<1>1. PICK a : a = Last(m.acts)
  OBVIOUS
<1>2. /\ m \in Machine /\ Core(m) /\ InCode(a, Before(m)) /\ <<>> \in Outcomes
      /\ a.k = "catch" /\ m.sp = a.before.sp
  BY <1>1 DEF EndCatch, Running, Good, Outcomes, Base, Top
<1>3. a \in Activation /\ a.before.csp \in Nat /\ a.before.sp \in Int /\ 1 \in Nat
  BY <1>1, <1>2, TopOf, Heights, EvaluationAssumption DEF Core, Activation, Mark
<1>4. m.csp = a.before.csp + 1
  BY <1>2 DEF InCode, Before
<1>5. PICK u : u = [m EXCEPT !.back = <<>>]
  OBVIOUS
<1>6. u \in Machine
  BY <1>2, <1>5, Zenon DEF Machine
<1>7. /\ u.sp = m.sp /\ u.acts = m.acts /\ u.csp = m.csp /\ u.regs = m.regs
      /\ u.stack = m.stack /\ u.cg = m.cg
  BY <1>2, <1>5 DEF Machine
<1>8. Core(u)
  BY <1>2, <1>6, <1>7, Steady
<1>9. PICK p : p = pop_control_stack(u)
  OBVIOUS
<1>10. u.csp > Last(u.acts).before.csp
  BY <1>1, <1>3, <1>4, <1>7
<1>11. p \in Machine /\ Core(p) /\ Unmoved(u, p) /\ p.csp = u.csp - 1 /\ p.sp = u.sp
  BY <1>6, <1>8, <1>9, <1>10, PopCore
<1>12. PICK h : h = p.sp + 1
  OBVIOUS
<1>13. h = a.before.sp + 1 /\ h \in Int
  BY <1>2, <1>3, <1>7, <1>11, <1>12
<1>14. PICK q : q = [p EXCEPT !.sp = h]
  OBVIOUS
<1>15. /\ q \in Machine /\ Core(q) /\ q.sp = h /\ q.acts = p.acts /\ q.csp = p.csp
  BY <1>11, <1>13, <1>14, Lowered
<1>16. a = Last(q.acts) /\ q.csp = a.before.csp
  BY <1>1, <1>3, <1>4, <1>7, <1>11, <1>15 DEF Unmoved
<1>17. PICK x \in BOOLEAN : x = FALSE
  OBVIOUS
<1>18. Good(Ended(q, a, x, 1)) /\ Settled(Ended(q, a, x, 1))
  BY <1>2, <1>3, <1>13, <1>15, <1>16, Returned
<1>19. m' = Ended(q, a, FALSE, 1)
  BY <1>1, <1>5, <1>9, <1>12, <1>14 DEF EndCatch, Fresh, Top
<1>20. m' = Ended(q, a, x, 1)
  BY <1>17, <1>19, Zenon
<1> QED
  BY <1>18, <1>20
-----------------------------------------------------------------------------
(* The error handler.                                                      *)
LEMMA HandlerOk ==
  ASSUME Good(m), NEW s \in Machine, s.acts = m.acts, s.cg = m.cg, s.csp = m.csp,
         s.stack = m.stack, s.regs = m.regs, s.back = <<>>, NEW d \in Nat, NEW caught
  PROVE  LET t == mudlib_error_handler(s, caught, d) IN Good(t) /\ Settled(t)
<1>1. PICK n \in Nat : n = IF caught THEN 2 ELSE 1
  OBVIOUS
<1>2. PICK k, a, q, h, g : /\ k = "handler" /\ a = Act(s, k, n) /\ q = Append(s.acts, a)
                           /\ h = s.sp + n /\ g = s.handling + 1
  OBVIOUS
<1>3. k \in ActKinds /\ h \in Int /\ g \in Int /\ "lpc" \in Phase
  BY <1>2 DEF Machine, ActKinds, Phase
<1>4. a \in Activation /\ a.k = k /\ a.before = Before(s) /\ a.econ = <<>>
  BY <1>2, <1>3, ActIs
<1>5. HasContext(a)
  BY <1>2, <1>4 DEF HasContext, WithContext
<1>6. q \in CStack
  BY <1>2, <1>4, AppendProperties DEF Machine, CStack
<1>7. PICK u : u = [s EXCEPT !.sp = h, !.now = "lpc", !.handling = g, !.acts = q]
  OBVIOUS
<1>8. u \in Machine
  BY <1>3, <1>6, <1>7, Zenon DEF Machine
<1>9. /\ u.acts = q /\ u.csp = s.csp /\ u.stack = s.stack /\ u.regs = s.regs
      /\ u.cg = s.cg /\ u.back = <<>> /\ u.sp = h
  BY <1>7 DEF Machine
<1>10. m \in Machine /\ Core(s)
  BY Steady DEF Good
<1>11. Core(u) /\ Last(u.acts) = a
  BY <1>2, <1>4, <1>5, <1>8, <1>9, <1>10, ActOpened
<1>12. a.before.csp = s.csp /\ a.before.sp = s.sp
  BY <1>4 DEF Before
<1>13. Ready(u) /\ u.sp = Last(u.acts).before.sp + n
  BY <1>2, <1>4, <1>9, <1>11, <1>12 DEF Ready, OneFrame
<1>14. mudlib_error_handler(s, caught, d) = apply_low(u, Master, "DRIVER", n, d)
  BY <1>1, <1>2, <1>7 DEF mudlib_error_handler
<1>15. Master \in Ids /\ "DRIVER" \in Callers
  BY DEF Ids, Callers
<1> QED
  BY <1>8, <1>9, <1>11, <1>13, <1>14, <1>15, ApplyLow DEF Settled

(* error_handler() keeps the invariant.                                    *)
LEMMA ErrorHandlerOk ==
  ASSUME Good(m), NEW d \in Nat, error_handler(d)
  PROVE  Good(m') /\ Settled(m')
<1>1. PICK c : c = Caught(m, m.acts[Holder(m)].econ[1])
  OBVIOUS
<1>2. PICK s : s = IF c THEN Fresh ELSE [Fresh EXCEPT !.too_deep = FALSE, !.max_eval = FALSE]
  OBVIOUS
<1>3. m' = IF m.handling # 0 THEN [s EXCEPT !.handling = 0, !.now = "jump"]
           ELSE mudlib_error_handler(s, c, d)
  BY <1>1, <1>2 DEF error_handler
<1>4. m \in Machine /\ <<>> \in Outcomes /\ FALSE \in BOOLEAN
  BY DEF Good, Outcomes
<1>5. Fresh \in Machine
  BY <1>4, Zenon DEF Fresh, Machine
<1>6. [Fresh EXCEPT !.too_deep = FALSE, !.max_eval = FALSE] \in Machine
  BY <1>4, <1>5, Zenon DEF Machine
<1>7. s \in Machine
  BY <1>2, <1>5, <1>6, Zenon
<1>8. /\ s.acts = m.acts /\ s.cg = m.cg /\ s.csp = m.csp /\ s.stack = m.stack
      /\ s.regs = m.regs /\ s.back = <<>>
  <2>1. CASE c
    BY <1>2, <1>4, <2>1 DEF Fresh, Machine
  <2>2. CASE ~c
    BY <1>2, <1>4, <2>2 DEF Fresh, Machine
  <2> QED
    BY <2>1, <2>2
<1>9. CASE m.handling # 0
  <2>1. m' = [s EXCEPT !.handling = 0, !.now = "jump"]
    BY <1>3, <1>9
  <2>2. 0 \in Int /\ "jump" \in Phase
    BY DEF Phase
  <2>3. m' \in Machine
    BY <1>7, <2>1, <2>2, Zenon DEF Machine
  <2>4. /\ m'.acts = m.acts /\ m'.cg = m.cg /\ m'.csp = m.csp /\ m'.stack = m.stack
        /\ m'.regs = m.regs /\ m'.now = "jump" /\ m'.back = <<>>
    BY <1>7, <1>8, <2>1 DEF Machine
  <2> QED
    BY <1>4, <2>3, <2>4, Raised DEF Settled, Good
<1>10. CASE m.handling = 0
  <2>1. m' = mudlib_error_handler(s, c, d)
    BY <1>3, <1>10
  <2> QED
    BY <1>7, <1>8, <2>1, HandlerOk
<1> QED
  BY <1>9, <1>10
-----------------------------------------------------------------------------
(* longjmp().                                                              *)
LEMMA HolderIs ==
  ASSUME NEW s \in Machine, Core(s)
  PROVE  Holder(s) \in 1 .. Len(s.acts) /\ s.acts[Holder(s)].econ # <<>>
<1> DEFINE N == Len(s.acts)
           S == {j \in Nat : j < N /\ s.acts[N - j].econ # <<>>}
<1>1. N \in Nat \ {0} /\ DOMAIN s.acts = 1 .. N
  BY Heights, LenProperties DEF Core, Machine, CStack
<1>2. s.acts[1].econ # <<>>
  <2>1. 1 \in 1 .. N
    BY <1>1
  <2>2. s.acts[1].econ = ContextOf(s.acts[1])
    BY <2>1 DEF Core, Bottom, Contexts, HasContext, WithContext
  <2> QED
    BY <2>2 DEF ContextOf
<1>3. N - 1 \in S
  BY <1>1, <1>2
<1>4. PICK x \in S : \A y \in S : x <= y
  <2>1. S \subseteq Nat /\ S # {}
    BY <1>3
  <2> HIDE DEF S
  <2> QED
    BY <2>1, LeastNat
<1>5. PICK i : i = N - x
  OBVIOUS
<1>6. i \in 1 .. N /\ s.acts[i].econ # <<>>
  BY <1>1, <1>4, <1>5
<1>7. \A j \in i + 1 .. N : s.acts[j].econ = <<>>
  <2> SUFFICES ASSUME NEW j \in i + 1 .. N, s.acts[j].econ # <<>> PROVE FALSE
    OBVIOUS
  <2>1. N - j \in Nat /\ N - j < N /\ N - (N - j) = j /\ N - j < x
    BY <1>1, <1>4, <1>5
  <2>2. N - j \in S
    BY <2>1
  <2> QED
    BY <1>4, <2>1, <2>2
<1> HIDE DEF N, S
<1>8. \E y \in DOMAIN s.acts : /\ s.acts[y].econ # <<>>
                               /\ \A j \in y + 1 .. Len(s.acts) : s.acts[j].econ = <<>>
  BY <1>1, <1>6, <1>7 DEF N
<1>9. Holder(s) \in DOMAIN s.acts /\ s.acts[Holder(s)].econ # <<>>
  BY <1>8, Zenon DEF Holder
<1> QED
  BY <1>1, <1>9 DEF N

(* The frames above those of C function n are gone.                        *)
LEMMA UnwoundIs ==
  ASSUME NEW s \in Machine, NEW e \in Mark, Kept(s, e), NEW c, c.csp = e.csp
  PROVE  LET t == UnwindFrames(s, c) IN
         /\ t \in Machine /\ Unmoved(s, t) /\ t.csp = e.csp /\ t.sp = s.sp /\ t.regs = e.regs
         /\ \A i \in 1 .. t.csp : t.stack[i].regs = s.stack[i].regs
<1>1. e.csp \in Nat /\ s.csp \in Nat /\ e.csp <= s.csp /\ s.csp <= MaxCallDepth /\ e.regs \in Regs
  BY EvaluationAssumption DEF Kept, Machine, Mark
<1>2. CASE s.csp > e.csp
  <2>1. PICK k, g : /\ k = e.csp + 1
                    /\ g = [i \in DOMAIN s.stack |-> IF i > e.csp + 1 THEN Stale(s.stack[i]) ELSE s.stack[i]]
    OBVIOUS
  <2>2. k \in 0 .. MaxCallDepth /\ k \in 1 .. MaxCallDepth /\ k # 0
    BY <1>1, <1>2, <2>1, EvaluationAssumption
  <2>3. s.stack \in [1 .. MaxCallDepth -> Frame]
    BY DEF Machine, Stack
  <2>4. \A f \in Frame : Stale(f) \in Frame
    <3> SUFFICES ASSUME NEW f \in Frame PROVE Stale(f) \in Frame
      OBVIOUS
    <3>1. PICK kind \in Kinds : kind = f.kind
      BY DEF Frame
    <3>2. NoFrame \in Frame
      BY DEF NoFrame, Frame, Kinds
    <3> QED
      BY <3>1, <3>2, Zenon DEF Frame, Stale
  <2>5. g \in Stack /\ \A i \in 1 .. k : g[i] = s.stack[i]
    <3>1. g = [i \in 1 .. MaxCallDepth |-> IF i > k THEN Stale(s.stack[i]) ELSE s.stack[i]]
      BY <2>1, <2>3
    <3>2. \A i \in 1 .. k : i \in 1 .. MaxCallDepth /\ ~(i > k)
      BY <2>2, EvaluationAssumption
    <3>3. \A i \in 1 .. MaxCallDepth :
             (IF i > k THEN Stale(s.stack[i]) ELSE s.stack[i]) \in Frame
      BY <2>3, <2>4
    <3> QED
      BY <3>1, <3>2, <3>3 DEF Stack
  <2>6. PICK u : u = [s EXCEPT !.csp = k, !.stack = g]
    OBVIOUS
  <2>7. u \in Machine
    BY <2>2, <2>5, <2>6, Zenon DEF Machine
  <2>8. /\ Unmoved(s, u) /\ u.csp = k /\ u.stack = g /\ u.sp = s.sp
    BY <2>6 DEF Machine, Unmoved
  <2>9. u.stack[u.csp].regs = e.regs
    BY <1>1, <1>2, <2>1, <2>2, <2>5, <2>8 DEF Kept
  <2>10. PICK t : t = pop_control_stack(u)
    OBVIOUS
  <2>11. /\ t \in Machine /\ Unmoved(u, t) /\ t.csp = u.csp - 1 /\ t.sp = u.sp
         /\ t.regs = u.stack[u.csp].regs
         /\ \A i \in 1 .. t.csp : t.stack[i].regs = u.stack[i].regs
    BY <1>1, <2>2, <2>7, <2>8, <2>9, <2>10, PopIs
  <2>12. t.csp = e.csp /\ \A i \in 1 .. t.csp : i \in 1 .. k
    BY <1>1, <2>1, <2>8, <2>11
  <2>13. \A i \in 1 .. t.csp : t.stack[i].regs = s.stack[i].regs
    BY <2>5, <2>8, <2>11, <2>12
  <2>14. Unmoved(s, t)
    BY <2>8, <2>11 DEF Unmoved
  <2>15. UnwindFrames(s, c) = t
    BY <1>2, <2>1, <2>6, <2>10 DEF UnwindFrames, Machine
  <2> QED
    BY <2>8, <2>9, <2>11, <2>12, <2>13, <2>14, <2>15
<1>3. CASE ~(s.csp > e.csp)
  <2>1. UnwindFrames(s, c) = s
    BY <1>3 DEF UnwindFrames
  <2>2. s.csp = e.csp /\ s.regs = e.regs
    BY <1>1, <1>3 DEF Kept
  <2> QED
    BY <2>1, <2>2 DEF Unmoved
<1> QED
  BY <1>2, <1>3

(* What restore_context() leaves: registers, frames and command giver of   *)
(* before, and the values of before unless there are too few.              *)
LEMMA RestoredIs ==
  ASSUME NEW s \in Machine, NEW e \in Mark, Kept(s, e), NEW c, c.csp = e.csp, c.cg = e.cg,
         c.sp \in Int
  PROVE  LET t == restore_context(s, c) IN
         /\ t \in Machine /\ t.csp = e.csp /\ t.regs = e.regs /\ t.cg = e.cg
         /\ t.acts = s.acts /\ t.back = s.back /\ t.now \in {"lpc", "crash"}
         /\ t.now = "lpc" => t.sp = c.sp
         /\ \A i \in 1 .. t.csp : t.stack[i].regs = s.stack[i].regs
<1>1. PICK u : u = UnwindFrames(s, c)
  OBVIOUS
<1>2. /\ u \in Machine /\ Unmoved(s, u) /\ u.csp = e.csp /\ u.sp = s.sp /\ u.regs = e.regs
      /\ \A i \in 1 .. u.csp : u.stack[i].regs = s.stack[i].regs
  BY <1>1, UnwoundIs
<1>3. PICK g, h : g = c.cg /\ h = c.sp
  OBVIOUS
<1>4. g \in Ids /\ h \in Int /\ "lpc" \in Phase /\ "crash" \in Phase
  BY <1>3 DEF Mark, Phase
<1>5. CASE s.sp < c.sp
  <2>1. PICK t : t = [u EXCEPT !.now = "crash", !.cg = g]
    OBVIOUS
  <2>2. t \in Machine
    BY <1>2, <1>4, <2>1, Zenon DEF Machine
  <2>3. /\ t.csp = u.csp /\ t.regs = u.regs /\ t.cg = g /\ t.acts = u.acts /\ t.back = u.back
        /\ t.now = "crash" /\ t.stack = u.stack
    BY <1>2, <2>1 DEF Machine
  <2>4. restore_context(s, c) = t
    BY <1>1, <1>3, <1>5, <2>1 DEF restore_context
  <2> QED
    BY <1>2, <1>3, <2>2, <2>3, <2>4 DEF Unmoved
<1>6. CASE ~(s.sp < c.sp)
  <2>1. PICK t : t = [u EXCEPT !.now = "lpc", !.cg = g, !.sp = h]
    OBVIOUS
  <2>2. t \in Machine
    BY <1>2, <1>4, <2>1, Zenon DEF Machine
  <2>3. /\ t.csp = u.csp /\ t.regs = u.regs /\ t.cg = g /\ t.acts = u.acts /\ t.back = u.back
        /\ t.now = "lpc" /\ t.stack = u.stack /\ t.sp = h
    BY <1>2, <2>1 DEF Machine
  <2>4. restore_context(s, c) = t
    BY <1>1, <1>3, <1>6, <2>1 DEF restore_context
  <2> QED
    BY <1>2, <1>3, <2>2, <2>3, <2>4 DEF Unmoved
<1> QED
  BY <1>5, <1>6

(* At the context of catch(), with the registers of before: the error is   *)
(* pushed, and may go on to the next context.                              *)
LEMMA CaughtErrorOk ==
  ASSUME NEW s \in Machine, Core(s), NEW a \in Activation, a = Last(s.acts), a.k = "catch",
         s.csp = a.before.csp, s.cg = a.before.cg, s.sp = a.before.sp, s.back = <<>>
  PROVE  Good(CaughtError(s, a)) /\ Settled(CaughtError(s, a))
<1>1. PICK h : h = s.sp + 1
  OBVIOUS
<1>2. h \in Int /\ 1 \in Nat
  BY <1>1 DEF Machine
<1>3. PICK u : u = [s EXCEPT !.sp = h]
  OBVIOUS
<1>4. /\ u \in Machine /\ Core(u) /\ u.sp = h /\ u.acts = s.acts /\ u.csp = s.csp /\ u.cg = s.cg
      /\ u.back = s.back /\ u.now = s.now
  BY <1>2, <1>3, Lowered
<1>5. CASE s.max_eval \/ s.too_deep
  <2>1. PICK q : q = Front(u.acts)
    OBVIOUS
  <2>2. q \in CStack /\ "raise" \in Phase
    BY <1>4, <2>1, FrontIs DEF Machine, CStack, Core, Bottom, Phase
  <2>3. PICK t : t = [u EXCEPT !.acts = q, !.now = "raise"]
    OBVIOUS
  <2>4. t \in Machine
    BY <1>4, <2>2, <2>3, Zenon DEF Machine
  <2>5. /\ t.acts = q /\ t.csp = u.csp /\ t.stack = u.stack /\ t.regs = u.regs /\ t.cg = u.cg
        /\ t.now = "raise" /\ t.back = u.back
    BY <1>4, <2>3 DEF Machine
  <2>6. Core(t)
    BY <1>4, <2>1, <2>4, <2>5, Closed
  <2>7. CaughtError(s, a) = t
    BY <1>1, <1>3, <1>5, <2>1, <2>3 DEF CaughtError
  <2> QED
    BY <1>4, <2>4, <2>5, <2>6, <2>7 DEF Good, Settled
<1>6. CASE ~(s.max_eval \/ s.too_deep)
  <2>1. PICK x \in BOOLEAN : x = TRUE
    OBVIOUS
  <2>2. CaughtError(s, a) = Ended(u, a, TRUE, 1)
    BY <1>1, <1>3, <1>6 DEF CaughtError
  <2>3. CaughtError(s, a) = Ended(u, a, x, 1)
    BY <2>1, <2>2, Zenon
  <2>4. u.sp = a.before.sp + 1
    BY <1>1, <1>4
  <2> QED
    BY <1>2, <1>4, <2>3, <2>4, Returned
<1> QED
  BY <1>5, <1>6

(* What the holder of the context does; nothing holds a context that does  *)
(* not go on with what it had.                                             *)
LEMMA ReachedOk ==
  ASSUME NEW s \in Machine, Core(s), NEW a \in Activation, a = Last(s.acts),
         HasContext(a), a.econ # <<>>, s.now \in {"lpc", "crash"},
         s.csp = a.before.csp, s.cg = a.before.cg, s.regs = a.before.regs,
         s.now = "lpc" => s.sp = ContextOf(a)[1].sp, s.back = <<>>
  PROVE  Good(Reached(s, a)) /\ Settled(Reached(s, a))
<1>1. CASE s.now = "crash"
  <2>1. Reached(s, a) = s
    BY <1>1 DEF Reached
  <2> QED
    BY <1>1, <2>1 DEF Good, Settled
<1>2. CASE s.now = "lpc"
  <2>1. a.k \in WithContext /\ a.before.sp \in Int /\ a.n \in Nat /\ s.now # "crash"
    BY <1>2 DEF HasContext, Activation, Mark
  <2>2. ContextOf(a)[1].sp = IF a.k \in {"safe_apply", "safe_funp"} THEN a.before.sp + a.n
                             ELSE a.before.sp
    BY DEF ContextOf
  <2>3. PICK x \in BOOLEAN : x = TRUE
    OBVIOUS
  <2>4. CASE a.k = "backend"
    <3>1. Reached(s, a) = s
      BY <2>1, <2>4 DEF Reached
    <3>2. Len(s.acts) \in Nat \ {0} /\ a = s.acts[Len(s.acts)]
      BY Heights DEF Core
    <3>3. a = s.acts[1]
      BY <2>4, <3>2 DEF Core, Bottom
    <3>4. a.before.csp = 0 /\ a.before.regs = NoRegs
      BY <3>3 DEF Core, Bottom
    <3>5. InCode(a, Before(s))
      BY <2>4, <3>4 DEF InCode, Before
    <3> QED
      BY <3>1, <3>5 DEF Good, Settled
  <2>5. CASE a.k = "catch"
    <3>1. Reached(s, a) = CaughtError(s, a)
      BY <2>1, <2>5 DEF Reached
    <3>2. s.sp = a.before.sp
      BY <1>2, <2>2, <2>5
    <3> QED
      BY <2>5, <3>1, <3>2, CaughtErrorOk
  <2>6. CASE a.k = "safe_apply"
    <3>1. Reached(s, a) = Ended(s, a, TRUE, a.n)
      BY <2>1, <2>6 DEF Reached
    <3>2. Reached(s, a) = Ended(s, a, x, a.n)
      BY <2>3, <3>1, Zenon
    <3>3. s.sp = a.before.sp + a.n
      BY <1>2, <2>2, <2>6
    <3> QED
      BY <2>1, <2>6, <3>2, <3>3, Returned
  <2>7. CASE a.k = "safe_funp"
    <3>1. PICK h : h = s.sp - a.n
      OBVIOUS
    <3>2. h \in Int /\ h = a.before.sp + 0 /\ 0 \in Nat
      BY <1>2, <2>1, <2>2, <2>7, <3>1
    <3>3. PICK u : u = [s EXCEPT !.sp = h]
      OBVIOUS
    <3>4. /\ u \in Machine /\ Core(u) /\ u.sp = h /\ u.acts = s.acts /\ u.csp = s.csp
          /\ u.cg = s.cg
      BY <3>2, <3>3, Lowered
    <3>5. Reached(s, a) = Ended(u, a, TRUE, 0)
      BY <2>1, <2>7, <3>1, <3>3 DEF Reached
    <3>6. Reached(s, a) = Ended(u, a, x, 0)
      BY <2>3, <3>5, Zenon
    <3> QED
      BY <2>7, <3>2, <3>4, <3>6, Returned
  <2> QED
    BY <2>1, <2>4, <2>5, <2>6, <2>7 DEF WithContext
<1> QED
  BY <1>1, <1>2

(* LongJmp keeps the invariant.                                            *)
LEMMA LongJmpOk == ASSUME Good(m), LongJmp PROVE Good(m') /\ Settled(m')
<1>1. PICK i : i = Holder(m)
  OBVIOUS
<1>2. m \in Machine /\ Core(m) /\ <<>> \in Outcomes
  BY DEF Good, Outcomes
<1>3. i \in 1 .. Len(m.acts) /\ m.acts[i].econ # <<>>
  BY <1>1, <1>2, HolderIs
<1>4. PICK a, q : a = m.acts[i] /\ q = SubSeq(m.acts, 1, i)
  OBVIOUS
<1>5. a \in Activation /\ HasContext(a) /\ Kept(m, a.before) /\ a.before \in Mark
  BY <1>2, <1>3, <1>4, Heights DEF Core, Contexts, Saved, Activation
<1>6. q \in CStack
  <2>1. m.acts \in Seq(Activation) /\ i <= Len(m.acts) /\ 1 \in Nat /\ i \in Nat
    BY <1>2, <1>3 DEF Machine, CStack
  <2>2. \A j \in 1 .. i : m.acts[j] \in Activation
    BY <2>1, <1>2, <1>3, Heights DEF Core
  <2>3. 1 \in 1 .. Len(m.acts) + 1 /\ i \in 1 - 1 .. Len(m.acts)
    BY <1>2, <1>3, Heights DEF Core
  <2> QED
    BY <1>4, <2>1, <2>3, SubSeqProperties DEF CStack
<1>7. PICK s : s = [m EXCEPT !.back = <<>>, !.acts = q]
  OBVIOUS
<1>8. s \in Machine
  BY <1>2, <1>6, <1>7, Zenon DEF Machine
<1>9. /\ s.acts = q /\ s.csp = m.csp /\ s.stack = m.stack /\ s.regs = m.regs /\ s.back = <<>>
  BY <1>2, <1>7 DEF Machine
<1>10. Kept(s, a.before)
  BY <1>5, <1>9 DEF Kept
<1>11. PICK c : c = a.econ[1]
  OBVIOUS
<1>12. a.econ = ContextOf(a)
  BY <1>3, <1>4, <1>5 DEF HasContext
<1>13. c.csp = a.before.csp /\ c.cg = a.before.cg /\ c.sp \in Int
  BY <1>5, <1>11, <1>12 DEF ContextOf, Activation, Mark
<1>14. PICK w : w = restore_context(s, c)
  OBVIOUS
<1>15. /\ w \in Machine /\ w.csp = a.before.csp /\ w.regs = a.before.regs /\ w.cg = a.before.cg
       /\ w.acts = s.acts /\ w.back = s.back /\ w.now \in {"lpc", "crash"}
       /\ w.now = "lpc" => w.sp = c.sp
       /\ \A j \in 1 .. w.csp : w.stack[j].regs = s.stack[j].regs
  BY <1>5, <1>8, <1>10, <1>13, <1>14, RestoredIs
<1>16. Core(w) /\ Last(w.acts) = a
  <2>1. /\ w \in Machine /\ w.acts = SubSeq(m.acts, 1, i) /\ w.csp = m.acts[i].before.csp
        /\ w.cg = m.acts[i].before.cg /\ w.regs = m.acts[i].before.regs
    BY <1>4, <1>9, <1>15, Zenon
  <2>2. \A j \in 1 .. w.csp : w.stack[j].regs = m.stack[j].regs
    BY <1>9, <1>15, Zenon
  <2> QED
    BY <1>2, <1>3, <1>4, <2>1, <2>2, Reaching, ZenonT(30)
<1>17. m' = Reached(w, a)
  <2>1. [Fresh EXCEPT !.acts = SubSeq(@, 1, i)] = s
    BY <1>2, <1>4, <1>7 DEF Fresh, Machine
  <2> QED
    BY <1>1, <1>4, <1>11, <1>14, <2>1 DEF LongJmp
<1> QED
  BY <1>3, <1>4, <1>5, <1>9, <1>11, <1>12, <1>15, <1>16, <1>17, ReachedOk
-----------------------------------------------------------------------------
(* The theorem.                                                            *)
LEMMA InitOk == ASSUME EvaluationInit PROVE EvaluationInv
<1>1. PICK g : g = [i \in 1 .. MaxCallDepth |-> NoFrame]
  OBVIOUS
<1>2. NoFrame \in Frame /\ NoRegs \in Regs /\ 0 \in Ids /\ 0 \in 0 .. MaxCallDepth
  BY EvaluationAssumption DEF NoFrame, Frame, Kinds, NoRegs, Regs, Ids, Callers
<1>3. g \in Stack
  BY <1>1, <1>2 DEF Stack
<1>4. PICK e : e = [stack |-> g, csp |-> 0,
                      sp |-> 0, regs |-> NoRegs, cg |-> 0, acts |-> <<>>,
                      now |-> "lpc", too_deep |-> FALSE, max_eval |-> FALSE,
                      handling |-> 0, back |-> <<>>]
  OBVIOUS
<1>5. /\ <<>> \in CStack /\ "lpc" \in Phase /\ <<>> \in Outcomes /\ FALSE \in BOOLEAN /\ 0 \in Int
      /\ "backend" \in ActKinds /\ 0 \in Nat
  BY DEF CStack, Phase, Outcomes, ActKinds
<1>6. e \in Machine
  BY <1>2, <1>3, <1>4, <1>5, Zenon DEF Machine
<1>7. "backend" \in WithContext
  BY DEF WithContext
<1>8. e.sp = 0 /\ e.csp = 0 /\ e.cg = 0
  BY <1>4
<1>9. Before(e) = [regs |-> NoRegs, csp |-> 0, sp |-> 0, cg |-> 0]
  BY <1>4 DEF Before
<1>10. PICK a : a = save_context(e, Act(e, "backend", 0))
  OBVIOUS
<1>11. a \in Activation /\ a.k = "backend" /\ a.n = 0 /\ a.before = Before(e) /\ HasContext(a)
  BY <1>5, <1>6, <1>7, <1>10, ContextIs
<1>12. PICK q : q = <<a>>
  OBVIOUS
<1>13. q \in CStack /\ Len(q) = 1 /\ q[1] = a
  BY <1>11, <1>12 DEF CStack
<1>14. m = [e EXCEPT !.acts = q]
  BY <1>1, <1>4, <1>10, <1>12 DEF EvaluationInit
<1>15. m \in Machine
  BY <1>6, <1>13, <1>14, Zenon DEF Machine
<1>16. /\ m.acts = q /\ m.csp = 0 /\ m.sp = 0 /\ m.regs = NoRegs /\ m.cg = 0 /\ m.now = "lpc"
       /\ m.back = <<>>
  BY <1>4, <1>14
<1>17. 1 .. Len(m.acts) = {1} /\ m.acts[1] = a /\ Len(m.acts) = 1 /\ Last(m.acts) = a
  <2>1. m.acts[1] = a /\ Len(m.acts) = 1
    BY <1>13, <1>16
  <2>2. 1 .. Len(m.acts) = {1}
    BY <2>1
  <2> QED
    BY <2>1, <2>2 DEF Last
<1>18. Before(m) = [regs |-> NoRegs, csp |-> 0, sp |-> 0, cg |-> 0]
  BY <1>16 DEF Before
<1>19. a.k = "backend" /\ a.before = [regs |-> NoRegs, csp |-> 0, sp |-> 0, cg |-> 0]
  BY <1>9, <1>11
<1>20. Bottom(m) /\ Contexts(m)
  BY <1>11, <1>17, <1>19 DEF Bottom, Contexts
<1>21. Saved(m) /\ Live(m) /\ Nested(m)
  BY <1>16, <1>17, <1>19 DEF Saved, Kept, Live, Nested
<1>22. FramesCounted(m) /\ Giver(m)
  <2>1. Followed(m, 1) = Before(m)
    BY <1>17 DEF Followed
  <2> QED
    BY <2>1, <1>17, <1>18, <1>19 DEF FramesCounted, Giver, FrameCount
<1>23. Resumes(m)
  BY <1>17 DEF Resumes
<1>24. InCode(a, Before(m))
  BY <1>18, <1>19 DEF InCode
<1> QED
  BY <1>15, <1>16, <1>17, <1>20, <1>21, <1>22, <1>23, <1>24 DEF EvaluationInv, Good, Core, Settled

(* Each operation keeps the invariant.                                     *)
LEMMA NextOk == ASSUME EvaluationInv, EvaluationNext PROVE EvaluationInv'
<1> SUFFICES Good(m') /\ Settled(m')
  BY DEF EvaluationInv
<1>1. Good(m)
  BY DEF EvaluationInv
<1>2. /\ Obs \subseteq Ids /\ Given \subseteq Nat /\ Declared \subseteq Nat /\ SafeGiven \subseteq Nat
      /\ 0 \in Nat
  BY EvaluationAssumption DEF Ids
<1>3. CASE Push
  BY <1>1, <1>3, PushOk
<1>4. CASE Pop
  BY <1>1, <1>4, PopOk
<1>5. CASE \E ob \in Obs, n \in Given, d \in Declared : Apply(ob, n, d, "CALL_OTHER")
  <2>1. PICK ob \in Ids, n \in Nat, d \in Nat : Apply(ob, n, d, "CALL_OTHER")
    BY <1>2, <1>5
  <2>2. "CALL_OTHER" \in Callers /\ "apply" \in {"apply", "command", "local"}
    BY DEF Callers
  <2> QED
    BY <1>1, <2>1, <2>2, ApplyOk DEF Apply
<1>6. CASE \E n \in Given : ApplyMissing(n)
  BY <1>1, <1>2, <1>6, ApplyMissingOk
<1>7. CASE \E ob \in Obs, d \in Declared : Command(ob, d)
  BY <1>1, <1>2, <1>7, CommandOk
<1>8. CASE \E ob \in Obs, n \in SafeGiven, d \in Declared : SafeApply(ob, n, d)
  BY <1>1, <1>2, <1>8, SafeApplyOk
<1>9. CASE \E n \in Given, d \in Declared : CallLocal(n, d)
  BY <1>1, <1>2, <1>9, CallLocalOk
<1>10. CASE \E ob \in Obs, n \in Given, d \in Declared : CallSimulEfun(ob, n, d)
  <2>1. PICK ob \in Ids, n \in Nat, d \in Nat : CallSimulEfun(ob, n, d)
    BY <1>2, <1>10
  <2>2. "SIMUL_EFUN" \in Callers /\ "local" \in {"apply", "command", "local"}
    BY DEF Callers
  <2> QED
    BY <1>1, <2>1, <2>2, ApplyOk DEF CallSimulEfun, Running
<1>11. CASE \E ob \in Obs, d \in Declared : CallFunction(ob, d)
  BY <1>1, <1>2, <1>11, CallFunctionOk
<1>12. CASE \E ob \in Obs, n \in Given, d \in Declared, t \in PointerTypes :
              CallFunctionPointer(ob, n, d, t)
  BY <1>1, <1>2, <1>12, CallFunctionPointerOk
<1>13. CASE \E ob \in Obs, n \in SafeGiven, d \in Declared, t \in PointerTypes :
              SafeCallFunctionPointer(ob, n, d, t)
  BY <1>1, <1>2, <1>13, SafeCallFunctionPointerOk
<1>14. CASE Return
  BY <1>1, <1>14, ReturnOk
<1>15. CASE do_catch
  BY <1>1, <1>15, CatchOk
<1>16. CASE EndCatch
  BY <1>1, <1>16, EndCatchOk
<1>17. CASE Error \/ Throw
  BY <1>1, <1>17, ErrorOk
<1>18. CASE TooLong
  BY <1>1, <1>18, TooLongOk
<1>19. CASE \E d \in Declared : error_handler(d)
  BY <1>1, <1>2, <1>19, ErrorHandlerOk
<1>20. CASE LongJmp
  BY <1>1, <1>20, LongJmpOk
<1> QED
  BY <1>3, <1>4, <1>5, <1>6, <1>7, <1>8, <1>9, <1>10, <1>11, <1>12, <1>13, <1>14, <1>15,
     <1>16, <1>17, <1>18, <1>19, <1>20 DEF EvaluationNext

(* The invariant says what the run checks.                                 *)
LEMMA SoundFromInv == EvaluationInv => EvaluationSound
<1> SUFFICES ASSUME Good(m), Settled(m) PROVE EvaluationSound
  BY DEF EvaluationInv
<1>1. GoesOnAsBefore
  BY DEF GoesOnAsBefore, Settled
<1>2. /\ Len(m.acts) \in Nat \ {0} /\ Top = m.acts[Len(m.acts)] /\ m \in Machine /\ Core(m)
  BY Heights DEF Good, Core, Top
<1>3. \A i \in 1 .. Len(m.acts) - 1 :
         m.acts[i + 1].before.csp - m.acts[i].before.csp \in FrameCount(m.acts[i])
  BY <1>2 DEF Core, FramesCounted, Followed
<1>4. m.csp - Top.before.csp \in FrameCount(Top)
  BY <1>2 DEF Core, FramesCounted, Followed, Before
<1>5. m.now = "lpc" /\ Top.k = "backend" => m.csp = 0 /\ m.regs = NoRegs /\ m.cg = 0
  <2> SUFFICES ASSUME m.now = "lpc", Top.k = "backend"
               PROVE  m.csp = 0 /\ m.regs = NoRegs /\ m.cg = 0
    OBVIOUS
  <2>1. InCode(Top, Before(m))
    BY DEF Good, Top
  <2>2. m.csp = 0 /\ m.regs = NoRegs
    BY <2>1 DEF InCode, Before
  <2>3. Len(m.acts) = 1
    <3>1. Len(m.acts) \in 1 .. Len(m.acts) /\ m.acts[Len(m.acts)].k = "backend"
      BY <1>2
    <3>2. \A i \in 1 .. Len(m.acts) : m.acts[i].k = "backend" <=> i = 1
      BY <1>2 DEF Core, Bottom
    <3> QED
      BY <3>1, <3>2
  <2>4. Followed(m, 1).cg = m.acts[1].before.cg
    BY <1>2, <2>3 DEF Core, Giver
  <2>5. m.cg = 0
    BY <1>2, <2>3, <2>4 DEF Followed, Before, Core, Bottom
  <2> QED
    BY <2>2, <2>5
<1> QED
  BY <1>1, <1>3, <1>4, <1>5 DEF EvaluationSound, FramesMatch

(* However calls, errors, catches and safe applies are nested, for any     *)
(* depth of the control stack and any numbers of arguments: a call that    *)
(* ends, in whatever way, gives its caller back its registers, its frame   *)
(* and the height of its stack, and the frames on the control stack are    *)
(* those of the C functions that wait (interpret.c, error() and throw() of *)
(* simulate.c).                                                            *)
THEOREM EvaluationsSound == EvaluationSpec => []EvaluationSound
<1>1. EvaluationInit => EvaluationInv
  BY InitOk
<1>2. EvaluationInv /\ [EvaluationNext]_m => EvaluationInv'
  <2>1. CASE EvaluationNext
    BY <2>1, NextOk
  <2>2. ASSUME EvaluationInv, UNCHANGED m PROVE EvaluationInv'
    BY <2>2 DEF EvaluationInv
  <2> QED
    BY <2>1, <2>2
<1> QED
  BY <1>1, <1>2, SoundFromInv, PTL DEF EvaluationSpec
-----------------------------------------------------------------------------
(* The preprocessor.                                                       *)

AllNames == Names \cup Predefined \cup {"__FILE__"}
Definition == [name : AllNames, exps : Nat, flags : SUBSET {"predef", "undefined"}]
Group == [on : BOOLEAN, taken : BOOLEAN, open : BOOLEAN]
Expected == {"expect_endif", "expect_else"}
Place == [file : AllFiles, line : Nat \ {0}]
Info == [lines : Nat, file : AllFiles]
Node == [abs : Int, at : Place, meant : BOOLEAN]
Search == [tokens : SUBSET {"else", "endif", "elif"}, nest : Nat]

(* The driver's definitions are at the end of the chain, as they were made *)
(* when it started; in front of them are those of the program.             *)
Many == Cardinality(Predefined)
Own == Len(defns) - Many
Table ==
  /\ defns \in Seq(Definition) /\ Own >= 0
  /\ \A i \in 1..Own : defns[i].name \notin Predefined /\ "predef" \notin defns[i].flags
  /\ \A i \in 1..Many : defns[Own + i] = Predefines[i]

(* iftop holds the conditionals whose part is being read.  While text is   *)
(* skipped the innermost of them has not chosen this part, and those in    *)
(* the skipped text are only counted.                                      *)
Chosen(i) == groups[i].on /\ groups[i].taken
Reading ==
  /\ Len(groups) = Len(iftop)
  /\ \A i \in 1..Len(iftop) : Chosen(i) /\ iftop[i] = "expect_endif"
SkippingTo(s) ==
  /\ Len(iftop) > 0 /\ Len(groups) = s.nest + Len(iftop)
  /\ ~groups[s.nest + 1].on
  /\ IF groups[s.nest + 1].taken
     THEN iftop[1] = "expect_endif" /\ s.tokens = {"endif", "elif"}
     ELSE iftop[1] = "expect_else" /\ s.tokens = {"else", "endif", "elif"}
  /\ \A i \in 2..Len(iftop) : Chosen(s.nest + i) /\ iftop[i] = "expect_endif"
Conditionals ==
  /\ iftop \in Seq(Expected) /\ groups \in Seq(Group)
  /\ \/ skip = <<>> /\ Reading
     \/ \E s \in Search : skip = <<s>> /\ SkippingTo(s)

(* Lines are only numbered well in a file that is included once.           *)
Singles == {f \in AllFiles : f \in Files => opened[f] <= 1}

(* How many lines the accounts hold, of some files.                        *)
Total(info, some) == LinesUpTo(info, some)[Len(info)]

(* A node whose line is in the k-th entry of the accounts, and one whose   *)
(* line comes behind all of them.                                          *)
LocatedAt(t, info, k, single) ==
  /\ LinesUpTo(info, AllFiles)[k - 1] < t.abs /\ t.abs <= LinesUpTo(info, AllFiles)[k]
  /\ info[k].file = t.at.file
  /\ t.at.file \in single =>
       t.at.line = t.abs - LinesUpTo(info, AllFiles)[k - 1] + LinesUpTo(info, {t.at.file})[k - 1]
Located(t) == \E k \in 1..Len(file_info) : LocatedAt(t, file_info, k, Singles)
Current(t) ==
  /\ t.at.file = file /\ t.abs > Total(file_info, AllFiles)
  /\ t.at.line = t.abs - Total(file_info, AllFiles) + saved /\ t.at.line < current_line

(* The lines of the i-th open file that the accounts hold when it is read  *)
(* on: saved is that of the innermost.                                     *)
Accounted(i) == IF i = 1 THEN saved ELSE where[i].line - 1
Frames ==
  /\ Len(where) = Len(inctop) + 1
  /\ where[1] = [file |-> file, line |-> current_line]
  /\ \A i \in 1..Len(inctop) : where[i + 1] = inctop[i]
  /\ \A i, j \in 1..Len(where) : i # j /\ where[i].file = where[j].file => where[i].file \notin Singles
LineTypes ==
  /\ file \in AllFiles /\ current_line \in Nat /\ base \in Int /\ saved \in Nat
  /\ inctop \in Seq(Place) /\ where \in Seq(Place) /\ told \in Seq(Node)
  /\ file_info \in Seq(Info) /\ opened \in [Files -> Nat]
Balance ==
  /\ base + saved = Total(file_info, AllFiles) /\ current_line > saved
  /\ \A i \in 1..Len(where) : where[i].file \in Singles => Accounted(i) = Total(file_info, {where[i].file})
  /\ \A f \in Files : opened[f] = 0 =>
       Total(file_info, {f}) = 0 /\ \A i \in 1..Len(where) : where[i].file # f
Placed == \A i \in 1..Len(told) : Located(told[i]) \/ Current(told[i])
AllPlaced == \A i \in 1..Len(told) : Located(told[i])
Accounts == LineTypes /\ Frames /\ Balance /\ Placed

Meant == \A i \in 1..Len(told) : told[i].meant

(* The inductive invariant, by what the lexer is doing.                    *)
PreInv ==
  /\ Table /\ compiled \in Nat /\ Meant
  /\ lex \in {"idle", "reading", "fatal", "done"}
  /\ lex = "reading" => Conditionals
  /\ lex \in {"reading", "fatal"} => Accounts
  /\ lex \in {"idle", "done"} => Own = 0 /\ iftop = <<>> /\ skip = <<>> /\ inctop = <<>>
  /\ lex = "idle" => groups = <<>> /\ told = <<>>
  /\ lex = "done" =>
       told \in Seq(Node) /\ file_info \in Seq(Info) /\ AllPlaced
-----------------------------------------------------------------------------
(* Sequences that grow, shrink or change at the front.                     *)
LEMMA ConsIs ==
  ASSUME NEW T, NEW x \in T, NEW s \in Seq(T)
  PROVE  /\ <<x>> \o s \in Seq(T) /\ Len(<<x>> \o s) = Len(s) + 1 /\ (<<x>> \o s)[1] = x
         /\ \A i \in 1..Len(s) : (<<x>> \o s)[i + 1] = s[i]
<1>1. <<x>> \in Seq(T) /\ Len(<<x>>) = 1 /\ <<x>>[1] = x
  OBVIOUS
<1>2. Len(s) \in Nat
  BY LenProperties
<1>3. PICK q : q = <<x>>
  OBVIOUS
<1>4. q \in Seq(T) /\ Len(q) = 1 /\ q[1] = x
  BY <1>1, <1>3
<1>5. /\ q \o s \in Seq(T) /\ Len(q \o s) = Len(q) + Len(s)
      /\ \A i \in 1..(Len(q) + Len(s)) : (q \o s)[i] = IF i <= Len(q) THEN q[i] ELSE s[i - Len(q)]
  BY <1>4, ConcatProperties
<1>6. (q \o s)[1] = x
  BY <1>2, <1>4, <1>5
<1>7. ASSUME NEW i \in 1..Len(s) PROVE (q \o s)[i + 1] = s[i]
  <2>1. i + 1 \in 1..(Len(q) + Len(s)) /\ ~(i + 1 <= Len(q)) /\ (i + 1) - Len(q) = i
    BY <1>2, <1>4
  <2> QED
    BY <1>5, <2>1
<1> QED
  BY <1>2, <1>3, <1>4, <1>5, <1>6, <1>7

LEMMA RestIs ==
  ASSUME NEW T, NEW s \in Seq(T), Len(s) > 0
  PROVE  /\ Tail(s) \in Seq(T) /\ Len(Tail(s)) = Len(s) - 1 /\ s[1] \in T
         /\ \A i \in 1..(Len(s) - 1) : Tail(s)[i] = s[i + 1]
<1>1. s # <<>> /\ Len(s) \in Nat
  BY LenProperties
<1>2. Tail(s) \in Seq(T) /\ Len(Tail(s)) = Len(s) - 1
  BY <1>1, HeadTailProperties
<1>3. \A i \in 1..(Len(s) - 1) : Tail(s)[i] = s[i + 1]
  BY <1>1, <1>2, HeadTailProperties
<1>4. s[1] \in T
  BY <1>1, ElementOfSeq
<1> QED
  BY <1>2, <1>3, <1>4

LEMMA SetAt ==
  ASSUME NEW T, NEW s \in Seq(T), NEW k \in 1..Len(s), NEW x \in T
  PROVE  /\ [s EXCEPT ![k] = x] \in Seq(T) /\ Len([s EXCEPT ![k] = x]) = Len(s)
         /\ [s EXCEPT ![k] = x][k] = x
         /\ \A i \in 1..Len(s) : i # k => [s EXCEPT ![k] = x][i] = s[i]
<1>1. Len(s) \in Nat /\ DOMAIN s = 1..Len(s) /\ \A i \in 1..Len(s) : s[i] \in T
  BY LenProperties, ElementOfSeq
<1> QED
  BY <1>1, ExceptSeq
-----------------------------------------------------------------------------
(* The accounts of lines.                                                  *)
Weight(e, some) == IF e.file \in some THEN e.lines ELSE 0
Summing(u, info, some) ==
  /\ u[0] = 0 /\ \A i \in 1..Len(info) : u[i] = u[i - 1] + Weight(info[i], some)
  /\ \A i \in 0..Len(info) : u[i] \in Nat

(* Sums exist, by induction over their number.                             *)
Sums(g, n, h) == h = [i \in 0..n |-> IF i = 0 THEN 0 ELSE h[i - 1] + g[i]]
LEMMA SumExists ==
  ASSUME NEW n \in Nat, NEW g
  PROVE  \E h : Sums(g, n, h)
<1> DEFINE S == {k \in Nat : \E h : Sums(g, k, h)}
<1>1. 0 \in S
  <2>1. Sums(g, 0, [i \in 0..0 |-> 0])
    BY DEF Sums
  <2> QED
    BY <2>1
<1>2. ASSUME NEW k \in Nat, k \in S PROVE k + 1 \in S
  <2>1. PICK f : Sums(g, k, f)
    BY <1>2
  <2>2. PICK h : h = [i \in 0..(k + 1) |-> IF i <= k THEN f[i] ELSE f[k] + g[k + 1]]
    OBVIOUS
  <2>3. \A i \in 0..(k + 1) : h[i] = IF i <= k THEN f[i] ELSE f[k] + g[k + 1]
    BY <2>2
  <2>4. \A i \in 0..k : f[i] = IF i = 0 THEN 0 ELSE f[i - 1] + g[i]
    BY <2>1 DEF Sums
  <2>5. \A i \in 0..(k + 1) : h[i] = IF i = 0 THEN 0 ELSE h[i - 1] + g[i]
    <3> SUFFICES ASSUME NEW i \in 0..(k + 1) PROVE h[i] = IF i = 0 THEN 0 ELSE h[i - 1] + g[i]
      OBVIOUS
    <3>1. CASE i <= k
      <4>1. h[i] = f[i] /\ i \in 0..k /\ (i # 0 => i - 1 \in 0..(k + 1) /\ i - 1 <= k)
        BY <2>3, <3>1
      <4>2. i # 0 => h[i - 1] = f[i - 1]
        BY <2>3, <4>1
      <4> QED
        BY <2>4, <4>1, <4>2
    <3>2. CASE i = k + 1
      <4>1. h[i] = f[k] + g[k + 1] /\ h[k] = f[k] /\ i # 0 /\ i - 1 = k
        BY <2>3, <3>2
      <4> QED
        BY <3>2, <4>1
    <3> QED
      BY <3>1, <3>2
  <2>6. h = [i \in 0..(k + 1) |-> h[i]]
    BY <2>2
  <2>7. Sums(g, k + 1, h)
    <3>1. h = [i \in 0..(k + 1) |-> IF i = 0 THEN 0 ELSE h[i - 1] + g[i]]
      BY <2>5, <2>6
    <3> QED
      BY <3>1 DEF Sums
  <2> QED
    BY <2>7
<1> HIDE DEF S
<1>3. n \in S
  BY <1>1, <1>2, NatInd
<1> QED
  BY <1>3 DEF S

LEMMA SumIs ==
  ASSUME NEW info \in Seq(Info), NEW some
  PROVE  Summing(LinesUpTo(info, some), info, some)
<1> DEFINE n == Len(info)
           g == [i \in 1..n |-> Weight(info[i], some)]
<1>1. n \in Nat /\ \A i \in 1..n : info[i] \in Info
  BY LenProperties, ElementOfSeq
<1>2. \A i \in 1..n : Weight(info[i], some) \in Nat
  BY <1>1 DEF Weight, Info
<1> HIDE DEF n
<1>3. PICK f : f = CHOOSE u : u = [i \in 0..n |-> IF i = 0 THEN 0 ELSE u[i - 1] + (IF info[i].file \in some THEN info[i].lines ELSE 0)]
  OBVIOUS
<1>4. LinesUpTo(info, some) = f
  BY <1>3, Zenon DEF LinesUpTo, n
<1>5. f = [i \in 0..n |-> IF i = 0 THEN 0 ELSE f[i - 1] + (IF info[i].file \in some THEN info[i].lines ELSE 0)]
  <2>1. PICK h : h = [i \in 0..n |-> IF i = 0 THEN 0 ELSE h[i - 1] + g[i]]
    <3> HIDE DEF g
    <3> QED
      BY <1>1, SumExists DEF Sums
  <2>2. \A i \in 0..n : i # 0 => g[i] = (IF info[i].file \in some THEN info[i].lines ELSE 0)
    BY <1>1 DEF Weight
  <2>3. h = [i \in 0..n |-> IF i = 0 THEN 0 ELSE h[i - 1] + (IF info[i].file \in some THEN info[i].lines ELSE 0)]
    <3> HIDE DEF g
    <3> QED
      BY <2>1, <2>2
  <2> QED
    BY <1>3, <2>3, Zenon
<1>6. f[0] = 0 /\ \A i \in 1..n : f[i] = f[i - 1] + Weight(info[i], some)
  <2>1. \A i \in 1..n : i \in 0..n /\ i # 0
    BY <1>1
  <2>2. 0 \in 0..n
    BY <1>1
  <2> QED
    BY <1>5, <2>1, <2>2 DEF Weight
<1>7. \A i \in 0..n : f[i] \in Nat
  <2> DEFINE S == {k \in Nat : k <= n => f[k] \in Nat}
  <2>1. 0 \in S
    BY <1>6
  <2>2. ASSUME NEW k \in Nat, k \in S PROVE k + 1 \in S
    <3>1. CASE k + 1 <= n
      <4>1. k + 1 \in 1..n /\ (k + 1) - 1 = k /\ f[k] \in Nat
        BY <1>1, <2>2, <3>1
      <4> QED
        BY <1>2, <1>6, <4>1
    <3> QED
      BY <3>1
  <2> HIDE DEF S
  <2>3. \A k \in Nat : k \in S
    BY <2>1, <2>2, NatInd
  <2> QED
    BY <1>1, <2>3 DEF S
<1> QED
  BY <1>4, <1>6, <1>7 DEF Summing, n

(* An entry more.                                                          *)
LEMMA SumAppend ==
  ASSUME NEW info \in Seq(Info), NEW e \in Info, NEW some
  PROVE  /\ Append(info, e) \in Seq(Info) /\ Len(Append(info, e)) = Len(info) + 1
         /\ Append(info, e)[Len(info) + 1] = e
         /\ \A i \in 1..Len(info) : Append(info, e)[i] = info[i]
         /\ \A i \in 0..Len(info) : LinesUpTo(Append(info, e), some)[i] = LinesUpTo(info, some)[i]
         /\ LinesUpTo(Append(info, e), some)[Len(info) + 1] = Total(info, some) + Weight(e, some)
         /\ Total(Append(info, e), some) = Total(info, some) + Weight(e, some)
<1> DEFINE n == Len(info)
<1>1. PICK q : q = Append(info, e)
  OBVIOUS
<1>2. q \in Seq(Info) /\ Len(q) = n + 1 /\ n \in Nat /\ q[n + 1] = e /\ \A i \in 1..n : q[i] = info[i]
  BY <1>1, AppendProperties, LenProperties
<1>3. PICK u : u = LinesUpTo(info, some)
  OBVIOUS
<1>4. PICK v : v = LinesUpTo(q, some)
  OBVIOUS
<1> HIDE DEF n
<1>5. u[0] = 0 /\ (\A i \in 1..n : u[i] = u[i - 1] + Weight(info[i], some)) /\ \A i \in 0..n : u[i] \in Nat
  BY <1>3, SumIs DEF Summing, n
<1>6. v[0] = 0 /\ (\A i \in 1..(n + 1) : v[i] = v[i - 1] + Weight(q[i], some))
  BY <1>2, <1>4, SumIs DEF Summing
<1>7. \A i \in 0..n : v[i] = u[i]
  <2> DEFINE S == {k \in Nat : k <= n => v[k] = u[k]}
  <2>1. 0 \in S
    BY <1>5, <1>6
  <2>2. ASSUME NEW k \in Nat, k \in S PROVE k + 1 \in S
    <3>1. CASE k + 1 <= n
      <4>1. k + 1 \in 1..n /\ k + 1 \in 1..(n + 1) /\ (k + 1) - 1 = k /\ v[k] = u[k]
        BY <1>2, <2>2, <3>1
      <4>2. q[k + 1] = info[k + 1]
        BY <1>2, <4>1
      <4> QED
        BY <1>5, <1>6, <4>1, <4>2
    <3> QED
      BY <3>1
  <2> HIDE DEF S
  <2>3. \A k \in Nat : k \in S
    BY <2>1, <2>2, NatInd
  <2> QED
    BY <1>2, <2>3 DEF S
<1>8. v[n + 1] = u[n] + Weight(e, some)
  <2>1. n + 1 \in 1..(n + 1) /\ (n + 1) - 1 = n /\ n \in 0..n
    BY <1>2
  <2> QED
    BY <1>2, <1>6, <1>7, <2>1
<1> QED
  BY <1>1, <1>2, <1>3, <1>4, <1>7, <1>8 DEF Total, n

LEMMA TotalAppend ==
  ASSUME NEW info \in Seq(Info), NEW e \in Info, NEW q, q = Append(info, e), NEW some
  PROVE  Total(q, some) = Total(info, some) + Weight(e, some)
BY SumAppend

LEMMA SumGrows ==
  ASSUME NEW info \in Seq(Info), NEW some, NEW k \in 0..Len(info)
  PROVE  \A j \in 0..k : LinesUpTo(info, some)[j] <= LinesUpTo(info, some)[k]
<1> DEFINE n == Len(info)
           u == LinesUpTo(info, some)
<1>1. n \in Nat /\ \A i \in 1..n : info[i] \in Info
  BY LenProperties, ElementOfSeq
<1>2. (\A i \in 1..n : u[i] = u[i - 1] + Weight(info[i], some)) /\ \A i \in 0..n : u[i] \in Nat
  BY SumIs DEF Summing
<1>3. \A i \in 1..n : Weight(info[i], some) \in Nat
  BY <1>1 DEF Weight, Info
<1>4. k \in 0..n
  OBVIOUS
<1> HIDE DEF n, u
<1> DEFINE S == {d \in Nat : d <= k => u[k - d] <= u[k]}
<1>5. 0 \in S
  <2>1. k \in 0..n /\ k - 0 = k
    BY <1>1, <1>4
  <2> QED
    BY <1>2, <2>1
<1>6. ASSUME NEW d \in Nat, d \in S PROVE d + 1 \in S
  <2>1. CASE d + 1 <= k
    <3>1. k - d \in 1..n /\ (k - d) - 1 = k - (d + 1) /\ k - d \in 0..n /\ k - (d + 1) \in 0..n /\ u[k - d] <= u[k]
      BY <1>1, <1>4, <1>6, <2>1
    <3>2. u[k - d] = u[k - (d + 1)] + Weight(info[k - d], some) /\ u[k - (d + 1)] \in Nat /\ u[k] \in Nat
      BY <1>2, <1>4, <3>1
    <3> QED
      BY <1>3, <3>1, <3>2
  <2> QED
    BY <2>1
<1> HIDE DEF S
<1>7. \A d \in Nat : d \in S
  BY <1>5, <1>6, NatInd
<1>8. ASSUME NEW j \in 0..k PROVE u[j] <= u[k]
  <2>1. k - j \in Nat /\ k - j <= k /\ k - (k - j) = j
    BY <1>1, <1>4
  <2> QED
    BY <1>7, <2>1 DEF S
<1> QED
  BY <1>8 DEF u
-----------------------------------------------------------------------------
(* The place of a line in the accounts is unique, and                      *)
(* translate_absolute_line() finds it.                                     *)
LEMMA TranslateFinds ==
  ASSUME NEW info \in Seq(Info), NEW t \in Node, NEW single, NEW k \in 1..Len(info), LocatedAt(t, info, k, single), t.at.file \in single
  PROVE  translate_absolute_line(t.abs, info) = t.at
<1> DEFINE n == Len(info)
           u == LinesUpTo(info, AllFiles)
           Fits(i) == t.abs <= u[i] /\ \A j \in 1..(i - 1) : t.abs > u[j]
<1>1. n \in Nat /\ DOMAIN info = 1..n /\ k \in 1..n
  BY LenProperties
<1>2. (\A i \in 0..n : u[i] \in Nat) /\ t.abs \in Int
  BY SumIs DEF Summing, Node
<1>3. u[k - 1] < t.abs /\ t.abs <= u[k] /\ info[k].file = t.at.file
      /\ t.at.line = t.abs - u[k - 1] + LinesUpTo(info, {t.at.file})[k - 1]
  BY DEF LocatedAt
<1>4. Fits(k)
  <2>1. ASSUME NEW j \in 1..(k - 1) PROVE t.abs > u[j]
    <3>1. k - 1 \in 0..n /\ j \in 0..(k - 1) /\ j \in 0..n
      BY <1>1
    <3>2. u[j] <= u[k - 1]
      BY <3>1, SumGrows
    <3> QED
      BY <1>2, <1>3, <3>1, <3>2
  <2> QED
    BY <1>3, <2>1
<1>5. ASSUME NEW i \in 1..n, Fits(i) PROVE i = k
  <2>1. CASE i < k
    <3>1. i \in 1..(k - 1) /\ i \in 0..n
      BY <1>1, <2>1
    <3> QED
      BY <1>2, <1>4, <1>5, <3>1
  <2>2. CASE k < i
    <3>1. k \in 1..(i - 1) /\ k \in 0..n
      BY <1>1, <2>2
    <3> QED
      BY <1>2, <1>3, <1>5, <3>1
  <2> QED
    BY <1>1, <2>1, <2>2
<1>6. PICK c : c = CHOOSE i \in DOMAIN info : Fits(i)
  OBVIOUS
<1>7. c = k
  <2> HIDE DEF Fits
  <2> QED
    BY <1>1, <1>4, <1>5, <1>6
<1>8. translate_absolute_line(t.abs, info) =
        [file |-> info[c].file, line |-> t.abs - u[c - 1] + LinesUpTo(info, {info[c].file})[c - 1]]
  BY <1>6 DEF translate_absolute_line
<1>9. t.at = [file |-> t.at.file, line |-> t.at.line]
  BY DEF Node, Place
<1> QED
  BY <1>3, <1>7, <1>8, <1>9

(* A located node stays where it is when another entry is made.            *)
LEMMA StaysLocated ==
  ASSUME NEW info \in Seq(Info), NEW e \in Info, NEW t \in Node, NEW k \in 1..Len(info),
         NEW single, LocatedAt(t, info, k, single)
  PROVE  LocatedAt(t, Append(info, e), k, single)
<1>1. Len(info) \in Nat
  BY LenProperties
<1>2. k - 1 \in 0..Len(info) /\ k \in 0..Len(info)
  BY <1>1
<1>3. /\ Append(info, e)[k] = info[k]
      /\ LinesUpTo(Append(info, e), AllFiles)[k] = LinesUpTo(info, AllFiles)[k]
      /\ LinesUpTo(Append(info, e), AllFiles)[k - 1] = LinesUpTo(info, AllFiles)[k - 1]
      /\ LinesUpTo(Append(info, e), {t.at.file})[k - 1] = LinesUpTo(info, {t.at.file})[k - 1]
  BY <1>2, SumAppend
<1> QED
  BY <1>3 DEF LocatedAt

(* The entry for the lines of this file that were read so far.             *)
Segment == [lines |-> current_line - saved, file |-> file]

LEMMA ReadIs ==
  ASSUME Accounts
  PROVE  /\ Segment \in Info /\ Segment.file = file /\ Segment.lines = current_line - saved
         /\ save_file_info(file, current_line - saved) = Append(file_info, Segment)
BY DEF Accounts, LineTypes, Balance, Info, Segment, save_file_info

(* A node behind all entries is in that one.                               *)
LEMMA BecomesLocated ==
  ASSUME Accounts, NEW t \in Node, Current(t)
  PROVE  LocatedAt(t, Append(file_info, Segment), Len(file_info) + 1, Singles)
<1>1. PICK e \in Info : e = Segment /\ e.file = file /\ e.lines = current_line - saved
  BY ReadIs
<1>2. PICK n : n = Len(file_info)
  OBVIOUS
<1>3. n \in Nat /\ file_info \in Seq(Info) /\ saved \in Nat /\ current_line \in Nat
  BY <1>2, LenProperties DEF Accounts, LineTypes
<1>4. PICK q : q = Append(file_info, e)
  OBVIOUS
<1>5. /\ q[n + 1] = e
      /\ LinesUpTo(q, AllFiles)[n] = Total(file_info, AllFiles)
      /\ LinesUpTo(q, AllFiles)[n + 1] = Total(file_info, AllFiles) + Weight(e, AllFiles)
      /\ LinesUpTo(q, {file})[n] = Total(file_info, {file})
  BY <1>1, <1>2, <1>3, <1>4, SumAppend DEF Total
<1>6. Weight(e, AllFiles) = current_line - saved
  BY <1>1 DEF Weight, Accounts, LineTypes
<1>7. Total(file_info, AllFiles) \in Nat
  BY <1>2, <1>3, SumIs DEF Summing, Total
<1>8. t.at.file = file /\ t.abs > Total(file_info, AllFiles) /\ t.abs \in Int /\ t.at.line \in Nat
      /\ t.at.line = t.abs - Total(file_info, AllFiles) + saved /\ t.at.line < current_line
  BY DEF Current, Node, Place
<1>9. file \in Singles => saved = Total(file_info, {file})
  <2>1. 1 \in 1..Len(where)
    <3>1. Len(inctop) \in Nat /\ Len(where) = Len(inctop) + 1
      BY LenProperties DEF Accounts, LineTypes, Frames
    <3> QED
      BY <3>1
  <2>2. where[1].file = file
    BY DEF Accounts, Frames
  <2> QED
    BY <2>1, <2>2 DEF Accounts, Balance, Accounted
<1>10. LinesUpTo(q, AllFiles)[n] < t.abs /\ t.abs <= LinesUpTo(q, AllFiles)[n + 1]
  BY <1>3, <1>5, <1>6, <1>7, <1>8
<1>11. t.at.file \in Singles => t.at.line = t.abs - LinesUpTo(q, AllFiles)[n] + LinesUpTo(q, {t.at.file})[n]
  BY <1>3, <1>5, <1>7, <1>8, <1>9
<1>12. (n + 1) - 1 = n /\ q[n + 1].file = t.at.file
  BY <1>1, <1>3, <1>5, <1>8
<1>13. LocatedAt(t, q, n + 1, Singles)
  BY <1>10, <1>11, <1>12 DEF LocatedAt
<1> QED
  BY <1>1, <1>2, <1>4, <1>13

(* What is accounted for when that entry is made, all nodes among it.      *)
LEMMA EntryMade ==
  ASSUME Accounts, NEW q, q = save_file_info(file, current_line - saved)
  PROVE  /\ q \in Seq(Info) /\ Total(q, AllFiles) = base + current_line
         /\ \A g \in AllFiles : /\ Total(q, {g}) = Total(file_info, {g}) + (IF g = file THEN current_line - saved ELSE 0)
                               /\ Total(file_info, {g}) \in Nat
         /\ \A i \in 1..Len(told) : \E k \in 1..Len(q) : LocatedAt(told[i], q, k, Singles)
<1>1. q = Append(file_info, Segment) /\ Segment \in Info /\ Segment.file = file /\ Segment.lines = current_line - saved
  BY ReadIs
<1>2. file_info \in Seq(Info) /\ Len(file_info) \in Nat /\ told \in Seq(Node)
  BY LenProperties DEF Accounts, LineTypes
<1>3. q \in Seq(Info) /\ Len(q) = Len(file_info) + 1
  <2>1. PICK e \in Info : e = Segment
    BY <1>1
  <2>2. q = Append(file_info, e)
    BY <1>1, <2>1
  <2> QED
    BY <1>2, <2>2, AppendProperties
<1>4. ASSUME NEW some PROVE Total(q, some) = Total(file_info, some) + Weight(Segment, some) /\ Total(file_info, some) \in Nat
  <2>1. Total(file_info, some) \in Nat
    BY <1>2, SumIs DEF Summing, Total
  <2>2. PICK e \in Info : e = Segment
    BY <1>1
  <2>3. PICK info \in Seq(Info) : info = file_info
    BY <1>2
  <2>4. q = Append(info, e)
    BY <1>1, <2>2, <2>3
  <2>5. Total(q, some) = Total(info, some) + Weight(e, some)
    BY <2>4, TotalAppend
  <2> QED
    BY <2>1, <2>2, <2>3, <2>5
<1>5. Total(q, AllFiles) = base + current_line
  <2>1. Weight(Segment, AllFiles) = current_line - saved
    BY <1>1 DEF Weight, Accounts, LineTypes
  <2> QED
    BY <1>4, <2>1 DEF Accounts, LineTypes, Balance
<1>6. ASSUME NEW g \in AllFiles
      PROVE  /\ Total(q, {g}) = Total(file_info, {g}) + (IF g = file THEN current_line - saved ELSE 0)
             /\ Total(file_info, {g}) \in Nat
  <2>1. Weight(Segment, {g}) = IF g = file THEN current_line - saved ELSE 0
    BY <1>1 DEF Weight
  <2> QED
    BY <1>4, <2>1
<1>7. ASSUME NEW i \in 1..Len(told) PROVE \E k \in 1..Len(q) : LocatedAt(told[i], q, k, Singles)
  <2>1. PICK t \in Node : t = told[i]
    BY <1>2, ElementOfSeq
  <2>2. CASE Located(t)
    <3>1. PICK k \in 1..Len(file_info) : LocatedAt(t, file_info, k, Singles)
      BY <2>2 DEF Located
    <3>2. LocatedAt(t, q, k, Singles)
      BY <1>1, <1>2, <3>1, StaysLocated
    <3>3. k \in 1..Len(q)
      BY <1>2, <1>3
    <3> QED
      BY <2>1, <3>2, <3>3
  <2>3. CASE Current(t)
    <3>1. LocatedAt(t, q, Len(file_info) + 1, Singles)
      BY <1>1, <2>3, BecomesLocated
    <3>2. Len(file_info) + 1 \in 1..Len(q)
      BY <1>2, <1>3
    <3> QED
      BY <2>1, <3>1, <3>2
  <2> QED
    BY <2>1, <2>2, <2>3 DEF Accounts, Placed
<1> QED
  BY <1>3, <1>5, <1>6, <1>7

(* Fewer files are included once, and the nodes stay located.              *)
LEMMA AllLocated ==
  ASSUME Accounts, told' = told, file_info' = save_file_info(file, current_line - saved), Singles' \subseteq Singles
  PROVE  AllPlaced'
<1>1. \A i \in 1..Len(told) : \E k \in 1..Len(file_info') : LocatedAt(told[i], file_info', k, Singles)
  BY EntryMade
<1>2. \A i \in 1..Len(told') : \E k \in 1..Len(file_info') : LocatedAt(told'[i], file_info', k, Singles')
  BY <1>1 DEF LocatedAt
<1> QED
  BY <1>2 DEF AllPlaced, Located
-----------------------------------------------------------------------------
(* The accounts are kept.                                                  *)
UncountedFiles == UNCHANGED <<inctop, file, base, saved, file_info, opened>>

(* A line of the file that is read: its number alone changes.              *)
LEMMA LinesGoOn ==
  ASSUME Accounts, Counted, Next1, UncountedFiles, told' \in Seq(Node)
  PROVE  LineTypes' /\ Frames' /\ Balance' /\ Singles' = Singles
<1>1. current_line' = current_line + 1 /\ inctop' = inctop /\ file' = file /\ base' = base /\ saved' = saved
      /\ file_info' = file_info /\ opened' = opened
  BY DEF Counted, UncountedFiles
<1>2. Singles' = Singles
  BY <1>1 DEF Singles
<1>3. Len(inctop) \in Nat /\ Len(where) = Len(inctop) + 1 /\ where[1] = [file |-> file, line |-> current_line]
      /\ current_line \in Nat /\ file \in AllFiles /\ where \in Seq(Place)
  BY LenProperties DEF Accounts, LineTypes, Frames
<1>4. PICK p \in Place : p = [file |-> file, line |-> current_line + 1]
  <2>1. current_line + 1 \in Nat \ {0}
    BY <1>3
  <2>2. [file |-> file, line |-> current_line + 1] \in Place
    BY <1>3, <2>1 DEF Place
  <2> QED
    BY <2>2
<1>5. where' = [where EXCEPT ![1] = p]
  <2>1. [where[1] EXCEPT !.line = where[1].line + 1] = p
    BY <1>3, <1>4
  <2>2. where' = [where EXCEPT ![1] = [where[1] EXCEPT !.line = where[1].line + 1]]
    BY DEF Next1
  <2> QED
    BY <2>1, <2>2
<1>6. 1 \in 1..Len(where)
  BY <1>3
<1>7. /\ where' \in Seq(Place) /\ Len(where') = Len(where) /\ where'[1] = p
      /\ \A i \in 1..Len(where) : i # 1 => where'[i] = where[i]
  BY <1>3, <1>5, <1>6, SetAt
<1>8. \A i \in 1..Len(where) : where'[i].file = where[i].file
  BY <1>3, <1>4, <1>7
<1>9. LineTypes'
  BY <1>1, <1>3, <1>7 DEF Accounts, LineTypes
<1>10. Frames'
  <2>1. Len(where') = Len(inctop') + 1 /\ where'[1] = [file |-> file', line |-> current_line']
    BY <1>1, <1>3, <1>4, <1>7
  <2>2. ASSUME NEW i \in 1..Len(inctop') PROVE where'[i + 1] = inctop'[i]
    <3>1. i \in 1..Len(inctop) /\ i + 1 \in 1..Len(where) /\ i + 1 # 1
      BY <1>1, <1>3
    <3> QED
      BY <1>1, <1>7, <3>1 DEF Accounts, Frames
  <2>3. \A i, j \in 1..Len(where') : i # j /\ where'[i].file = where'[j].file => where'[i].file \notin Singles'
    BY <1>2, <1>7, <1>8 DEF Accounts, Frames
  <2> QED
    BY <2>1, <2>2, <2>3 DEF Frames
<1>11. Balance'
  <2>1. base' + saved' = Total(file_info', AllFiles) /\ current_line' > saved'
    BY <1>1, <1>3 DEF Accounts, LineTypes, Balance
  <2>2. ASSUME NEW i \in 1..Len(where'), where'[i].file \in Singles'
        PROVE Accounted(i)' = Total(file_info', {where'[i].file})
    <3>1. i \in 1..Len(where) /\ where'[i].file = where[i].file
      BY <1>7, <1>8
    <3>2. Accounted(i)' = Accounted(i)
      BY <1>1, <1>7, <3>1 DEF Accounted
    <3> QED
      BY <1>1, <1>2, <2>2, <3>1, <3>2 DEF Accounts, Balance
  <2>3. ASSUME NEW f \in Files, opened'[f] = 0
        PROVE Total(file_info', {f}) = 0 /\ \A i \in 1..Len(where') : where'[i].file # f
    BY <1>1, <1>7, <1>8, <2>3 DEF Accounts, Balance
  <2> QED
    BY <2>1, <2>2, <2>3 DEF Balance
<1> QED
  BY <1>2, <1>9, <1>10, <1>11

LEMMA OneStays ==
  ASSUME Accounts, Counted, UncountedFiles, NEW t \in Node, Located(t) \/ Current(t)
  PROVE  (Located(t) \/ Current(t))'
<1>1. current_line' = current_line + 1 /\ file' = file /\ saved' = saved /\ file_info' = file_info /\ opened' = opened
  BY DEF Counted, UncountedFiles
<1>2. current_line \in Nat /\ t.at.line \in Nat
  BY DEF Accounts, LineTypes, Node, Place
<1>3. CASE Located(t)
  <2>1. Singles' = Singles
    BY <1>1 DEF Singles
  <2> QED
    BY <1>1, <1>3, <2>1 DEF Located, LocatedAt
<1>4. CASE Current(t)
  BY <1>1, <1>2, <1>4 DEF Current
<1> QED
  BY <1>3, <1>4

(* No node on the line ...                                                 *)
LEMMA PlainAccounts ==
  ASSUME Accounts, Counted, Next1, UncountedFiles, told' = told
  PROVE  Accounts'
<1>1. told' \in Seq(Node) /\ told \in Seq(Node)
  BY DEF Accounts, LineTypes
<1>2. LineTypes' /\ Frames' /\ Balance'
  BY <1>1, LinesGoOn
<1>3. ASSUME NEW i \in 1..Len(told) PROVE (Located(told[i]) \/ Current(told[i]))'
  <2>1. PICK t \in Node : t = told[i]
    BY <1>1, ElementOfSeq
  <2>2. Located(t) \/ Current(t)
    BY <2>1 DEF Accounts, Placed
  <2>3. (Located(t) \/ Current(t))'
    BY <2>2, OneStays
  <2>4. t = told'[i]
    BY <2>1
  <2> QED
    BY <2>3, <2>4
<1>4. Placed'
  BY <1>3 DEF Placed
<1> QED
  BY <1>2, <1>4 DEF Accounts

(* ... and a node made of it.                                              *)
LEMMA CodeAccounts ==
  ASSUME Accounts, Counted, Next1, UncountedFiles, NEW fits \in BOOLEAN,
         told' = Append(told, [abs |-> base + current_line, at |-> where[1], meant |-> fits])
  PROVE  Accounts' /\ Len(told') = Len(told) + 1 /\ (\A i \in 1..Len(told) : told'[i] = told[i]) /\ told'[Len(told) + 1].meant = fits
<1>1. told \in Seq(Node) /\ Len(told) \in Nat /\ current_line \in Nat /\ saved \in Nat /\ base \in Int /\ current_line > saved
      /\ file \in AllFiles
  BY LenProperties DEF Accounts, LineTypes, Balance
<1>2. where[1] = [file |-> file, line |-> current_line] /\ where[1] \in Place
  BY <1>1 DEF Accounts, Frames, Place
<1>3. PICK n \in Node : n = [abs |-> base + current_line, at |-> where[1], meant |-> fits]
  BY <1>1, <1>2 DEF Node
<1>4. /\ told' \in Seq(Node) /\ Len(told') = Len(told) + 1
      /\ told'[Len(told) + 1] = n /\ \A i \in 1..Len(told) : told'[i] = told[i]
  BY <1>1, <1>3, AppendProperties
<1>5. LineTypes' /\ Frames' /\ Balance'
  BY <1>4, LinesGoOn
<1>6. ASSUME NEW i \in 1..Len(told') PROVE (Located(told[i]) \/ Current(told[i]))'
  <2>1. CASE i \in 1..Len(told)
    <3>1. PICK t \in Node : t = told[i]
      BY <1>1, <2>1, ElementOfSeq
    <3>2. Located(t) \/ Current(t)
      BY <2>1, <3>1 DEF Accounts, Placed
    <3>3. (Located(t) \/ Current(t))'
      BY <3>2, OneStays
    <3>4. t = told'[i]
      BY <1>4, <2>1, <3>1
    <3> QED
      BY <3>3, <3>4
  <2>2. CASE i = Len(told) + 1
    <3>1. base + saved = Total(file_info, AllFiles)
      BY DEF Accounts, Balance
    <3>2. n.abs = base + current_line /\ n.at.file = file /\ n.at.line = current_line
      BY <1>2, <1>3
    <3>3. current_line' = current_line + 1 /\ file' = file /\ saved' = saved /\ file_info' = file_info
      BY DEF Counted, UncountedFiles
    <3>4. Current(n)'
      BY <1>1, <3>1, <3>2, <3>3 DEF Current
    <3>5. n = told'[i]
      BY <1>4, <2>2
    <3> QED
      BY <3>4, <3>5
  <2> QED
    BY <1>1, <1>4, <2>1, <2>2
<1>7. Placed'
  BY <1>6 DEF Placed
<1> QED
  BY <1>3, <1>4, <1>5, <1>7 DEF Accounts
(* The lines the accounts hold of each file, as a function, before an      *)
(* entry is made and after it.                                             *)
PerFile(info, lines_of) == \A g \in AllFiles : lines_of[g] = Total(info, {g})
Holding(old) ==
  /\ \A i \in 1..Len(where) : where[i].file \in AllFiles
  /\ \A i \in 1..Len(where) : where[i].file \in Singles => Accounted(i) = old[where[i].file]
  /\ \A g \in Files : opened[g] = 0 => old[g] = 0
EntryAdds(old, new) ==
  /\ \A g \in AllFiles : old[g] \in Nat /\ (g # file => new[g] = old[g])
  /\ new[file] = old[file] + (current_line - saved)
LEMMA LinesPerFile ==
  ASSUME Accounts, NEW q, q = save_file_info(file, current_line - saved)
  PROVE  \E old, new : PerFile(q, new) /\ Holding(old) /\ EntryAdds(old, new)
<1>1. PICK old : old = [g \in AllFiles |-> Total(file_info, {g})]
  OBVIOUS
<1>2. PICK new : new = [g \in AllFiles |-> Total(q, {g})]
  OBVIOUS
<1>3. PerFile(file_info, old) /\ PerFile(q, new)
  BY <1>1, <1>2 DEF PerFile
<1>4. file \in AllFiles /\ where \in Seq(Place)
  BY DEF Accounts, LineTypes
<1>5. EntryAdds(old, new)
  <2>1. ASSUME NEW g \in AllFiles
        PROVE old[g] \in Nat /\ (g # file => new[g] = old[g]) /\ (g = file => new[g] = old[g] + (current_line - saved))
    <3>1. old[g] = Total(file_info, {g}) /\ new[g] = Total(q, {g})
      BY <1>3 DEF PerFile
    <3>2. /\ Total(q, {g}) = Total(file_info, {g}) + (IF g = file THEN current_line - saved ELSE 0)
          /\ Total(file_info, {g}) \in Nat
      BY EntryMade
    <3>3. CASE g # file
      BY <3>1, <3>2, <3>3
    <3>4. CASE g = file
      BY <3>1, <3>2, <3>4
    <3> QED
      BY <3>3, <3>4
  <2> QED
    BY <1>4, <2>1 DEF EntryAdds
<1>6. Holding(old)
  <2>1. \A i \in 1..Len(where) : where[i].file \in AllFiles
    <3>1. \A i \in 1..Len(where) : where[i] \in Place
      BY <1>4, ElementOfSeq
    <3> QED
      BY <3>1 DEF Place
  <2>2. ASSUME NEW i \in 1..Len(where), where[i].file \in Singles PROVE Accounted(i) = old[where[i].file]
    <3>1. Accounted(i) = Total(file_info, {where[i].file})
      BY <2>2 DEF Accounts, Balance
    <3> QED
      BY <1>3, <2>1, <3>1 DEF PerFile
  <2>3. ASSUME NEW g \in Files, opened[g] = 0 PROVE old[g] = 0
    <3>1. Total(file_info, {g}) = 0 /\ g \in AllFiles
      BY <2>3 DEF Accounts, Balance, AllFiles
    <3> QED
      BY <1>3, <3>1 DEF PerFile
  <2> QED
    BY <2>1, <2>2, <2>3 DEF Holding
<1> QED
  BY <1>3, <1>5, <1>6

LEMMA NotFirst == \A n \in Nat, i \in Nat : i \in 1..n /\ i # 1 => i \in 2..n
OBVIOUS

(* An account is made of the file so far, and another file is read.        *)
LEMMA IncludeAccounts ==
  ASSUME Accounts, NEW f \in Files, told' = told,
         inctop' = <<[line |-> current_line + 1, file |-> file]>> \o inctop,
         file_info' = save_file_info(file, current_line - saved),
         base' = base + current_line, saved' = 0, current_line' = 1, file' = f,
         where' = <<[file |-> f, line |-> 1], [where[1] EXCEPT !.line = @ + 1]>> \o Tail(where),
         opened' = [opened EXCEPT ![f] = @ + 1]
  PROVE  Accounts'
<1>1. /\ Len(inctop) \in Nat /\ Len(where) = Len(inctop) + 1 /\ where[1] = [file |-> file, line |-> current_line]
      /\ current_line \in Nat /\ saved \in Nat /\ base \in Int /\ file \in AllFiles /\ where \in Seq(Place) /\ inctop \in Seq(Place)
      /\ opened \in [Files -> Nat] /\ told \in Seq(Node)
  BY LenProperties DEF Accounts, LineTypes, Frames
<1>2. PICK old, new : PerFile(file_info', new) /\ Holding(old) /\ EntryAdds(old, new)
  BY LinesPerFile
<1>20. /\ file_info' \in Seq(Info) /\ Total(file_info', AllFiles) = base + current_line
       /\ \A g \in AllFiles : old[g] \in Nat /\ (g # file => new[g] = old[g])
       /\ new[file] = old[file] + (current_line - saved)
  BY <1>2, EntryMade DEF EntryAdds
<1>3. PICK p \in Place : p = [file |-> file, line |-> current_line + 1]
  <2>1. current_line + 1 \in Nat \ {0}
    BY <1>1
  <2>2. [file |-> file, line |-> current_line + 1] \in Place
    BY <1>1, <2>1 DEF Place
  <2> QED
    BY <2>2
<1>4. PICK q \in Place : q = [file |-> f, line |-> 1]
  BY DEF Place, AllFiles
(* The stack of frames with the new one on top.                            *)
<1>5. PICK rest : rest = Tail(where)
  OBVIOUS
<1>50. rest \in Seq(Place) /\ Len(rest) = Len(inctop) /\ \A i \in 1..Len(inctop) : rest[i] = where[i + 1]
  <2>1. PICK w \in Seq(Place) : w = where
    BY <1>1
  <2>2. Len(w) > 0 /\ Len(w) - 1 = Len(inctop) /\ rest = Tail(w)
    BY <1>1, <1>5, <2>1
  <2>3. rest \in Seq(Place) /\ Len(rest) = Len(w) - 1 /\ \A i \in 1..(Len(w) - 1) : rest[i] = w[i + 1]
    BY <2>2, RestIs
  <2> QED
    BY <2>1, <2>2, <2>3
<1>6. PICK upper : upper = <<p>> \o rest
  OBVIOUS
<1>60. /\ upper \in Seq(Place) /\ Len(upper) = Len(inctop) + 1 /\ upper[1] = p
       /\ \A i \in 1..Len(inctop) : upper[i + 1] = where[i + 1]
  <2>1. upper \in Seq(Place) /\ Len(upper) = Len(rest) + 1 /\ upper[1] = p /\ \A i \in 1..Len(rest) : upper[i + 1] = rest[i]
    BY <1>6, <1>50, ConsIs
  <2> QED
    BY <1>50, <2>1
<1>7. where' = <<q>> \o upper
  <2>1. [where[1] EXCEPT !.line = @ + 1] = p
    BY <1>1, <1>3
  <2>2. where' = <<q, p>> \o rest
    BY <1>4, <1>5, <2>1
  <2>3. <<q, p>> \o rest = <<q>> \o (<<p>> \o rest)
    <3>1. <<q, p>> = <<q>> \o <<p>>
      OBVIOUS
    <3>2. <<q>> \in Seq(Place) /\ <<p>> \in Seq(Place)
      OBVIOUS
    <3> QED
      BY <1>50, <3>1, <3>2, ConcatAssociative
  <2> QED
    BY <1>6, <2>2, <2>3
<1>8. /\ where' \in Seq(Place) /\ Len(where') = Len(where) + 1 /\ where'[1] = q
      /\ \A i \in 1..Len(upper) : where'[i + 1] = upper[i]
  <2>1. PICK w : w = <<q>> \o upper
    OBVIOUS
  <2>2. w \in Seq(Place) /\ Len(w) = Len(upper) + 1 /\ w[1] = q /\ \A i \in 1..Len(upper) : w[i + 1] = upper[i]
    BY <1>60, <2>1, ConsIs
  <2> QED
    BY <1>1, <1>60, <1>7, <2>1, <2>2
<1>9. where'[2] = p
  <2>1. 1 \in 1..Len(upper) /\ 1 + 1 = 2
    BY <1>1, <1>60
  <2> QED
    BY <1>60, <1>8, <2>1
<1>10. ASSUME NEW i \in 2..Len(where) PROVE where'[i + 1] = where[i]
  <2>1. i \in 1..Len(upper) /\ i - 1 \in 1..Len(inctop) /\ (i - 1) + 1 = i
    BY <1>1, <1>60
  <2> QED
    BY <1>60, <1>8, <2>1
<1>11. /\ inctop' \in Seq(Place) /\ Len(inctop') = Len(inctop) + 1 /\ inctop'[1] = p
       /\ \A i \in 1..Len(inctop) : inctop'[i + 1] = inctop[i]
  <2>1. inctop' = <<p>> \o inctop
    BY <1>3
  <2> QED
    BY <1>1, <2>1, ConsIs
(* What an older frame is.                                                 *)
<1>12. ASSUME NEW i \in 2..Len(where')
       PROVE  /\ i - 1 \in 1..Len(where) /\ where'[i].file = where[i - 1].file
              /\ i > 2 => where'[i] = where[i - 1]
  <2>1. CASE i = 2
    BY <1>1, <1>3, <1>8, <1>9, <2>1
  <2>2. CASE i > 2
    <3>1. i - 1 \in 2..Len(where) /\ i - 1 \in 1..Len(where) /\ (i - 1) + 1 = i
      BY <1>1, <1>8, <2>2
    <3>2. where'[(i - 1) + 1] = where[i - 1]
      BY <1>10, <3>1
    <3> QED
      BY <3>1, <3>2
  <2>3. i = 2 \/ i > 2
    BY <1>1, <1>8
  <2> QED
    BY <2>1, <2>2, <2>3
<1>13. /\ Singles' \subseteq Singles
       /\ f \in Singles' => opened[f] = 0
       /\ \A g \in Files : opened'[g] = 0 => g # f /\ opened[g] = 0
  <2>1. \A g \in Files : opened'[g] = IF g = f THEN opened[g] + 1 ELSE opened[g]
    BY <1>1
  <2>2. \A g \in Files : opened[g] \in Nat
    BY <1>1
  <2> QED
    BY <2>1, <2>2 DEF Singles
<1>14. opened[f] = 0 => /\ Total(file_info, {f}) = 0
                        /\ \A i \in 1..Len(where) : where[i].file # f
  BY DEF Accounts, Balance
<1>15. LineTypes'
  <2>1. file' \in AllFiles /\ current_line' \in Nat /\ base' \in Int /\ saved' \in Nat
    BY <1>1 DEF AllFiles
  <2>2. opened' \in [Files -> Nat]
    BY <1>1
  <2> QED
    BY <1>1, <1>20, <1>8, <1>11, <2>1, <2>2 DEF LineTypes
<1>16. Frames'
  <2>1. Len(where') = Len(inctop') + 1 /\ where'[1] = [file |-> file', line |-> current_line']
    BY <1>1, <1>4, <1>8, <1>11
  <2>2. ASSUME NEW i \in 1..Len(inctop') PROVE where'[i + 1] = inctop'[i]
    <3>1. CASE i = 1
      <4>1. i + 1 = 2
        BY <3>1
      <4>2. inctop'[1] = p
        BY <1>11
      <4> QED
        BY <1>9, <3>1, <4>1, <4>2, Zenon
    <3>2. CASE i > 1
      <4>1. i \in 2..Len(where) /\ i - 1 \in 1..Len(inctop) /\ (i - 1) + 1 = i
        BY <1>1, <1>11, <3>2
      <4>2. where[(i - 1) + 1] = inctop[i - 1] /\ inctop'[(i - 1) + 1] = inctop[i - 1]
        BY <1>11, <4>1 DEF Accounts, Frames
      <4> QED
        BY <1>10, <4>1, <4>2
    <3>3. i = 1 \/ i > 1
      BY <1>1, <1>11
    <3> QED
      BY <3>1, <3>2, <3>3
  <2>3. ASSUME NEW i \in 1..Len(where'), NEW j \in 1..Len(where'), i # j, where'[i].file = where'[j].file
        PROVE where'[i].file \notin Singles'
    <3>1. ASSUME NEW k \in 2..Len(where'), where'[k].file = f PROVE f \notin Singles'
      <4>1. k - 1 \in 1..Len(where) /\ where[k - 1].file = f
        BY <1>12, <3>1
      <4> QED
        BY <1>13, <1>14, <4>1
    <3>2. where'[1].file = f
      BY <1>4, <1>8
    <3>0. Len(where') \in Nat /\ i \in Nat /\ j \in Nat
      BY <1>1, <1>8
    <3>3. CASE i = 1 \/ j = 1
      <4>1. i \in 2..Len(where') \/ j \in 2..Len(where')
        BY <2>3, <3>3, <3>0, NotFirst, Zenon
      <4> QED
        BY <2>3, <3>1, <3>2, <3>3, <4>1
    <3>4. CASE i # 1 /\ j # 1
      <4>1. i \in 2..Len(where') /\ j \in 2..Len(where')
        BY <2>3, <3>4, <3>0, NotFirst, Zenon
      <4>4. i - 1 \in 1..Len(where) /\ where'[i].file = where[i - 1].file
        BY <1>12, <4>1
      <4>5. j - 1 \in 1..Len(where) /\ where'[j].file = where[j - 1].file
        BY <1>12, <4>1
      <4>2. /\ i - 1 \in 1..Len(where) /\ j - 1 \in 1..Len(where) /\ i - 1 # j - 1
            /\ where'[i].file = where[i - 1].file /\ where'[j].file = where[j - 1].file
        <5>1. i - 1 # j - 1
          BY <1>1, <1>8, <2>3
        <5> QED
          BY <4>4, <4>5, <5>1
      <4>3. where[i - 1].file \notin Singles
        BY <2>3, <4>2 DEF Accounts, Frames
      <4> QED
        BY <1>13, <4>2, <4>3
    <3> QED
      BY <3>3, <3>4
  <2> QED
    BY <2>1, <2>2, <2>3 DEF Frames
<1>17. Balance'
  <2>1. base' + saved' = Total(file_info', AllFiles) /\ current_line' > saved'
    BY <1>1, <1>20
  <2>2. /\ \A i \in 1..Len(where) : where[i].file \in Singles => Accounted(i) = old[where[i].file]
        /\ \A i \in 1..Len(where) : where[i].file \in AllFiles
        /\ \A g \in Files : opened[g] = 0 => old[g] = 0
    BY <1>2 DEF Holding
  <2>3. 1 \in 1..Len(where) /\ where[1].file = file /\ f \in AllFiles
    BY <1>1 DEF AllFiles
  <2>4. ASSUME NEW i \in 1..Len(where'), where'[i].file \in Singles'
        PROVE where'[i].file \in AllFiles /\ Accounted(i)' = new[where'[i].file]
    <3>1. CASE i = 1
      <4>1. opened[f] = 0 /\ where'[i].file = f
        BY <1>4, <1>8, <1>13, <2>4, <3>1
      <4>2. f # file /\ old[f] = 0
        BY <1>14, <2>2, <2>3, <4>1
      <4>3. new[f] = 0
        BY <1>20, <2>3, <4>2
      <4> QED
        BY <2>3, <3>1, <4>1, <4>3 DEF Accounted
    <3>2. CASE i = 2
      <4>1. where'[i].file = file /\ where'[i].line = current_line + 1
        BY <1>3, <1>9, <3>2
      <4>2. old[file] = saved
        BY <1>13, <2>2, <2>3, <2>4, <4>1 DEF Accounted
      <4>3. new[file] = current_line
        BY <1>1, <1>20, <4>2
      <4>4. Accounted(i)' = where'[i].line - 1
        BY <3>2 DEF Accounted
      <4>5. where'[i].line - 1 = current_line
        <5>1. PICK x : x = where'[i].line
          OBVIOUS
        <5>2. current_line \in Nat /\ x = current_line + 1
          BY <1>1, <4>1, <5>1
        <5> QED
          BY <5>1, <5>2
      <4> QED
        BY <1>1, <4>1, <4>3, <4>4, <4>5, Zenon
    <3>3. CASE i > 2
      <4>1. PICK j \in 1..Len(where) : j = i - 1 /\ j # 1 /\ where'[i] = where[j]
        <5>1. i \in 2..Len(where')
          BY <1>1, <1>8, <3>3
        <5>2. i - 1 \in 1..Len(where) /\ where'[i] = where[i - 1] /\ i - 1 # 1
          BY <1>12, <3>3, <5>1
        <5> QED
          BY <5>2
      <4>2. PICK g \in AllFiles : g = where[j].file /\ g = where'[i].file
        BY <2>2, <4>1
      <4>3. g \in Singles
        BY <1>13, <2>4, <4>2
      <4>4. g # file
        BY <2>3, <4>1, <4>2, <4>3 DEF Accounts, Frames
      <4>5. new[g] = old[g]
        BY <1>20, <4>4
      <4>6. old[g] = where[j].line - 1
        BY <2>2, <4>1, <4>2, <4>3 DEF Accounted
      <4>7. Accounted(i)' = where'[i].line - 1
        BY <3>3 DEF Accounted
      <4> QED
        BY <4>1, <4>2, <4>5, <4>6, <4>7
    <3>4. i = 1 \/ i = 2 \/ i > 2
      BY <1>1, <1>8
    <3> QED
      BY <3>1, <3>2, <3>3, <3>4
  <2>5. ASSUME NEW g \in Files, opened'[g] = 0
        PROVE new[g] = 0 /\ g \in AllFiles /\ \A i \in 1..Len(where') : where'[i].file # g
    <3>1. g # f /\ opened[g] = 0 /\ g \in AllFiles
      BY <1>13, <2>5 DEF AllFiles
    <3>2. old[g] = 0 /\ \A i \in 1..Len(where) : where[i].file # g
      BY <2>2, <3>1 DEF Accounts, Balance
    <3>3. g # file
      BY <2>3, <3>2
    <3>4. new[g] = 0
      BY <1>20, <3>1, <3>2, <3>3
    <3>5. ASSUME NEW i \in 1..Len(where') PROVE where'[i].file # g
      <4>1. CASE i = 1
        BY <1>4, <1>8, <3>1, <4>1
      <4>2. CASE i # 1
        <5>1. i \in 2..Len(where')
          BY <1>1, <1>8, <4>2
        <5>2. i - 1 \in 1..Len(where) /\ where'[i].file = where[i - 1].file
          BY <1>12, <5>1
        <5>3. where[i - 1].file # g
          BY <3>2, <5>2
        <5> QED
          BY <5>2, <5>3
      <4> QED
        BY <4>1, <4>2
    <3> QED
      BY <3>1, <3>4, <3>5
  <2>6. ASSUME NEW i \in 1..Len(where'), where'[i].file \in Singles'
        PROVE Accounted(i)' = Total(file_info', {where'[i].file})
    BY <1>2, <2>4, <2>6 DEF PerFile
  <2>7. ASSUME NEW g \in Files, opened'[g] = 0
        PROVE Total(file_info', {g}) = 0 /\ \A i \in 1..Len(where') : where'[i].file # g
    BY <1>2, <2>5, <2>7 DEF PerFile
  <2> QED
    BY <2>1, <2>6, <2>7 DEF Balance
<1>18. Placed'
  <2>1. AllPlaced'
    BY <1>13, AllLocated
  <2> QED
    BY <2>1 DEF AllPlaced, Placed
<1> QED
  BY <1>15, <1>16, <1>17, <1>18 DEF Accounts

(* The end of an included file: the one behind it is read on.              *)
LEMMA EndOfIncludeAccounts ==
  ASSUME Accounts, inctop # <<>>, told' = told, opened' = opened,
         file_info' = save_file_info(file, current_line - saved),
         saved' = inctop[1].line - 1, base' = base + current_line - (inctop[1].line - 1),
         current_line' = inctop[1].line, file' = inctop[1].file, inctop' = Tail(inctop), where' = Tail(where)
  PROVE  Accounts'
<1>1. /\ Len(inctop) \in Nat /\ Len(where) = Len(inctop) + 1
      /\ current_line \in Nat /\ saved \in Nat /\ base \in Int /\ where \in Seq(Place) /\ inctop \in Seq(Place)
      /\ opened \in [Files -> Nat] /\ told \in Seq(Node)
  BY LenProperties DEF Accounts, LineTypes, Frames
<1>2. PICK old, new : PerFile(file_info', new) /\ Holding(old) /\ EntryAdds(old, new)
  BY LinesPerFile
<1>3. file_info' \in Seq(Info) /\ Total(file_info', AllFiles) = base + current_line
  BY EntryMade
<1>4. Len(inctop) > 0
  <2>1. Len(inctop) # 0
    BY <1>1, EmptySeq
  <2> QED
    BY <1>1, <2>1
<1>5. where' \in Seq(Place) /\ Len(where') = Len(inctop) /\ \A i \in 1..Len(inctop) : where'[i] = where[i + 1]
  <2>1. PICK w \in Seq(Place) : w = where
    BY <1>1
  <2>2. Len(w) > 0 /\ Len(w) - 1 = Len(inctop)
    BY <1>1, <2>1
  <2>3. Tail(w) \in Seq(Place) /\ Len(Tail(w)) = Len(w) - 1 /\ \A i \in 1..(Len(w) - 1) : Tail(w)[i] = w[i + 1]
    BY <2>2, RestIs
  <2> QED
    BY <2>1, <2>2, <2>3
<1>6. inctop' \in Seq(Place) /\ Len(inctop') = Len(inctop) - 1 /\ \A i \in 1..(Len(inctop) - 1) : inctop'[i] = inctop[i + 1]
  <2>1. PICK w \in Seq(Place) : w = inctop
    BY <1>1
  <2>2. Tail(w) \in Seq(Place) /\ Len(Tail(w)) = Len(w) - 1 /\ \A i \in 1..(Len(w) - 1) : Tail(w)[i] = w[i + 1]
    BY <1>4, <2>1, RestIs
  <2> QED
    BY <2>1, <2>2
<1>7. PICK p \in Place : p = inctop[1] /\ p = where[2] /\ p = where'[1]
  <2>1. 1 \in 1..Len(inctop) /\ 1 + 1 = 2
    BY <1>1, <1>4
  <2>2. where[1 + 1] = inctop[1] /\ inctop[1] \in Place
    BY <1>1, <2>1, ElementOfSeq DEF Accounts, Frames
  <2> QED
    BY <1>5, <2>1, <2>2
<1>8. p.file \in AllFiles /\ p.line \in Nat /\ p.line > 0 /\ p = [file |-> p.file, line |-> p.line]
  BY DEF Place
<1>9. Singles' = Singles
  BY DEF Singles
<1>10. /\ saved' = p.line - 1 /\ base' = base + current_line - (p.line - 1) /\ current_line' = p.line /\ file' = p.file
       /\ saved' \in Nat
  <2>1. /\ saved' = p.line - 1 /\ base' = base + current_line - (p.line - 1) /\ current_line' = p.line /\ file' = p.file
    BY <1>7, Zenon
  <2>2. p.line - 1 \in Nat
    BY <1>8
  <2> QED
    BY <2>1, <2>2, Zenon
<1>11. ASSUME NEW i \in 1..Len(where')
       PROVE  i + 1 \in 2..Len(where) /\ where'[i] = where[i + 1]
  BY <1>1, <1>5
<1>12. LineTypes'
  <2>1. file' \in AllFiles /\ current_line' \in Nat /\ saved' \in Nat
    BY <1>8, <1>10
  <2>2. base' \in Int
    BY <1>1, <1>8, <1>10
  <2>3. inctop' \in Seq(Place) /\ where' \in Seq(Place) /\ told' \in Seq(Node) /\ file_info' \in Seq(Info) /\ opened' \in [Files -> Nat]
    BY <1>1, <1>3, <1>5, <1>6
  <2> QED
    BY <2>1, <2>2, <2>3 DEF LineTypes
<1>13. Frames'
  <2>1. Len(where') = Len(inctop') + 1 /\ where'[1] = [file |-> file', line |-> current_line']
    BY <1>1, <1>5, <1>6, <1>7, <1>8, <1>10
  <2>2. ASSUME NEW i \in 1..Len(inctop') PROVE where'[i + 1] = inctop'[i]
    <3>1. i \in 1..(Len(inctop) - 1) /\ i + 1 \in 1..Len(inctop)
      BY <1>1, <1>6
    <3>2. where'[i + 1] = where[(i + 1) + 1] /\ inctop'[i] = inctop[i + 1]
      BY <1>5, <1>6, <3>1
    <3> QED
      BY <3>1, <3>2 DEF Accounts, Frames
  <2>3. ASSUME NEW i \in 1..Len(where'), NEW j \in 1..Len(where'), i # j, where'[i].file = where'[j].file
        PROVE where'[i].file \notin Singles'
    <3>1. i + 1 \in 2..Len(where) /\ where'[i] = where[i + 1]
      BY <1>11
    <3>2. j + 1 \in 2..Len(where) /\ where'[j] = where[j + 1]
      BY <1>11
    <3>3. i + 1 \in 1..Len(where) /\ j + 1 \in 1..Len(where) /\ i + 1 # j + 1
      BY <1>1, <2>3, <3>1, <3>2
    <3> QED
      BY <1>9, <2>3, <3>1, <3>2, <3>3 DEF Accounts, Frames
  <2> QED
    BY <2>1, <2>2, <2>3 DEF Frames
<1>14. Balance'
  <2>1. base' + saved' = Total(file_info', AllFiles) /\ current_line' > saved'
    <3>1. PICK b \in Int, c \in Nat, d \in Nat : b = base /\ c = current_line /\ d = p.line
      BY <1>1, <1>8
    <3>2. base' = b + c - (d - 1) /\ saved' = d - 1 /\ current_line' = d
      BY <1>10, <3>1
    <3>3. b + c - (d - 1) + (d - 1) = b + c /\ d > d - 1
      OBVIOUS
    <3> QED
      BY <1>3, <3>1, <3>2, <3>3
  <2>2. where[1].file = file /\ 1 \in 1..Len(where)
    BY <1>1 DEF Accounts, Frames
  <2>3. ASSUME NEW i \in 1..Len(where'), where'[i].file \in Singles'
        PROVE Accounted(i)' = Total(file_info', {where'[i].file})
    <3>1. PICK j \in 1..Len(where) : j = i + 1 /\ j # 1 /\ where'[i] = where[j]
      <4>1. i + 1 \in 2..Len(where) /\ where'[i] = where[i + 1]
        BY <1>11
      <4>2. i + 1 \in 1..Len(where) /\ i + 1 # 1
        BY <1>1, <4>1
      <4> QED
        BY <4>1, <4>2
    <3>2. PICK g \in AllFiles : g = where[j].file /\ g = where'[i].file
      BY <1>2, <3>1 DEF Holding
    <3>3. g \in Singles
      BY <1>9, <2>3, <3>2
    <3>4. g # file
      BY <2>2, <3>1, <3>2, <3>3 DEF Accounts, Frames
    <3>5. new[g] = old[g]
      BY <1>2, <3>4 DEF EntryAdds
    <3>6. old[g] = where[j].line - 1
      BY <1>2, <3>1, <3>2, <3>3 DEF Holding, Accounted
    <3>7. Accounted(i)' = where[j].line - 1
      <4>1. CASE i = 1
        BY <1>7, <1>10, <3>1, <4>1 DEF Accounted
      <4>2. CASE i # 1
        BY <3>1, <4>2 DEF Accounted
      <4> QED
        BY <4>1, <4>2
    <3>8. Total(file_info', {g}) = new[g]
      BY <1>2 DEF PerFile
    <3> QED
      BY <3>2, <3>5, <3>6, <3>7, <3>8
  <2>4. ASSUME NEW g \in Files, opened'[g] = 0
        PROVE Total(file_info', {g}) = 0 /\ \A i \in 1..Len(where') : where'[i].file # g
    <3>1. g \in AllFiles /\ opened[g] = 0
      BY <2>4 DEF AllFiles
    <3>2. old[g] = 0 /\ \A i \in 1..Len(where) : where[i].file # g
      BY <1>2, <3>1 DEF Holding, Accounts, Balance
    <3>3. new[g] = 0
      BY <1>2, <2>2, <3>1, <3>2 DEF EntryAdds
    <3>4. ASSUME NEW i \in 1..Len(where') PROVE where'[i].file # g
      <4>1. i + 1 \in 2..Len(where) /\ where'[i] = where[i + 1]
        BY <1>11
      <4>2. i + 1 \in 1..Len(where)
        BY <1>1, <4>1
      <4> QED
        BY <3>2, <4>1, <4>2
    <3> QED
      BY <1>2, <3>1, <3>3, <3>4 DEF PerFile
  <2> QED
    BY <2>1, <2>3, <2>4 DEF Balance
<1>15. Placed'
  <2>1. AllPlaced'
    BY <1>9, AllLocated
  <2> QED
    BY <2>1 DEF AllPlaced, Placed
<1> QED
  BY <1>12, <1>13, <1>14, <1>15 DEF Accounts

(* A program begins with empty accounts ...                                *)
LEMMA StartAccounts ==
  ASSUME inctop = <<>>, inctop' = <<>>, file' = "main", current_line' = 1, base' = 0, saved' = 0, file_info' = <<>>,
         where' = <<[file |-> "main", line |-> 1]>>, told' = <<>>, opened' = [f \in Files |-> 0]
  PROVE  Accounts'
<1>1. ASSUME NEW some PROVE Total(file_info', some) = 0
  <2>1. PICK q \in Seq(Info) : q = <<>> /\ Len(q) = 0
    BY EmptySeq
  <2>2. LinesUpTo(q, some)[0] = 0
    BY <2>1, SumIs DEF Summing
  <2> QED
    BY <2>1, <2>2 DEF Total
<1>2. Len(where') = 1 /\ where'[1] = [file |-> "main", line |-> 1] /\ Len(inctop') = 0 /\ Len(told') = 0
  BY EmptySeq
<1>3. LineTypes'
  <2>1. [file |-> "main", line |-> 1] \in Place
    BY DEF Place, AllFiles
  <2>2. where' \in Seq(Place)
    BY <2>1
  <2>3. inctop' \in Seq(Place) /\ told' \in Seq(Node) /\ file_info' \in Seq(Info)
    BY EmptySeq
  <2> QED
    BY <2>2, <2>3 DEF LineTypes, AllFiles
<1>4. Frames'
  BY <1>2 DEF Frames
<1>5. Balance'
  <2>1. base' + saved' = Total(file_info', AllFiles) /\ current_line' > saved'
    BY <1>1
  <2>2. ASSUME NEW i \in 1..Len(where') PROVE Accounted(i)' = Total(file_info', {where'[i].file}) /\ where'[i].file \notin Files
    <3>1. i = 1
      BY <1>2
    <3>2. Accounted(i)' = saved'
      BY <3>1 DEF Accounted
    <3>3. Total(file_info', {where'[i].file}) = 0
      BY <1>1
    <3> QED
      BY <1>2, <3>1, <3>2, <3>3, PreprocessorAssumption
  <2>3. \A f \in Files : Total(file_info', {f}) = 0
    BY <1>1
  <2> QED
    BY <2>1, <2>2, <2>3 DEF Balance
<1>6. Placed'
  BY <1>2 DEF Placed
<1> QED
  BY <1>3, <1>4, <1>5, <1>6 DEF Accounts

(* ... and they do not change when nothing is read.                        *)
LEMMA SameAccounts ==
  ASSUME Accounts, UncountedFiles, UNCHANGED <<current_line, where, told>>
  PROVE  Accounts'
BY DEF Accounts, UncountedFiles, LineTypes, Frames, Balance, Placed, Singles, Accounted, Located, Current
-----------------------------------------------------------------------------
(* The conditionals are kept in step with their groups.                    *)
LEMMA OpenedIs ==
  ASSUME groups \in Seq(Group), NEW c \in BOOLEAN
  PROVE  /\ Opened(c) \in Seq(Group) /\ Len(Opened(c)) = Len(groups) + 1
         /\ Opened(c)[1].on = c /\ Opened(c)[1].taken = c
         /\ \A i \in 1..Len(groups) : Opened(c)[i + 1] = groups[i]
<1>1. PICK g \in Group : g = [on |-> c, taken |-> c, open |-> TRUE]
  BY DEF Group
<1>2. PICK q : q = <<g>> \o groups
  OBVIOUS
<1>3. /\ q \in Seq(Group) /\ Len(q) = Len(groups) + 1 /\ q[1] = g
      /\ \A i \in 1..Len(groups) : q[i + 1] = groups[i]
  BY <1>2, ConsIs
<1>4. q = Opened(c)
  BY <1>1, <1>2 DEF Opened
<1> QED
  BY <1>1, <1>3, <1>4

(* The innermost group with another part.                                  *)
Innermost(q, on, taken) ==
  /\ q \in Seq(Group) /\ Len(q) = Len(groups) /\ q[1].on = on /\ q[1].taken = taken
  /\ \A i \in 2..Len(groups) : q[i] = groups[i]
LEMMA InnermostIs ==
  ASSUME groups \in Seq(Group), Len(groups) > 0, NEW on \in BOOLEAN, NEW taken \in BOOLEAN
  PROVE  Innermost([groups EXCEPT ![1].on = on, ![1].taken = taken], on, taken)
<1>1. Len(groups) \in Nat /\ groups[1] \in Group /\ DOMAIN groups = 1..Len(groups) /\ 1 \in 1..Len(groups)
  BY LenProperties, ElementOfSeq
<1>2. PICK g \in Group : g = [groups[1] EXCEPT !.on = on, !.taken = taken] /\ g.on = on /\ g.taken = taken
  <2>1. PICK h \in Group : h = groups[1]
    BY <1>1
  <2>2. [h EXCEPT !.on = on, !.taken = taken] \in Group
    BY DEF Group
  <2>3. [h EXCEPT !.on = on, !.taken = taken].on = on /\ [h EXCEPT !.on = on, !.taken = taken].taken = taken
    BY DEF Group
  <2> QED
    BY <2>1, <2>2, <2>3
<1>3. PICK q : q = [groups EXCEPT ![1] = g]
  OBVIOUS
<1>4. q = [groups EXCEPT ![1].on = on, ![1].taken = taken]
  BY <1>2, <1>3
<1>5. /\ q \in Seq(Group) /\ Len(q) = Len(groups) /\ q[1] = g
      /\ \A i \in 1..Len(groups) : i # 1 => q[i] = groups[i]
  BY <1>1, <1>3, SetAt
<1>6. \A i \in 2..Len(groups) : q[i] = groups[i]
  BY <1>1, <1>5
<1> QED
  BY <1>2, <1>4, <1>5, <1>6 DEF Innermost

LEMMA PartIs ==
  ASSUME groups \in Seq(Group), Len(groups) > 0, NEW c \in BOOLEAN
  PROVE  /\ groups[1].on \in BOOLEAN /\ groups[1].taken \in BOOLEAN
         /\ Innermost(ElifGroup(c), ~groups[1].taken /\ c, groups[1].taken \/ c)
         /\ Innermost(ElseGroup, ~groups[1].taken, TRUE)
<1>1. groups[1] \in Group /\ DOMAIN groups = 1..Len(groups) /\ 1 \in 1..Len(groups)
  BY LenProperties, ElementOfSeq
<1>2. groups[1].on \in BOOLEAN /\ groups[1].taken \in BOOLEAN
  BY <1>1 DEF Group
<1>3. PICK t \in BOOLEAN : t = groups[1].taken
  BY <1>2
<1>4. PICK off \in BOOLEAN : off = (~t /\ c)
  OBVIOUS
<1>5. ElifGroup(c) = [groups EXCEPT ![1].on = ~t /\ c, ![1].taken = t \/ c]
  BY <1>1, <1>3 DEF ElifGroup
<1>6. ElseGroup = [groups EXCEPT ![1].on = ~t, ![1].taken = TRUE]
  BY <1>3 DEF ElseGroup
<1>7. (~t /\ c) \in BOOLEAN /\ (t \/ c) \in BOOLEAN /\ (~t) \in BOOLEAN /\ TRUE \in BOOLEAN
  BY <1>3
<1>8. Innermost([groups EXCEPT ![1].on = ~t /\ c, ![1].taken = t \/ c], ~t /\ c, t \/ c)
  BY <1>7, InnermostIs
<1>9. Innermost([groups EXCEPT ![1].on = ~t, ![1].taken = TRUE], ~t, TRUE)
  BY <1>7, InnermostIs
<1> QED
  BY <1>2, <1>3, <1>5, <1>6, <1>8, <1>9

(* Every group is chosen while text is read: code is compiled.             *)
LEMMA ReadIsActive ==
  ASSUME Conditionals, skip = <<>>
  PROVE  Reading /\ Active
<1>1. Reading
  <2>1. \A s \in Search : skip # <<s>>
    BY Zenon, EmptySeq
  <2> QED
    BY <2>1 DEF Conditionals
<1>2. DOMAIN groups = 1..Len(iftop)
  BY <1>1, LenProperties DEF Conditionals, Reading
<1> QED
  BY <1>1, <1>2 DEF Reading, Chosen, Active

LEMMA SkipIsFor ==
  ASSUME Conditionals, skip # <<>>
  PROVE  \E s \in Search : skip = <<s>> /\ skip[1] = s /\ SkippingTo(s)
BY DEF Conditionals

(* A condition is decided, for the part of a group in front of others that *)
(* are chosen.                                                             *)
LEMMA CondDecided ==
  ASSUME NEW stack \in Seq(Expected), NEW c \in BOOLEAN, handle_cond(c, stack),
         groups' \in Seq(Group), Len(groups') = Len(stack) + 1, groups'[1].on = c, groups'[1].taken = c,
         \A i \in 1..Len(stack) : groups'[i + 1].on /\ groups'[i + 1].taken /\ stack[i] = "expect_endif"
  PROVE  Conditionals'
<1>1. PICK x \in Expected : x = (IF c THEN "expect_endif" ELSE "expect_else")
  BY DEF Expected
<1>2. iftop' = <<x>> \o stack
  BY <1>1 DEF handle_cond, Pushed
<1>3. /\ iftop' \in Seq(Expected) /\ Len(iftop') = Len(stack) + 1 /\ iftop'[1] = x
      /\ \A i \in 1..Len(stack) : iftop'[i + 1] = stack[i]
  <2>1. PICK q : q = <<x>> \o stack
    OBVIOUS
  <2>2. /\ q \in Seq(Expected) /\ Len(q) = Len(stack) + 1 /\ q[1] = x
        /\ \A i \in 1..Len(stack) : q[i + 1] = stack[i]
    BY <2>1, ConsIs
  <2> QED
    BY <1>2, <2>1, <2>2
<1>4. Len(stack) \in Nat
  BY LenProperties
<1>5. ASSUME NEW i \in 2..Len(iftop') PROVE groups'[i].on /\ groups'[i].taken /\ iftop'[i] = "expect_endif"
  <2>1. i - 1 \in 1..Len(stack) /\ (i - 1) + 1 = i
    BY <1>3, <1>4
  <2>2. groups'[(i - 1) + 1].on /\ groups'[(i - 1) + 1].taken /\ stack[i - 1] = "expect_endif" /\ iftop'[(i - 1) + 1] = stack[i - 1]
    BY <1>3, <2>1
  <2> QED
    BY <2>1, <2>2
<1>6. CASE c
  <2>1. skip' = <<>>
    BY <1>6 DEF handle_cond
  <2>2. ASSUME NEW i \in 1..Len(iftop') PROVE groups'[i].on /\ groups'[i].taken /\ iftop'[i] = "expect_endif"
    <3>1. CASE i = 1
      BY <1>1, <1>3, <1>6, <3>1
    <3>2. CASE i # 1
      <4>1. i \in 2..Len(iftop')
        BY <1>3, <1>4, <3>2
      <4> QED
        BY <1>5, <4>1
    <3> QED
      BY <3>1, <3>2
  <2>3. Reading'
    BY <1>3, <2>2 DEF Reading, Chosen
  <2> QED
    BY <1>3, <2>1, <2>3 DEF Conditionals
<1>7. CASE ~c
  <2>1. PICK s \in Search : s = [tokens |-> {"else", "endif", "elif"}, nest |-> 0] /\ s.nest = 0 /\ s.tokens = {"else", "endif", "elif"}
    <3>1. [tokens |-> {"else", "endif", "elif"}, nest |-> 0] \in Search
      BY DEF Search
    <3> QED
      BY <3>1
  <2>2. skip' = <<s>>
    BY <1>7, <2>1 DEF handle_cond, SkipTo
  <2>3. SkippingTo(s)'
    <3>1. Len(iftop') > 0 /\ Len(groups') = s.nest + Len(iftop')
      BY <1>3, <1>4, <2>1
    <3>2. ~groups'[s.nest + 1].on /\ ~groups'[s.nest + 1].taken /\ iftop'[1] = "expect_else"
      BY <1>1, <1>3, <1>7, <2>1
    <3>3. \A i \in 2..Len(iftop') : groups'[s.nest + i].on /\ groups'[s.nest + i].taken /\ iftop'[i] = "expect_endif"
      <4>1. \A i \in 2..Len(iftop') : s.nest + i = i
        BY <1>3, <1>4, <2>1
      <4> QED
        BY <1>5, <4>1
    <3> QED
      BY <2>1, <3>1, <3>2, <3>3 DEF SkippingTo, Chosen
  <2> QED
    BY <1>3, <2>2, <2>3 DEF Conditionals
<1> QED
  BY <1>6, <1>7

LEMMA IfConditionals ==
  ASSUME Conditionals, skip = <<>>, NEW c \in BOOLEAN, handle_cond(c, iftop), groups' = Opened(c)
  PROVE  Conditionals'
<1>1. iftop \in Seq(Expected) /\ groups \in Seq(Group) /\ Reading
  BY ReadIsActive DEF Conditionals
<1>2. /\ groups' \in Seq(Group) /\ Len(groups') = Len(iftop) + 1 /\ groups'[1].on = c /\ groups'[1].taken = c
      /\ \A i \in 1..Len(iftop) : groups'[i + 1] = groups[i]
  BY <1>1, OpenedIs DEF Reading
<1>3. \A i \in 1..Len(iftop) : groups'[i + 1].on /\ groups'[i + 1].taken /\ iftop[i] = "expect_endif"
  BY <1>1, <1>2 DEF Reading, Chosen
<1> QED
  BY <1>1, <1>2, <1>3, CondDecided

(* The search for the end of a group that was chosen.                      *)
LEMMA PartOver ==
  ASSUME NEW s \in Search, s.nest = 0, s.tokens = {"endif", "elif"}, skip' = <<s>>, iftop' = iftop, iftop \in Seq(Expected), groups \in Seq(Group),
         Len(iftop) > 0, Len(groups) = Len(iftop), iftop[1] = "expect_endif",
         \A i \in 2..Len(iftop) : Chosen(i) /\ iftop[i] = "expect_endif",
         Innermost(groups', FALSE, TRUE)
  PROVE  Conditionals'
<1>1. Len(iftop) \in Nat
  BY LenProperties
<1>2. /\ groups' \in Seq(Group) /\ Len(groups') = Len(iftop) /\ ~groups'[1].on /\ groups'[1].taken
      /\ \A i \in 2..Len(iftop) : groups'[i].on /\ groups'[i].taken
  BY DEF Innermost, Chosen
<1>3. \A i \in 2..Len(iftop) : s.nest + i = i
  BY <1>1
<1>4. SkippingTo(s)'
  BY <1>1, <1>2, <1>3 DEF SkippingTo, Chosen
<1> QED
  BY <1>2, <1>4 DEF Conditionals

LEMMA ElifConditionals ==
  ASSUME Conditionals, Stops("elif"), iftop # <<>>, NEW c \in BOOLEAN, handle_elif(c), groups' = ElifGroup(c)
  PROVE  Conditionals'
<1>1. iftop \in Seq(Expected) /\ groups \in Seq(Group) /\ Len(iftop) \in Nat /\ Len(iftop) > 0
  BY LenProperties, EmptySeq DEF Conditionals
<1>2. PICK s \in Search : s = [tokens |-> {"endif", "elif"}, nest |-> 0] /\ s.nest = 0 /\ s.tokens = {"endif", "elif"} /\ SkipTo({"endif", "elif"}, 0) = <<s>>
  <2>1. [tokens |-> {"endif", "elif"}, nest |-> 0] \in Search
    BY DEF Search
  <2> QED
    BY <2>1 DEF SkipTo
<1>3. CASE skip = <<>>
  <2>1. Reading
    BY <1>3, ReadIsActive
  <2>2. Len(groups) = Len(iftop) /\ Chosen(1) /\ iftop[1] = "expect_endif" /\ \A i \in 2..Len(iftop) : Chosen(i) /\ iftop[i] = "expect_endif"
    BY <1>1, <2>1 DEF Reading
  <2>3. Innermost(groups', FALSE, TRUE)
    BY <1>1, <2>2, PartIs DEF Chosen, Innermost
  <2>4. skip' = <<s>> /\ iftop' = iftop
    BY <1>2, <2>2 DEF handle_elif
  <2> QED
    BY <1>1, <1>2, <2>2, <2>3, <2>4, PartOver
<1>4. CASE skip # <<>>
  <2>1. PICK r \in Search : skip[1] = r /\ SkippingTo(r)
    BY <1>4, SkipIsFor
  <2>2. r.nest = 0
    BY <1>4, <2>1 DEF Stops
  <2>3. /\ Len(groups) = Len(iftop) /\ ~groups[1].on
        /\ IF groups[1].taken THEN iftop[1] = "expect_endif" ELSE iftop[1] = "expect_else"
        /\ \A i \in 2..Len(iftop) : Chosen(i) /\ iftop[i] = "expect_endif"
    <3>1. \A i \in 1..Len(iftop) : r.nest + i = i
      BY <1>1, <2>2
    <3>2. r.nest + Len(iftop) = Len(iftop) /\ r.nest + 1 = 1
      BY <1>1, <2>2
    <3>3. \A i \in 2..Len(iftop) : i \in 1..Len(iftop)
      BY <1>1
    <3> QED
      BY <2>1, <3>1, <3>2, <3>3 DEF SkippingTo
  <2>4. CASE groups[1].taken
    <3>1. Innermost(groups', FALSE, TRUE)
      BY <1>1, <2>3, <2>4, PartIs DEF Innermost
    <3>2. skip' = <<s>> /\ iftop' = iftop /\ iftop[1] = "expect_endif"
      BY <1>2, <2>3, <2>4 DEF handle_elif
    <3> QED
      BY <1>1, <1>2, <2>3, <3>1, <3>2, PartOver
  <2>5. CASE ~groups[1].taken
    <3>1. Innermost(groups', c, c)
      BY <1>1, <2>3, <2>5, PartIs DEF Innermost
    <3>2. handle_cond(c, Tail(iftop))
      BY <2>3, <2>5 DEF handle_elif
    <3>3. PICK stack : stack = Tail(iftop)
      OBVIOUS
    <3>4. /\ stack \in Seq(Expected) /\ Len(stack) = Len(iftop) - 1
          /\ \A i \in 1..(Len(iftop) - 1) : stack[i] = iftop[i + 1]
      <4>1. PICK w \in Seq(Expected) : w = iftop
        BY <1>1
      <4>2. /\ Tail(w) \in Seq(Expected) /\ Len(Tail(w)) = Len(w) - 1
            /\ \A i \in 1..(Len(w) - 1) : Tail(w)[i] = w[i + 1]
        BY <1>1, <4>1, RestIs
      <4> QED
        BY <3>3, <4>1, <4>2
    <3>5. groups' \in Seq(Group) /\ Len(groups') = Len(stack) + 1 /\ groups'[1].on = c /\ groups'[1].taken = c
      BY <1>1, <2>3, <3>1, <3>4 DEF Innermost
    <3>6. ASSUME NEW i \in 1..Len(stack) PROVE groups'[i + 1].on /\ groups'[i + 1].taken /\ stack[i] = "expect_endif"
      <4>1. i + 1 \in 2..Len(iftop) /\ i \in 1..(Len(iftop) - 1) /\ i + 1 \in 2..Len(groups)
        BY <1>1, <2>3, <3>4
      <4> QED
        BY <2>3, <3>1, <3>4, <4>1 DEF Innermost, Chosen
    <3> QED
      BY <3>2, <3>3, <3>4, <3>5, <3>6, CondDecided
  <2> QED
    BY <2>4, <2>5
<1> QED
  BY <1>3, <1>4

LEMMA ElseConditionals ==
  ASSUME Conditionals, Stops("else"), iftop # <<>>, handle_else, groups' = ElseGroup
  PROVE  Conditionals'
<1>1. iftop \in Seq(Expected) /\ groups \in Seq(Group) /\ Len(iftop) \in Nat /\ Len(iftop) > 0
  BY LenProperties, EmptySeq DEF Conditionals
<1>2. PICK s \in Search : s = [tokens |-> {"endif", "elif"}, nest |-> 0] /\ s.nest = 0 /\ s.tokens = {"endif", "elif"} /\ SkipTo({"endif", "elif"}, 0) = <<s>>
  <2>1. [tokens |-> {"endif", "elif"}, nest |-> 0] \in Search
    BY DEF Search
  <2> QED
    BY <2>1 DEF SkipTo
<1>3. CASE skip = <<>>
  <2>1. Reading
    BY <1>3, ReadIsActive
  <2>2. Len(groups) = Len(iftop) /\ Chosen(1) /\ iftop[1] = "expect_endif" /\ \A i \in 2..Len(iftop) : Chosen(i) /\ iftop[i] = "expect_endif"
    BY <1>1, <2>1 DEF Reading
  <2>3. Innermost(groups', FALSE, TRUE)
    BY <1>1, <2>2, PartIs DEF Chosen, Innermost
  <2>4. skip' = <<s>> /\ iftop' = iftop
    BY <1>2, <2>2 DEF handle_else
  <2> QED
    BY <1>1, <1>2, <2>2, <2>3, <2>4, PartOver
<1>4. CASE skip # <<>>
  <2>1. PICK r \in Search : skip[1] = r /\ SkippingTo(r)
    BY <1>4, SkipIsFor
  <2>2. r.nest = 0 /\ "else" \in r.tokens
    BY <1>4, <2>1 DEF Stops
  <2>3. /\ Len(groups) = Len(iftop) /\ ~groups[1].taken /\ iftop[1] = "expect_else"
        /\ \A i \in 2..Len(iftop) : Chosen(i) /\ iftop[i] = "expect_endif"
    <3>1. \A i \in 2..Len(iftop) : r.nest + i = i
      BY <1>1, <2>2
    <3>2. r.nest + Len(iftop) = Len(iftop) /\ r.nest + 1 = 1
      BY <1>1, <2>2
    <3>3. "else" \notin {"endif", "elif"}
      OBVIOUS
    <3> QED
      BY <2>1, <2>2, <3>1, <3>2, <3>3 DEF SkippingTo
  <2>4. skip' = <<>> /\ iftop' = [iftop EXCEPT ![1] = "expect_endif"]
    BY <2>3 DEF handle_else
  <2>5. /\ iftop' \in Seq(Expected) /\ Len(iftop') = Len(iftop) /\ iftop'[1] = "expect_endif"
        /\ \A i \in 1..Len(iftop) : i # 1 => iftop'[i] = iftop[i]
    <3>1. PICK w \in Seq(Expected) : w = iftop
      BY <1>1
    <3>2. 1 \in 1..Len(w) /\ "expect_endif" \in Expected
      BY <1>1, <3>1 DEF Expected
    <3> QED
      BY <2>4, <3>1, <3>2, SetAt
  <2>6. Innermost(groups', TRUE, TRUE)
    BY <1>1, <2>3, PartIs DEF Innermost
  <2>7. ASSUME NEW i \in 1..Len(iftop') PROVE groups'[i].on /\ groups'[i].taken /\ iftop'[i] = "expect_endif"
    <3>1. CASE i = 1
      BY <2>5, <2>6, <3>1 DEF Innermost
    <3>2. CASE i # 1
      <4>1. i \in 2..Len(iftop) /\ i \in 1..Len(iftop) /\ i \in 2..Len(groups)
        BY <1>1, <2>3, <2>5, <3>2
      <4> QED
        BY <2>3, <2>5, <2>6, <3>2, <4>1 DEF Innermost, Chosen
    <3> QED
      BY <3>1, <3>2
  <2>8. Reading'
    BY <2>3, <2>5, <2>6, <2>7 DEF Reading, Innermost, Chosen
  <2> QED
    BY <2>4, <2>5, <2>6, <2>8 DEF Conditionals, Innermost
<1> QED
  BY <1>3, <1>4

LEMMA RestOfGroups ==
  ASSUME groups \in Seq(Group), Len(groups) > 0, groups' = Tail(groups)
  PROVE  /\ groups' \in Seq(Group) /\ Len(groups') = Len(groups) - 1
         /\ \A i \in 1..(Len(groups) - 1) : groups'[i] = groups[i + 1]
<1>1. PICK w \in Seq(Group) : w = groups
  OBVIOUS
<1>2. /\ Tail(w) \in Seq(Group) /\ Len(Tail(w)) = Len(w) - 1
      /\ \A i \in 1..(Len(w) - 1) : Tail(w)[i] = w[i + 1]
  BY <1>1, RestIs
<1> QED
  BY <1>1, <1>2

LEMMA EndifConditionals ==
  ASSUME Conditionals, Stops("endif"), iftop # <<>>, handle_endif, skip' = <<>>, groups' = Tail(groups)
  PROVE  Conditionals'
<1>1. iftop \in Seq(Expected) /\ groups \in Seq(Group) /\ Len(iftop) \in Nat /\ Len(iftop) > 0
  BY LenProperties, EmptySeq DEF Conditionals
<1>2. /\ Len(groups) = Len(iftop)
      /\ \A i \in 2..Len(iftop) : Chosen(i) /\ iftop[i] = "expect_endif"
  <2>1. CASE skip = <<>>
    <3>1. \A i \in 2..Len(iftop) : i \in 1..Len(iftop)
      BY <1>1
    <3> QED
      BY <2>1, <3>1, ReadIsActive DEF Reading
  <2>2. CASE skip # <<>>
    <3>1. PICK r \in Search : skip[1] = r /\ SkippingTo(r)
      BY <2>2, SkipIsFor
    <3>2. r.nest = 0
      BY <2>2, <3>1 DEF Stops
    <3>3. \A i \in 2..Len(iftop) : r.nest + i = i
      BY <1>1, <3>2
    <3>4. r.nest + Len(iftop) = Len(iftop)
      BY <1>1, <3>2
    <3> QED
      BY <3>1, <3>3, <3>4 DEF SkippingTo
  <2> QED
    BY <2>1, <2>2
<1>3. /\ iftop' \in Seq(Expected) /\ Len(iftop') = Len(iftop) - 1
      /\ \A i \in 1..(Len(iftop) - 1) : iftop'[i] = iftop[i + 1]
  <2>1. PICK w \in Seq(Expected) : w = iftop
    BY <1>1
  <2>2. /\ Tail(w) \in Seq(Expected) /\ Len(Tail(w)) = Len(w) - 1
        /\ \A i \in 1..(Len(w) - 1) : Tail(w)[i] = w[i + 1]
    BY <1>1, <2>1, RestIs
  <2> QED
    BY <2>1, <2>2 DEF handle_endif
<1>4. /\ groups' \in Seq(Group) /\ Len(groups') = Len(groups) - 1
      /\ \A i \in 1..(Len(groups) - 1) : groups'[i] = groups[i + 1]
  BY <1>1, <1>2, RestOfGroups
<1>5. ASSUME NEW i \in 1..Len(iftop') PROVE groups'[i].on /\ groups'[i].taken /\ iftop'[i] = "expect_endif"
  <2>1. i + 1 \in 2..Len(iftop) /\ i \in 1..(Len(iftop) - 1)
    BY <1>1, <1>3
  <2> QED
    BY <1>2, <1>3, <1>4, <2>1 DEF Chosen
<1>6. Reading'
  BY <1>2, <1>3, <1>4, <1>5 DEF Reading, Chosen
<1> QED
  BY <1>3, <1>4, <1>6 DEF Conditionals

LEMMA Shifted == \A a, n \in Nat : \A i \in 1..n : a + i \in 1..(a + n) /\ (a + i) + 1 = (a + 1) + i
OBVIOUS

(* The search goes on when the conditionals it is for keep their groups,   *)
(* except that the innermost may have become taken.                        *)
LEMMA SkipMoves ==
  ASSUME NEW s \in Search, NEW r \in Search, SkippingTo(s), r.tokens = s.tokens, iftop' = iftop,
         groups' \in Seq(Group), Len(groups') = r.nest + Len(iftop), iftop \in Seq(Expected),
         ~groups'[r.nest + 1].on, groups'[r.nest + 1].taken <=> groups[s.nest + 1].taken,
         \A i \in 2..Len(iftop) : groups'[r.nest + i] = groups[s.nest + i]
  PROVE  SkippingTo(r)'
<1>1. Len(iftop') > 0 /\ Len(groups') = r.nest + Len(iftop')
  BY DEF SkippingTo
<1>2. IF groups'[r.nest + 1].taken
      THEN iftop'[1] = "expect_endif" /\ r.tokens = {"endif", "elif"}
      ELSE iftop'[1] = "expect_else" /\ r.tokens = {"else", "endif", "elif"}
  BY DEF SkippingTo
<1>3. \A i \in 2..Len(iftop') : groups'[r.nest + i].on /\ groups'[r.nest + i].taken /\ iftop'[i] = "expect_endif"
  BY DEF SkippingTo, Chosen
<1> QED
  BY <1>1, <1>2, <1>3 DEF SkippingTo, Chosen

(* Text is skipped: the groups in it are counted.                          *)
LEMMA SkipIfConditionals ==
  ASSUME Conditionals, skip # <<>>, iftop' = iftop, skip' = [skip EXCEPT ![1].nest = @ + 1], groups' = Opened(FALSE)
  PROVE  Conditionals'
<1>1. iftop \in Seq(Expected) /\ groups \in Seq(Group) /\ Len(iftop) \in Nat
  BY LenProperties DEF Conditionals
<1>2. PICK s \in Search : skip = <<s>> /\ SkippingTo(s)
  BY SkipIsFor
<1>3. PICK r \in Search : r = [s EXCEPT !.nest = @ + 1] /\ r.nest = s.nest + 1 /\ r.tokens = s.tokens
  <2>1. [s EXCEPT !.nest = @ + 1] \in Search
    BY DEF Search
  <2>2. [s EXCEPT !.nest = @ + 1].nest = s.nest + 1 /\ [s EXCEPT !.nest = @ + 1].tokens = s.tokens
    BY DEF Search
  <2> QED
    BY <2>1, <2>2
<1>4. skip' = <<r>> /\ s.nest \in Nat
  BY <1>2, <1>3 DEF Search
<1>5. /\ groups' \in Seq(Group) /\ Len(groups') = Len(groups) + 1
      /\ \A i \in 1..Len(groups) : groups'[i + 1] = groups[i]
  BY <1>1, OpenedIs
<1>6. \A i \in 1..Len(iftop) : groups'[r.nest + i] = groups[s.nest + i]
  <2>1. ASSUME NEW i \in 1..Len(iftop) PROVE groups'[r.nest + i] = groups[s.nest + i]
    <3>1. s.nest + i \in 1..Len(groups) /\ (s.nest + i) + 1 = r.nest + i
      <4>1. Len(groups) = s.nest + Len(iftop)
        BY <1>2 DEF SkippingTo
      <4>2. PICK a \in Nat, n \in Nat : a = s.nest /\ n = Len(iftop)
        BY <1>1, <1>4
      <4>3. i \in 1..n /\ Len(groups) = a + n /\ r.nest = a + 1 /\ s.nest = a
        BY <1>3, <4>1, <4>2
      <4>4. a + i \in 1..(a + n) /\ (a + i) + 1 = (a + 1) + i
        BY <4>3, Shifted
      <4> QED
        BY <4>3, <4>4
    <3>2. groups'[(s.nest + i) + 1] = groups[s.nest + i]
      BY <1>5, <3>1
    <3> QED
      BY <3>1, <3>2
  <2> QED
    BY <2>1
<1>7. SkippingTo(r)'
  <2>1. Len(iftop) > 0 /\ Len(groups) = s.nest + Len(iftop) /\ ~groups[s.nest + 1].on
    BY <1>2 DEF SkippingTo
  <2>2. Len(groups') = r.nest + Len(iftop)
    <3>1. Len(groups') = Len(groups) + 1 /\ Len(groups) = s.nest + Len(iftop) /\ r.nest = s.nest + 1
      BY <1>3, <1>5, <2>1
    <3>2. s.nest \in Nat /\ Len(iftop) \in Nat
      BY <1>1, <1>4
    <3> QED
      BY ONLY <3>1, <3>2
  <2>3. groups'[r.nest + 1] = groups[s.nest + 1] /\ \A i \in 2..Len(iftop) : groups'[r.nest + i] = groups[s.nest + i]
    <3>1. 1 \in 1..Len(iftop) /\ \A i \in 2..Len(iftop) : i \in 1..Len(iftop)
      BY <1>1, <2>1
    <3> QED
      BY <1>6, <3>1
  <2> QED
    BY <1>1, <1>2, <1>3, <1>5, <2>1, <2>2, <2>3, SkipMoves
<1> QED
  BY <1>1, <1>4, <1>5, <1>7 DEF Conditionals

LEMMA SkipEndifConditionals ==
  ASSUME Conditionals, skip # <<>>, ~Stops("endif"), iftop' = iftop,
         skip' = [skip EXCEPT ![1].nest = @ - 1], groups' = Tail(groups)
  PROVE  Conditionals'
<1>1. iftop \in Seq(Expected) /\ groups \in Seq(Group) /\ Len(iftop) \in Nat
  BY LenProperties DEF Conditionals
<1>2. PICK s \in Search : skip = <<s>> /\ skip[1] = s /\ SkippingTo(s)
  BY SkipIsFor
<1>3. Len(iftop) > 0 /\ Len(groups) = s.nest + Len(iftop) /\ ~groups[s.nest + 1].on
  BY <1>2 DEF SkippingTo
<1>4. s.nest \in Nat /\ s.nest > 0
  <2>1. "endif" \in s.tokens
    BY <1>2 DEF SkippingTo
  <2>2. s.nest # 0 /\ s.nest \in Nat
    BY <1>2, <2>1 DEF Stops, Search
  <2> QED
    BY <2>2
<1>5. PICK r \in Search : r = [s EXCEPT !.nest = @ - 1] /\ r.nest = s.nest - 1 /\ r.tokens = s.tokens
  <2>1. s.nest - 1 \in Nat
    BY <1>4
  <2>2. [s EXCEPT !.nest = @ - 1] \in Search
    BY <2>1 DEF Search
  <2>3. [s EXCEPT !.nest = @ - 1].nest = s.nest - 1 /\ [s EXCEPT !.nest = @ - 1].tokens = s.tokens
    BY DEF Search
  <2> QED
    BY <2>2, <2>3
<1>6. skip' = <<r>>
  BY <1>2, <1>5
<1>7. /\ groups' \in Seq(Group) /\ Len(groups') = Len(groups) - 1
      /\ \A i \in 1..(Len(groups) - 1) : groups'[i] = groups[i + 1]
  BY <1>1, <1>3, <1>4, RestOfGroups
<1>8. \A i \in 1..Len(iftop) : groups'[r.nest + i] = groups[s.nest + i]
  <2>1. ASSUME NEW i \in 1..Len(iftop) PROVE groups'[r.nest + i] = groups[s.nest + i]
    <3>1. r.nest + i \in 1..(Len(groups) - 1) /\ (r.nest + i) + 1 = s.nest + i
      BY <1>1, <1>3, <1>4, <1>5
    <3>2. groups'[r.nest + i] = groups[(r.nest + i) + 1]
      BY <1>7, <3>1
    <3> QED
      BY <3>1, <3>2
  <2> QED
    BY <2>1
<1>9. SkippingTo(r)'
  <2>1. Len(groups') = r.nest + Len(iftop)
    BY <1>1, <1>3, <1>4, <1>5, <1>7
  <2>2. groups'[r.nest + 1] = groups[s.nest + 1] /\ \A i \in 2..Len(iftop) : groups'[r.nest + i] = groups[s.nest + i]
    <3>1. 1 \in 1..Len(iftop) /\ \A i \in 2..Len(iftop) : i \in 1..Len(iftop)
      BY <1>1, <1>3
    <3> QED
      BY <1>8, <3>1
  <2> QED
    BY <1>1, <1>2, <1>3, <1>5, <1>7, <2>1, <2>2, SkipMoves
<1> QED
  BY <1>1, <1>6, <1>7, <1>9 DEF Conditionals

(* #elif or #else of a group in the text, or an #else of one of which a    *)
(* part was chosen.                                                        *)
LEMMA SkipOtherConditionals ==
  ASSUME Conditionals, skip # <<>>, iftop' = iftop, skip' = skip,
         \/ ~Stops("elif") /\ \E c \in BOOLEAN : groups' = ElifGroup(c)
         \/ ~Stops("else") /\ groups' = ElseGroup
  PROVE  Conditionals'
<1>1. iftop \in Seq(Expected) /\ groups \in Seq(Group) /\ Len(iftop) \in Nat
  BY LenProperties DEF Conditionals
<1>2. PICK s \in Search : skip = <<s>> /\ skip[1] = s /\ SkippingTo(s)
  BY SkipIsFor
<1>3. Len(iftop) > 0 /\ Len(groups) = s.nest + Len(iftop) /\ ~groups[s.nest + 1].on /\ "elif" \in s.tokens /\ s.nest \in Nat
      /\ (groups[s.nest + 1].taken \/ "else" \in s.tokens)
  BY <1>2 DEF SkippingTo, Search
<1>4. Len(groups) > 0
  BY <1>1, <1>3
<1>5. PICK on \in BOOLEAN, taken \in BOOLEAN :
        /\ Innermost(groups', on, taken)
        /\ s.nest = 0 => ~on /\ taken /\ groups[1].taken
  <2>1. CASE ~Stops("elif") /\ \E c \in BOOLEAN : groups' = ElifGroup(c)
    <3>1. PICK c \in BOOLEAN : groups' = ElifGroup(c)
      BY <2>1
    <3>2. /\ groups[1].taken \in BOOLEAN
          /\ Innermost(groups', ~groups[1].taken /\ c, groups[1].taken \/ c)
      BY <1>1, <1>4, <3>1, PartIs
    <3>3. s.nest # 0
      BY <1>2, <1>3, <2>1 DEF Stops
    <3>4. (~groups[1].taken /\ c) \in BOOLEAN /\ (groups[1].taken \/ c) \in BOOLEAN
      OBVIOUS
    <3> QED
      BY <3>2, <3>3, <3>4
  <2>2. CASE ~Stops("else") /\ groups' = ElseGroup
    <3>1. /\ groups[1].taken \in BOOLEAN
          /\ Innermost(groups', ~groups[1].taken, TRUE)
      BY <1>1, <1>4, <2>2, PartIs
    <3>2. s.nest = 0 => groups[1].taken
      <4>1. s.nest = 0 => "else" \notin s.tokens
        BY <1>2, <2>2 DEF Stops
      <4>2. s.nest = 0 => s.nest + 1 = 1
        OBVIOUS
      <4> QED
        BY <1>3, <4>1, <4>2
    <3>3. (~groups[1].taken) \in BOOLEAN /\ TRUE \in BOOLEAN
      OBVIOUS
    <3> QED
      BY <3>1, <3>2, <3>3
  <2> QED
    BY <2>1, <2>2
<1>6. /\ groups' \in Seq(Group) /\ Len(groups') = s.nest + Len(iftop)
      /\ \A i \in 2..Len(groups) : groups'[i] = groups[i]
      /\ groups'[1].on = on /\ groups'[1].taken = taken
  BY <1>3, <1>5 DEF Innermost
<1>7. \A i \in 2..Len(iftop) : groups'[s.nest + i] = groups[s.nest + i]
  <2>1. \A i \in 2..Len(iftop) : s.nest + i \in 2..Len(groups)
    BY <1>1, <1>3
  <2> QED
    BY <1>6, <2>1
<1>8. ~groups'[s.nest + 1].on /\ (groups'[s.nest + 1].taken <=> groups[s.nest + 1].taken)
  <2>1. CASE s.nest = 0
    <3>1. s.nest + 1 = 1
      BY <2>1
    <3> QED
      BY <1>5, <1>6, <2>1, <3>1
  <2>2. CASE s.nest # 0
    <3>1. s.nest + 1 \in 2..Len(groups)
      BY <1>1, <1>3, <2>2
    <3> QED
      BY <1>3, <1>6, <3>1
  <2> QED
    BY <2>1, <2>2
<1>9. SkippingTo(s)'
  BY <1>1, <1>2, <1>6, <1>7, <1>8, SkipMoves
<1> QED
  BY <1>1, <1>2, <1>6, <1>9 DEF Conditionals
-----------------------------------------------------------------------------
(* The table: the driver's definitions stay behind the program's.          *)
LEMMA PredefinesIs ==
  /\ Many \in Nat /\ Predefines \in Seq(Definition) /\ Len(Predefines) = Many
  /\ \A i \in 1..Many : Predefines[i].name \in Predefined /\ Predefines[i].exps = 0 /\ Predefines[i].flags = {"predef"}
  /\ \A n \in Predefined : \E i \in 1..Many : Predefines[i].name = n
<1> DEFINE Made(n) == [name |-> n, exps |-> 0, flags |-> {"predef"}]
<1>1. PICK S : S = {Made(n) : n \in Predefined}
  OBVIOUS
<1>2. PICK g : g = [n \in Predefined |-> Made(n)]
  OBVIOUS
<1>3. /\ \A n \in Predefined : Made(n).name = n /\ Made(n).exps = 0 /\ Made(n).flags = {"predef"} /\ Made(n) \in Definition
      /\ \A n \in Predefined : g[n] = Made(n)
      /\ g \in [Predefined -> S]
  BY <1>1, <1>2 DEF Definition, AllNames
<1> HIDE DEF Made
<1>4. g \in Bijection(Predefined, S)
  <2>1. IsInjective(g)
    BY <1>3 DEF IsInjective
  <2>2. \A s \in S : \E n \in Predefined : g[n] = s
    BY <1>1, <1>3
  <2> QED
    BY <1>3, <2>1, <2>2 DEF Bijection, Injection, Surjection
<1>5. IsFiniteSet(S) /\ Cardinality(S) = Many
  <2>1. ExistsBijection(Predefined, S)
    BY <1>4 DEF ExistsBijection
  <2> QED
    BY <2>1, FS_Bijection, PreprocessorAssumption DEF Many
<1>6. PICK h : h \in Bijection(1..Many, S) /\ Many \in Nat
  <2>1. ExistsBijection(1..Cardinality(S), S) /\ Cardinality(S) \in Nat
    BY <1>5, FS_CardinalityType
  <2> QED
    BY <1>5, <2>1 DEF ExistsBijection
<1>7. PICK p : p = CHOOSE f \in [1..Cardinality(S) -> S] : IsInjective(f)
  OBVIOUS
<1>8. p \in [1..Many -> S] /\ IsInjective(p)
  <2>1. h \in [1..Many -> S] /\ IsInjective(h)
    BY <1>6 DEF Bijection, Injection
  <2> QED
    BY <1>5, <1>7, <2>1, Zenon
<1>9. Predefines = p
  BY <1>1, <1>7 DEF Predefines, SetToSeq, Made
<1>10. \A n \in Predefined : \E i \in 1..Many : p[i] = Made(n)
  <2>1. p \in Injection(1..Many, S)
    BY <1>8 DEF Injection
  <2>2. Cardinality(1..Many) = Many
    BY <1>6, FS_Interval
  <2>3. p \in Surjection(1..Many, S)
    BY <1>5, <2>1, <2>2, FS_Injection
  <2>4. \A s \in S : \E i \in 1..Many : p[i] = s
    BY <2>3 DEF Surjection
  <2> QED
    BY <1>1, <2>4
<1>11. \A i \in 1..Many : \E n \in Predefined : p[i] = Made(n)
  BY <1>1, <1>8
<1>12. p \in [1..Many -> Definition]
  BY <1>3, <1>8, <1>11
<1>13. p \in Seq(Definition) /\ Len(p) = Many
  BY <1>6, <1>12, SeqDef, LenProperties
<1>14. \A i \in 1..Many : p[i].name \in Predefined /\ p[i].exps = 0 /\ p[i].flags = {"predef"}
  <2> SUFFICES ASSUME NEW i \in 1..Many PROVE p[i].name \in Predefined /\ p[i].exps = 0 /\ p[i].flags = {"predef"}
    OBVIOUS
  <2>1. PICK n \in Predefined : p[i] = Made(n)
    BY <1>11
  <2> QED
    BY <1>3, <2>1
<1>15. \A n \in Predefined : \E i \in 1..Many : p[i].name = n
  <2> SUFFICES ASSUME NEW n \in Predefined PROVE \E i \in 1..Many : p[i].name = n
    OBVIOUS
  <2>1. PICK i \in 1..Many : p[i] = Made(n)
    BY <1>10
  <2> QED
    BY <1>3, <2>1
<1> QED
  BY <1>6, <1>9, <1>13, <1>14, <1>15

LEMMA PlaceIs ==
  ASSUME defns \in Seq(Definition), NEW n
  PROVE  \/ lookup_definition(n) = 0 /\ \A i \in 1..Len(defns) : defns[i].name # n
         \/ lookup_definition(n) \in 1..Len(defns) /\ defns[lookup_definition(n)].name = n
<1> DEFINE S == {i \in 1..Len(defns) : defns[i].name = n}
           Is(i) == defns[i].name = n /\ \A j \in 1..(i - 1) : defns[j].name # n
<1>1. DOMAIN defns = 1..Len(defns) /\ Len(defns) \in Nat
  BY LenProperties
<1>2. CASE S = {}
  BY <1>1, <1>2 DEF lookup_definition
<1>3. CASE S # {}
  <2>1. PICK i \in S : \A j \in S : i <= j
    <3>1. S \subseteq Nat
      BY <1>1
    <3> HIDE DEF S
    <3> QED
      BY <1>3, <3>1, LeastNat
  <2>2. i \in 1..Len(defns) /\ Is(i)
    BY <1>1, <2>1
  <2>3. PICK c : c = CHOOSE k \in 1..Len(defns) : Is(k)
    OBVIOUS
  <2>4. c \in 1..Len(defns) /\ Is(c)
    <3> HIDE DEF Is
    <3> QED
      BY <2>2, <2>3
  <2>5. lookup_definition(n) = c
    BY <1>1, <1>3, <2>3 DEF lookup_definition
  <2> QED
    BY <2>4, <2>5
<1> QED
  BY <1>2, <1>3

(* The entries of the driver, and where the others are.                    *)
LEMMA OwnPlace ==
  ASSUME Table, NEW n
  PROVE  /\ Own \in Nat /\ Len(defns) = Own + Many /\ Many \in Nat
         /\ lookup_definition(n) = 0 => n \notin Predefined
         /\ lookup_definition(n) # 0 /\ "predef" \notin Flags(n) => lookup_definition(n) \in 1..Own
         /\ lookup_definition(n) # 0 => defns[lookup_definition(n)] \in Definition
         /\ lookup_definition(n) # 0 /\ "predef" \in Flags(n) => "undefined" \notin Flags(n)
<1> DEFINE p == lookup_definition(n)
<1>1. Many \in Nat /\ Len(defns) \in Nat /\ defns \in Seq(Definition)
  BY PredefinesIs, LenProperties DEF Table
<1>2. Own \in Nat /\ Len(defns) = Own + Many
  BY <1>1 DEF Own, Table
<1>3. \A i \in 1..Many : defns[Own + i] = Predefines[i]
  BY DEF Table
<1>4. \A i \in 1..Own : "predef" \notin defns[i].flags
  BY DEF Table
<1>5. \/ p = 0 /\ \A i \in 1..Len(defns) : defns[i].name # n
      \/ p \in 1..Len(defns) /\ defns[p].name = n
  BY <1>1, PlaceIs
<1> HIDE DEF p
<1>6. p = 0 => n \notin Predefined
  <2> SUFFICES ASSUME p = 0, n \in Predefined PROVE FALSE
    OBVIOUS
  <2>1. PICK i \in 1..Many : Predefines[i].name = n
    BY PredefinesIs
  <2>2. Own + i \in 1..Len(defns)
    BY <1>1, <1>2
  <2>3. ~(p \in 1..Len(defns))
    BY <1>1
  <2> QED
    BY <1>3, <1>5, <2>1, <2>2, <2>3
<1>7. ASSUME p # 0, ~(p \in 1..Own) PROVE defns[p].flags = {"predef"}
  <2>1. p - Own \in 1..Many /\ Own + (p - Own) = p
    BY <1>1, <1>2, <1>5, <1>7
  <2>2. defns[p] = Predefines[p - Own]
    BY <1>3, <2>1
  <2> QED
    BY <2>1, <2>2, PredefinesIs
<1>8. p # 0 => defns[p] \in Definition
  BY <1>1, <1>5, ElementOfSeq
<1>9. p # 0 /\ "predef" \notin Flags(n) => p \in 1..Own
  BY <1>7 DEF Flags, p
<1>10. p # 0 /\ "predef" \in Flags(n) => "undefined" \notin Flags(n)
  <2>1. ASSUME p # 0, "predef" \in Flags(n) PROVE "undefined" \notin Flags(n)
    <3>1. ~(p \in 1..Own)
      BY <1>4, <2>1 DEF Flags, p
    <3> QED
      BY <1>7, <2>1, <3>1 DEF Flags, p
  <2> QED
    BY <2>1
<1> QED
  BY <1>1, <1>2, <1>6, <1>8, <1>9, <1>10 DEF p

(* One of the program's definitions changes ...                            *)
LEMMA OwnChanges ==
  ASSUME Table, NEW k \in 1..Own, NEW d \in Definition, d.name = defns[k].name, "predef" \notin d.flags,
         defns' = [defns EXCEPT ![k] = d]
  PROVE  Table'
<1>1. Own \in Nat /\ Len(defns) = Own + Many /\ Many \in Nat /\ defns \in Seq(Definition)
  BY OwnPlace DEF Table
<1>2. k \in 1..Len(defns)
  BY <1>1
<1>3. /\ defns' \in Seq(Definition) /\ Len(defns') = Len(defns) /\ defns'[k] = d
      /\ \A i \in 1..Len(defns) : i # k => defns'[i] = defns[i]
  <2>1. PICK w \in Seq(Definition) : w = defns
    BY <1>1
  <2> QED
    BY <1>2, <2>1, SetAt
<1>4. Own' = Own
  BY <1>3 DEF Own
<1>5. ASSUME NEW i \in 1..Own PROVE defns'[i].name \notin Predefined /\ "predef" \notin defns'[i].flags
  <2>1. i \in 1..Len(defns) /\ defns[i].name \notin Predefined /\ "predef" \notin defns[i].flags
    BY <1>1 DEF Table
  <2>2. CASE i = k
    BY <1>3, <2>1, <2>2
  <2>3. CASE i # k
    BY <1>3, <2>1, <2>3
  <2> QED
    BY <2>2, <2>3
<1>6. ASSUME NEW i \in 1..Many PROVE defns'[Own + i] = Predefines[i]
  <2>1. Own + i \in 1..Len(defns) /\ Own + i # k
    BY <1>1
  <2>2. defns'[Own + i] = defns[Own + i] /\ defns[Own + i] = Predefines[i]
    BY <1>3, <2>1 DEF Table
  <2> QED
    BY <2>2
<1> QED
  BY <1>1, <1>3, <1>4, <1>5, <1>6 DEF Table

(* ... or there is one more.                                               *)
LEMMA OwnAdded ==
  ASSUME Table, NEW d \in Definition, d.name \notin Predefined, "predef" \notin d.flags, defns' = <<d>> \o defns
  PROVE  Table'
<1>1. Own \in Nat /\ Len(defns) = Own + Many /\ Many \in Nat /\ defns \in Seq(Definition)
  BY OwnPlace DEF Table
<1>2. /\ defns' \in Seq(Definition) /\ Len(defns') = Len(defns) + 1 /\ defns'[1] = d
      /\ \A i \in 1..Len(defns) : defns'[i + 1] = defns[i]
  <2>1. PICK w \in Seq(Definition) : w = defns
    BY <1>1
  <2>2. PICK q : q = <<d>> \o w
    OBVIOUS
  <2>3. q \in Seq(Definition) /\ Len(q) = Len(w) + 1 /\ q[1] = d /\ \A i \in 1..Len(w) : q[i + 1] = w[i]
    BY <2>2, ConsIs
  <2> QED
    BY <2>1, <2>2, <2>3
<1>3. Own' = Own + 1
  BY <1>1, <1>2 DEF Own
<1>4. ASSUME NEW i \in 1..(Own + 1) PROVE defns'[i].name \notin Predefined /\ "predef" \notin defns'[i].flags
  <2>1. CASE i = 1
    BY <1>2, <2>1
  <2>2. CASE i # 1
    <3>1. i - 1 \in 1..Own /\ i - 1 \in 1..Len(defns) /\ (i - 1) + 1 = i
      BY <1>1, <2>2
    <3>2. defns'[(i - 1) + 1] = defns[i - 1] /\ defns[i - 1].name \notin Predefined /\ "predef" \notin defns[i - 1].flags
      BY <1>2, <3>1 DEF Table
    <3> QED
      BY <3>1, <3>2
  <2> QED
    BY <2>1, <2>2
<1>5. ASSUME NEW i \in 1..Many PROVE defns'[(Own + 1) + i] = Predefines[i]
  <2>1. Own + i \in 1..Len(defns) /\ (Own + i) + 1 = (Own + 1) + i
    BY <1>1
  <2>2. defns'[(Own + i) + 1] = defns[Own + i] /\ defns[Own + i] = Predefines[i]
    BY <1>2, <2>1 DEF Table
  <2> QED
    BY <2>1, <2>2
<1> QED
  BY <1>1, <1>2, <1>3, <1>4, <1>5 DEF Table

LEMMA DefineKeeps ==
  ASSUME Table, NEW n \in Names \cup {"__FILE__"}, NEW v \in Nat, defns' = add_define(n, v).table
  PROVE  Table'
<1> DEFINE p == lookup_definition(n)
<1>1. /\ p = 0 => n \notin Predefined
      /\ p # 0 /\ "predef" \notin Flags(n) => p \in 1..Own
      /\ p # 0 => defns[p] \in Definition
      /\ p # 0 /\ "predef" \in Flags(n) => "undefined" \notin Flags(n)
  BY OwnPlace
<1>2. \/ p = 0 /\ defns' = <<[name |-> n, exps |-> v, flags |-> {}]>> \o defns
      \/ p # 0 /\ "predef" \notin Flags(n) /\ "undefined" \in Flags(n) /\ defns' = [defns EXCEPT ![p].exps = v, ![p].flags = {}]
      \/ p # 0 /\ "predef" \notin Flags(n) /\ "undefined" \notin Flags(n) /\ defns' = [defns EXCEPT ![p].exps = v]
      \/ defns' = defns
  BY <1>1 DEF add_define
<1> HIDE DEF p
<1>3. CASE p = 0 /\ defns' = <<[name |-> n, exps |-> v, flags |-> {}]>> \o defns
  <2>1. PICK d \in Definition : d = [name |-> n, exps |-> v, flags |-> {}]
    BY DEF Definition, AllNames
  <2> QED
    BY <1>1, <1>3, <2>1, OwnAdded
<1>4. CASE p # 0 /\ "predef" \notin Flags(n) /\ defns' = [defns EXCEPT ![p].exps = v, ![p].flags = {}]
  <2>1. PICK h \in Definition : h = defns[p]
    BY <1>1, <1>4
  <2>2. PICK d : d = [h EXCEPT !.exps = v, !.flags = {}]
    OBVIOUS
  <2>3. d \in Definition /\ d.name = h.name /\ d.flags = {}
    BY <2>2 DEF Definition
  <2>4. defns' = [defns EXCEPT ![p] = d]
    BY <1>1, <1>4, <2>1, <2>2, OwnPlace DEF Table
  <2> QED
    BY <1>1, <1>4, <2>1, <2>3, <2>4, OwnChanges
<1>5. CASE p # 0 /\ "predef" \notin Flags(n) /\ defns' = [defns EXCEPT ![p].exps = v]
  <2>1. PICK h \in Definition : h = defns[p]
    BY <1>1, <1>5
  <2>2. PICK d : d = [h EXCEPT !.exps = v]
    OBVIOUS
  <2>3. d \in Definition /\ d.name = h.name /\ d.flags = h.flags
    BY <2>2 DEF Definition
  <2>4. defns' = [defns EXCEPT ![p] = d]
    BY <1>5, <2>1, <2>2
  <2>5. "predef" \notin d.flags
    BY <1>5, <2>1, <2>3 DEF Flags, p
  <2> QED
    BY <1>1, <1>5, <2>1, <2>3, <2>4, <2>5, OwnChanges
<1>6. CASE defns' = defns
  BY <1>6 DEF Table, Own
<1> QED
  BY <1>2, <1>3, <1>4, <1>5, <1>6

LEMMA UndefKeeps ==
  ASSUME Table, NEW n, IsDefined(n), "predef" \notin Flags(n),
         defns' = [defns EXCEPT ![lookup_definition(n)].flags = @ \cup {"undefined"}]
  PROVE  Table'
<1> DEFINE p == lookup_definition(n)
<1>1. p # 0
  BY DEF IsDefined
<1>2. p \in 1..Own /\ defns[p] \in Definition
  BY <1>1, OwnPlace
<1>3. PICK h \in Definition : h = defns[p]
  BY <1>2
<1>4. PICK d : d = [h EXCEPT !.flags = @ \cup {"undefined"}]
  OBVIOUS
<1>5. d \in Definition /\ d.name = h.name /\ d.flags = h.flags \cup {"undefined"}
  BY <1>4 DEF Definition
<1> HIDE DEF p
<1>6. defns' = [defns EXCEPT ![p] = d]
  BY <1>3, <1>4 DEF p
<1>7. "predef" \notin d.flags
  BY <1>3, <1>5 DEF Flags, p
<1> QED
  BY <1>2, <1>3, <1>5, <1>6, <1>7, OwnChanges

(* When a program is compiled only the driver's definitions are left.      *)
LEMMA FreeKeeps ==
  ASSUME Table, defns' = free_defines
  PROVE  Table' /\ Own' = 0
<1>1. Own \in Nat /\ Len(defns) = Own + Many /\ Many \in Nat /\ defns \in Seq(Definition) /\ DOMAIN defns = 1..Len(defns)
  BY OwnPlace, LenProperties DEF Table
<1>2. (\A i \in 1..Own : "predef" \notin defns[i].flags) /\ \A i \in 1..Many : defns[Own + i] = Predefines[i]
  BY DEF Table
<1>3. PICK kept : kept = {i \in DOMAIN defns : \E j \in 1..i : "predef" \in defns[j].flags}
  OBVIOUS
<1>4. kept = (Own + 1)..Len(defns)
  <2>1. ASSUME NEW i \in kept PROVE i \in (Own + 1)..Len(defns)
    BY <1>1, <1>2, <1>3
  <2>2. ASSUME NEW i \in (Own + 1)..Len(defns) PROVE i \in kept
    <3>1. i - Own \in 1..Many /\ Own + (i - Own) = i /\ i \in 1..Len(defns) /\ i \in 1..i
      BY <1>1
    <3>2. defns[i] = Predefines[i - Own]
      BY <1>2, <3>1
    <3>3. "predef" \in defns[i].flags
      BY <3>1, <3>2, PredefinesIs
    <3> QED
      BY <1>1, <1>3, <3>1, <3>3
  <2> QED
    BY <2>1, <2>2
<1>5. Cardinality(kept) = Many
  <2>1. Own + 1 \in Int /\ Len(defns) \in Int
    BY <1>1
  <2>2. Cardinality((Own + 1)..Len(defns)) = IF Own + 1 > Len(defns) THEN 0 ELSE Len(defns) - (Own + 1) + 1
    BY <2>1, FS_Interval
  <2> QED
    BY <1>1, <1>4, <2>2
<1>6. PICK rest : rest = SubSeq(defns, Own + 1, Len(defns))
  OBVIOUS
<1>7. rest \in Seq(Definition) /\ Len(rest) = Many /\ \A i \in 1..Many : rest[i] = Predefines[i]
  <2>1. Own + 1 \in 1..(Len(defns) + 1) /\ Len(defns) \in (Own + 1 - 1)..Len(defns)
    BY <1>1
  <2>2. /\ rest \in Seq(Definition)
        /\ Len(rest) = IF Own + 1 <= Len(defns) THEN Len(defns) - (Own + 1) + 1 ELSE 0
        /\ \A i \in 1..(Len(defns) - (Own + 1) + 1) : rest[i] = defns[(Own + 1) + i - 1]
    BY <1>1, <1>6, <2>1, SubSeqProperties
  <2>3. Len(rest) = Many /\ Len(defns) - (Own + 1) + 1 = Many
    BY <1>1, <2>2
  <2>4. ASSUME NEW i \in 1..Many PROVE rest[i] = Predefines[i]
    <3>1. (Own + 1) + i - 1 = Own + i
      BY <1>1
    <3>2. rest[i] = defns[(Own + 1) + i - 1]
      BY <2>2, <2>3
    <3> QED
      BY <1>2, <3>1, <3>2
  <2> QED
    BY <2>2, <2>3, <2>4
<1>8. defns' = [i \in DOMAIN rest |-> [rest[i] EXCEPT !.flags = @ \ {"undefined"}]]
  <2>1. Len(defns) - Cardinality(kept) + 1 = Own + 1
    BY <1>1, <1>5
  <2> QED
    BY <1>3, <1>6, <2>1 DEF free_defines
<1>9. DOMAIN rest = 1..Many
  BY <1>7, LenProperties
<1>10. ASSUME NEW i \in 1..Many PROVE defns'[i] = Predefines[i] /\ Predefines[i] \in Definition
  <2>1. PICK d \in Definition : d = rest[i] /\ d = Predefines[i] /\ d.flags = {"predef"}
    BY <1>7, PredefinesIs, ElementOfSeq
  <2>2. defns'[i] = [d EXCEPT !.flags = d.flags \ {"undefined"}]
    BY <1>8, <1>9, <2>1
  <2>3. d.flags \ {"undefined"} = d.flags
    BY <2>1
  <2>4. [d EXCEPT !.flags = d.flags] = d
    BY DEF Definition
  <2> QED
    BY <2>1, <2>2, <2>3, <2>4
<1>11. defns' \in [1..Many -> Definition]
  BY <1>8, <1>9, <1>10
<1>12. defns' \in Seq(Definition) /\ Len(defns') = Many
  BY <1>1, <1>11, SeqDef, LenProperties
<1>13. Own' = 0
  BY <1>1, <1>12 DEF Own
<1> QED
  BY <1>1, <1>10, <1>12, <1>13 DEF Table

LEMMA StartTable ==
  ASSUME defns = Predefines
  PROVE  Table /\ Own = 0
BY PredefinesIs DEF Table, Own
-----------------------------------------------------------------------------
(* Every action keeps the invariant.                                       *)
LEMMA StillReading ==
  ASSUME PreInv, lex' = "reading", compiled' = compiled, Table', Meant', Conditionals', Accounts'
  PROVE  PreInv'
BY DEF PreInv

LEMMA TableStays ==
  ASSUME Table, defns' = defns
  PROVE  Table'
BY DEF Table, Own

(* A line that makes no code and leaves the table.                         *)
LEMMA PlainStep ==
  ASSUME PreInv, lex = "reading", Counted, Next1, Conditionals',
         UNCHANGED <<defns, lineVars, lex, told, compiled>>
  PROVE  PreInv'
<1>1. Table /\ Accounts /\ Meant
  BY DEF PreInv
<1>2. UncountedFiles
  BY DEF UncountedFiles, lineVars
<1>3. Accounts'
  BY <1>1, <1>2, PlainAccounts
<1>4. Meant'
  BY <1>1 DEF Meant
<1> QED
  BY <1>1, <1>3, <1>4, TableStays, StillReading

LEMMA CodeKeeps ==
  ASSUME PreInv, Code
  PROVE  PreInv'
<1>1. /\ skip = <<>> /\ lex = "reading" /\ Counted /\ Next1 /\ UncountedFiles
      /\ told' = Append(told, [abs |-> base + current_line, at |-> where[1], meant |-> Active])
      /\ UNCHANGED <<iftop, skip, defns, lex, groups, compiled>>
  BY DEF Code, Read, Line, Next1, lineVars, UncountedFiles
<1>2. Table /\ Accounts /\ Meant /\ Conditionals
  BY <1>1 DEF PreInv
<1>3. PICK fits \in BOOLEAN : fits = Active /\ fits
  <2>1. Active
    BY <1>1, <1>2, ReadIsActive
  <2> QED
    BY <2>1
<1>4. told' = Append(told, [abs |-> base + current_line, at |-> where[1], meant |-> fits])
  BY <1>1, <1>3
<1>5. Accounts' /\ Len(told') = Len(told) + 1 /\ (\A i \in 1..Len(told) : told'[i] = told[i]) /\ told'[Len(told) + 1].meant = fits
  BY <1>1, <1>2, <1>4, CodeAccounts
<1>6. Meant'
  <2>1. Len(told) \in Nat
    BY <1>2, LenProperties DEF Accounts, LineTypes
  <2>2. ASSUME NEW i \in 1..Len(told') PROVE told'[i].meant
    <3>1. CASE i \in 1..Len(told)
      BY <1>2, <1>5, <3>1 DEF Meant
    <3>2. CASE i = Len(told) + 1
      BY <1>3, <1>5, <3>2
    <3> QED
      BY <1>5, <2>1, <3>1, <3>2
  <2> QED
    BY <2>2 DEF Meant
<1>7. Conditionals'
  BY <1>1, <1>2 DEF Conditionals, Reading, SkippingTo, Chosen
<1> QED
  BY <1>1, <1>2, <1>5, <1>6, <1>7, TableStays, StillReading

LEMMA ConditionsAre == \A n : IsDefined(n) \in BOOLEAN /\ (~IsDefined(n)) \in BOOLEAN
BY DEF IsDefined

LEMMA IfKeeps ==
  ASSUME PreInv, Ifdef \/ Ifndef
  PROVE  PreInv'
<1>1. PICK c \in BOOLEAN : If(c)
  BY ConditionsAre DEF Ifdef, Ifndef
<1>2. /\ lex = "reading" /\ skip = <<>> /\ Counted /\ Next1 /\ handle_cond(c, iftop) /\ groups' = Opened(c)
      /\ UNCHANGED <<defns, lineVars, lex, told, compiled>>
  BY <1>1 DEF If, Read, Line
<1>3. Conditionals
  BY <1>2 DEF PreInv
<1>4. Conditionals'
  BY <1>2, <1>3, IfConditionals
<1> QED
  BY <1>2, <1>4, PlainStep

LEMMA ElifKeeps ==
  ASSUME PreInv, Elif
  PROVE  PreInv'
<1>1. PICK n \in Names :
        /\ lex = "reading" /\ iftop # <<>> /\ Stops("elif") /\ Counted /\ Next1
        /\ handle_elif(IsDefined(n)) /\ groups' = ElifGroup(IsDefined(n))
        /\ UNCHANGED <<defns, lineVars, lex, told, compiled>>
  BY DEF Elif, Directive, Line
<1>2. Conditionals
  BY <1>1 DEF PreInv
<1>3. PICK c \in BOOLEAN : c = IsDefined(n)
  BY ConditionsAre
<1>4. handle_elif(c) /\ groups' = ElifGroup(c)
  BY <1>1, <1>3
<1>5. Conditionals'
  BY <1>1, <1>2, <1>4, ElifConditionals
<1> QED
  BY <1>1, <1>5, PlainStep

LEMMA ElseKeeps ==
  ASSUME PreInv, Else
  PROVE  PreInv'
<1>1. /\ lex = "reading" /\ iftop # <<>> /\ Stops("else") /\ Counted /\ Next1 /\ handle_else /\ groups' = ElseGroup
      /\ UNCHANGED <<defns, lineVars, lex, told, compiled>>
  BY DEF Else, Directive, Line
<1>2. Conditionals
  BY <1>1 DEF PreInv
<1>3. Conditionals'
  BY <1>1, <1>2, ElseConditionals
<1> QED
  BY <1>1, <1>3, PlainStep

LEMMA EndifKeeps ==
  ASSUME PreInv, Endif
  PROVE  PreInv'
<1>1. /\ lex = "reading" /\ iftop # <<>> /\ Stops("endif") /\ Counted /\ Next1 /\ handle_endif /\ skip' = <<>> /\ groups' = Tail(groups)
      /\ UNCHANGED <<defns, lineVars, lex, told, compiled>>
  BY DEF Endif, Directive, Line
<1>2. Conditionals
  BY <1>1 DEF PreInv
<1>3. Conditionals'
  BY <1>1, <1>2, EndifConditionals
<1> QED
  BY <1>1, <1>3, PlainStep

LEMMA SkippingKeeps ==
  ASSUME PreInv, SkipCode \/ SkipIf \/ SkipElif \/ SkipElse \/ SkipEndif
  PROVE  PreInv'
<1>1. /\ lex = "reading" /\ skip # <<>> /\ Counted /\ Next1 /\ iftop' = iftop
      /\ UNCHANGED <<defns, lineVars, lex, told, compiled>>
  BY DEF SkipCode, SkipIf, SkipElif, SkipElse, SkipEndif, SkipOther, Skipping, Skipped, Line
<1>2. Conditionals
  BY <1>1 DEF PreInv
<1>3. CASE SkipCode
  BY <1>1, <1>2, <1>3, PlainStep DEF SkipCode, Conditionals, Reading, SkippingTo, Chosen
<1>4. CASE SkipIf
  <2>1. skip' = [skip EXCEPT ![1].nest = @ + 1] /\ groups' = Opened(FALSE)
    BY <1>4 DEF SkipIf
  <2>2. Conditionals'
    BY <1>1, <1>2, <2>1, SkipIfConditionals
  <2> QED
    BY <1>1, <2>2, PlainStep
<1>5. CASE SkipElif
  <2>1. skip' = skip /\ ~Stops("elif") /\ \E c \in BOOLEAN : groups' = ElifGroup(c)
    BY <1>5, ConditionsAre DEF SkipElif, Skipping, Line
  <2>2. Conditionals'
    BY <1>1, <1>2, <2>1, SkipOtherConditionals
  <2> QED
    BY <1>1, <2>2, PlainStep
<1>6. CASE SkipElse
  <2>1. skip' = skip /\ ~Stops("else") /\ groups' = ElseGroup
    BY <1>6 DEF SkipElse, SkipOther, Skipping, Line
  <2>2. Conditionals'
    BY <1>1, <1>2, <2>1, SkipOtherConditionals
  <2> QED
    BY <1>1, <2>2, PlainStep
<1>7. CASE SkipEndif
  <2>1. skip' = [skip EXCEPT ![1].nest = @ - 1] /\ ~Stops("endif") /\ groups' = Tail(groups)
    BY <1>7 DEF SkipEndif, Skipping, Line
  <2>2. Conditionals'
    BY <1>1, <1>2, <2>1, SkipEndifConditionals
  <2> QED
    BY <1>1, <2>2, PlainStep
<1> QED
  BY <1>3, <1>4, <1>5, <1>6, <1>7

LEMMA UnexpectedKeeps ==
  ASSUME PreInv, Unexpected
  PROVE  PreInv'
<1>1. /\ lex = "reading" /\ Counted /\ Next1 /\ UncountedFiles /\ lex' = "fatal"
      /\ UNCHANGED <<defns, told, compiled>>
  BY DEF Unexpected, Read, Line, lineVars, UncountedFiles
<1>2. Table /\ Accounts /\ Meant
  BY <1>1 DEF PreInv
<1>3. Accounts'
  BY <1>1, <1>2, PlainAccounts
<1>4. Meant' /\ Table'
  BY <1>1, <1>2, TableStays DEF Meant
<1> QED
  BY <1>1, <1>3, <1>4 DEF PreInv

LEMMA TableKeeps ==
  ASSUME PreInv, Define \/ Undef
  PROVE  PreInv'
<1>1. /\ lex = "reading" /\ Counted /\ Next1 /\ UncountedFiles
      /\ UNCHANGED <<iftop, skip, lex, groups, told, compiled>>
  BY DEF Define, Undef, Read, Line, lineVars, UncountedFiles
<1>2. Table /\ Accounts /\ Meant /\ Conditionals
  BY <1>1 DEF PreInv
<1>3. Accounts'
  BY <1>1, <1>2, PlainAccounts
<1>4. Conditionals'
  BY <1>1, <1>2 DEF Conditionals, Reading, SkippingTo, Chosen
<1>5. Meant'
  BY <1>1, <1>2 DEF Meant
<1>6. Table'
  <2>1. CASE Define
    <3>1. PICK n \in Names, v \in {1, 2} : defns' = add_define(n, v).table
      BY <2>1 DEF Define
    <3>2. v \in Nat /\ n \in Names \cup {"__FILE__"}
      OBVIOUS
    <3> QED
      BY <1>2, <3>1, <3>2, DefineKeeps
  <2>2. CASE Undef
    <3>1. PICK n \in Names :
            /\ IsDefined(n)
            /\ IF "predef" \in Flags(n) THEN errors' = TRUE /\ UNCHANGED defns
               ELSE defns' = [defns EXCEPT ![lookup_definition(n)].flags = @ \cup {"undefined"}] /\ UNCHANGED errors
      BY <2>2 DEF Undef, Read, Line
    <3>2. CASE "predef" \in Flags(n)
      BY <1>2, <3>1, <3>2, TableStays
    <3>3. CASE "predef" \notin Flags(n)
      BY <1>2, <3>1, <3>3, UndefKeeps
    <3> QED
      BY <3>2, <3>3
  <2> QED
    BY <2>1, <2>2
<1> QED
  BY <1>1, <1>3, <1>4, <1>5, <1>6, StillReading

LEMMA IncludeKeeps ==
  ASSUME PreInv, Include
  PROVE  PreInv'
<1>1. PICK f \in Files, found \in BOOLEAN :
        /\ lex = "reading" /\ handle_include(f, found)
        /\ UNCHANGED <<iftop, skip, defns, lex, groups, told, compiled>>
  BY DEF Include, Read, Line
<1>2. Table /\ Accounts /\ Meant /\ Conditionals
  BY <1>1 DEF PreInv
<1>3. Accounts'
  <2>1. CASE incnum + 1 = MAX_INCLUDE_DEPTH \/ ~found
    <3>1. Counted /\ Next1 /\ UncountedFiles
      BY <1>1, <2>1 DEF handle_include, UncountedFiles
    <3> QED
      BY <1>1, <1>2, <3>1, PlainAccounts
  <2>2. CASE ~(incnum + 1 = MAX_INCLUDE_DEPTH \/ ~found)
    <3>1. /\ inctop' = <<[line |-> current_line + 1, file |-> file]>> \o inctop
          /\ file_info' = save_file_info(file, current_line - saved)
          /\ base' = base + current_line /\ saved' = 0 /\ current_line' = 1 /\ file' = f
          /\ where' = <<[file |-> f, line |-> 1], [where[1] EXCEPT !.line = @ + 1]>> \o Tail(where)
          /\ opened' = [opened EXCEPT ![f] = @ + 1]
      BY <1>1, <2>2 DEF handle_include
    <3> QED
      BY <1>1, <1>2, <3>1, IncludeAccounts
  <2> QED
    BY <2>1, <2>2
<1>4. Conditionals'
  BY <1>1, <1>2 DEF Conditionals, Reading, SkippingTo, Chosen
<1>5. Meant'
  BY <1>1, <1>2 DEF Meant
<1> QED
  BY <1>1, <1>2, <1>3, <1>4, <1>5, TableStays, StillReading

LEMMA EndOfIncludeKeeps ==
  ASSUME PreInv, EndOfInclude
  PROVE  PreInv'
<1>1. lex = "reading" /\ UNCHANGED <<iftop, skip, defns, lex, groups, told, opened, compiled>>
  BY DEF EndOfInclude
<1>2. Table /\ Accounts /\ Meant /\ Conditionals
  BY <1>1 DEF PreInv
<1>3. Accounts'
  BY <1>1, <1>2, EndOfIncludeAccounts DEF EndOfInclude
<1>4. Conditionals'
  BY <1>1, <1>2 DEF Conditionals, Reading, SkippingTo, Chosen
<1>5. Meant'
  BY <1>1, <1>2 DEF Meant
<1> QED
  BY <1>1, <1>2, <1>3, <1>4, <1>5, TableStays, StillReading

LEMMA EndWhileSkippingKeeps ==
  ASSUME PreInv, EndWhileSkipping
  PROVE  PreInv'
<1>1. /\ lex = "reading" /\ lex' = "fatal" /\ UncountedFiles
      /\ UNCHANGED <<defns, current_line, where, told, compiled>>
  BY DEF EndWhileSkipping, lineVars, UncountedFiles
<1>2. Table /\ Accounts /\ Meant
  BY <1>1 DEF PreInv
<1>3. Accounts'
  BY <1>1, <1>2, SameAccounts
<1>4. Meant' /\ Table'
  BY <1>1, <1>2, TableStays DEF Meant
<1> QED
  BY <1>1, <1>3, <1>4 DEF PreInv

LEMMA EndOfProgramKeeps ==
  ASSUME PreInv, EndOfProgram
  PROVE  PreInv'
<1>1. /\ lex \in {"reading", "fatal"} /\ lex' = "done" /\ file_info' = save_file_info(file, current_line - saved)
      /\ iftop' = <<>> /\ skip' = <<>> /\ inctop' = <<>> /\ defns' = free_defines
      /\ told' = told /\ opened' = opened /\ compiled' = compiled
  BY DEF EndOfProgram
<1>2. Table /\ Accounts /\ Meant
  BY <1>1 DEF PreInv
<1>3. Table' /\ Own' = 0
  BY <1>1, <1>2, FreeKeeps
<1>4. Meant' /\ told' \in Seq(Node)
  BY <1>1, <1>2 DEF Meant, Accounts, LineTypes
<1>5. Singles' \subseteq Singles
  BY <1>1 DEF Singles
<1>6. AllPlaced' /\ file_info' \in Seq(Info)
  BY <1>1, <1>2, <1>5, AllLocated, EntryMade
<1> QED
  BY <1>1, <1>3, <1>4, <1>6 DEF PreInv

LEMMA CompiledKeeps ==
  ASSUME PreInv, Compiled
  PROVE  PreInv'
<1>1. /\ lex = "done" /\ lex' = "idle" /\ compiled' = compiled + 1 /\ groups' = <<>> /\ told' = <<>>
      /\ UNCHANGED <<iftop, skip, defns, inctop>>
  BY DEF Compiled
<1>2. Table /\ Own = 0 /\ compiled \in Nat /\ iftop = <<>> /\ skip = <<>> /\ inctop = <<>>
  BY <1>1 DEF PreInv
<1>3. Table' /\ Own' = 0
  BY <1>1, <1>2, TableStays DEF Own
<1>4. Meant'
  BY <1>1, EmptySeq DEF Meant
<1>5. compiled' \in Nat
  BY <1>1, <1>2
<1> QED
  BY <1>1, <1>2, <1>3, <1>4, <1>5 DEF PreInv

LEMMA StartKeeps ==
  ASSUME PreInv, start_new_file
  PROVE  PreInv'
<1>1. /\ lex = "idle" /\ lex' = "reading" /\ told' = <<>> /\ defns' = add_define("__FILE__", compiled).table
      /\ UNCHANGED <<iftop, skip, inctop, groups, compiled>>
  BY DEF start_new_file
<1>2. Table /\ compiled \in Nat /\ iftop = <<>> /\ skip = <<>> /\ inctop = <<>> /\ groups = <<>>
  BY <1>1 DEF PreInv
<1>3. Table'
  <2>1. "__FILE__" \in Names \cup {"__FILE__"}
    OBVIOUS
  <2> QED
    BY <1>1, <1>2, <2>1, DefineKeeps
<1>4. Accounts'
  BY <1>1, <1>2, StartAccounts DEF start_new_file
<1>5. Conditionals'
  <2>1. iftop' \in Seq(Expected) /\ groups' \in Seq(Group) /\ Len(iftop') = 0 /\ Len(groups') = 0
    BY <1>1, <1>2, EmptySeq
  <2>2. Reading'
    BY <2>1 DEF Reading
  <2> QED
    BY <1>1, <1>2, <2>1, <2>2 DEF Conditionals
<1>6. Meant'
  BY <1>1, EmptySeq DEF Meant
<1> QED
  BY <1>1, <1>3, <1>4, <1>5, <1>6, StillReading

LEMMA PreStep ==
  ASSUME PreInv, [PreNext]_preVars
  PROVE  PreInv'
<1>1. CASE PreNext
  BY <1>1, StartKeeps, CodeKeeps, IfKeeps, ElifKeeps, ElseKeeps, EndifKeeps, UnexpectedKeeps, TableKeeps, SkippingKeeps,
     IncludeKeeps, EndOfIncludeKeeps, EndWhileSkippingKeeps, EndOfProgramKeeps, CompiledKeeps DEF PreNext
<1>2. CASE UNCHANGED preVars
  <2>1. /\ UncountedFiles
        /\ UNCHANGED <<iftop, skip, defns, inctop, file_info, current_line, lex, groups, where, told, opened, compiled>>
    BY <1>2 DEF preVars, UncountedFiles
  <2>2. (Table' <=> Table) /\ Own' = Own /\ (Meant' <=> Meant) /\ (AllPlaced' <=> AllPlaced) /\ (Conditionals' <=> Conditionals)
    BY <2>1 DEF Table, Own, Meant, AllPlaced, Located, LocatedAt, Singles, Conditionals, Reading, SkippingTo, Chosen
  <2>3. Accounts => Accounts'
    BY <2>1, SameAccounts
  <2> QED
    BY <2>1, <2>2, <2>3 DEF PreInv
<1> QED
  BY <1>1, <1>2

LEMMA PreStart ==
  ASSUME PreInit
  PROVE  PreInv
<1>1. Table /\ Own = 0
  BY StartTable DEF PreInit
<1>2. Meant
  BY EmptySeq DEF PreInit, Meant
<1> QED
  BY <1>1, <1>2 DEF PreInit, PreInv

(* The property follows.                                                   *)
LEMMA PreSound ==
  ASSUME PreInv
  PROVE  PreprocessorSound
<1>1. CompiledAsChosen
  <2>1. told \in Seq(Node)
    BY EmptySeq DEF PreInv, Accounts, LineTypes
  <2>2. DOMAIN told = 1..Len(told)
    BY <2>1, LenProperties
  <2> QED
    BY <2>2 DEF CompiledAsChosen, PreInv, Meant
<1>2. LinesFound
  <2> SUFFICES ASSUME lex = "done", NEW i \in DOMAIN told, told[i].at.file \in Files => opened[told[i].at.file] = 1
               PROVE  translate_absolute_line(told[i].abs, file_info) = told[i].at
    BY DEF LinesFound
  <2>1. told \in Seq(Node) /\ file_info \in Seq(Info) /\ AllPlaced
    BY DEF PreInv
  <2>2. i \in 1..Len(told)
    BY <2>1, LenProperties
  <2>3. PICK t \in Node : t = told[i]
    BY <2>1, <2>2, ElementOfSeq
  <2>4. PICK k \in 1..Len(file_info) : LocatedAt(t, file_info, k, Singles)
    BY <2>1, <2>2, <2>3 DEF AllPlaced, Located
  <2>5. t.at.file \in Singles
    <3>1. t.at.file \in AllFiles
      BY DEF Node, Place
    <3> QED
      BY <2>3, <3>1 DEF Singles
  <2>6. translate_absolute_line(t.abs, file_info) = t.at
    BY <2>1, <2>4, <2>5, TranslateFinds
  <2> QED
    BY <2>3, <2>6
<1>3. NothingLeaks
  <2> SUFFICES ASSUME lex = "idle"
               PROVE  /\ {defns[i].name : i \in DOMAIN defns} = Predefined
                      /\ \A i \in DOMAIN defns : defns[i].exps = 0 /\ defns[i].flags = {"predef"}
                      /\ iftop = <<>> /\ inctop = <<>>
    BY DEF NothingLeaks
  <2>1. Table /\ Own = 0 /\ iftop = <<>> /\ inctop = <<>>
    BY DEF PreInv
  <2>2. DOMAIN defns = 1..Many /\ \A i \in 1..Many : defns[i] = Predefines[i]
    <3>1. DOMAIN defns = 1..Len(defns) /\ Len(defns) = Many
      BY <2>1, OwnPlace, PredefinesIs, LenProperties DEF Table
    <3>2. \A i \in 1..Many : 0 + i = i
      BY PredefinesIs
    <3> QED
      BY <2>1, <3>1, <3>2 DEF Table
  <2>3. \A i \in 1..Many : defns[i].name \in Predefined /\ defns[i].exps = 0 /\ defns[i].flags = {"predef"}
    BY <2>2, PredefinesIs
  <2>4. \A n \in Predefined : \E i \in 1..Many : defns[i].name = n
    BY <2>2, PredefinesIs
  <2> QED
    BY <2>1, <2>2, <2>3, <2>4
<1> QED
  BY <1>1, <1>2, <1>3 DEF PreprocessorSound

(* Text is compiled as the conditionals choose it, however they are nested *)
(* and spread over files; a node's line is found in the accounts           *)
(* (translate_absolute_line()); and no macro of a program is left for the  *)
(* next (free_defines()): for any macros, files and programs.              *)
THEOREM PreprocessorIsSound == PreSpec => []PreprocessorSound
<1>1. PreInit => PreInv
  BY PreStart
<1>2. PreInv /\ [PreNext]_preVars => PreInv'
  BY PreStep
<1>3. PreInv => PreprocessorSound
  BY PreSound
<1> QED
  BY <1>1, <1>2, <1>3, PTL DEF PreSpec
=============================================================================
