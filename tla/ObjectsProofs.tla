--------------------------- MODULE ObjectsProofs ---------------------------
(***************************************************************************)
(* Proofs about the objects of Objects, for any number of them and any     *)
(* depth of calls: inventories and environments form a forest, shadows     *)
(* form chains, and sentences come from objects near by.                   *)
(***************************************************************************)
EXTENDS Objects, SequenceTheorems, TLAPS

-----------------------------------------------------------------------------
(* Inventories: lists in which no object stands twice.                     *)

(* Taking out the i-th of a list moves the later ones up.                  *)
LEMMA TakenAt ==
  ASSUME NEW S, NEW s \in Seq(S), NEW i \in 1..Len(s)
  PROVE  /\ RemoveAt(s, i) \in Seq(S) /\ Len(RemoveAt(s, i)) = Len(s) - 1
         /\ \A j \in 1..(Len(s) - 1) : RemoveAt(s, i)[j] = s[IF j < i THEN j ELSE j + 1]
<1> DEFINE a == SubSeq(s, 1, i - 1)
           b == SubSeq(s, i + 1, Len(s))
<1>1. a \in Seq(S) /\ Len(a) = i - 1 /\ \A j \in 1..(i - 1) : a[j] = s[j]
  BY SubSeqProperties
<1>2. b \in Seq(S) /\ Len(b) = Len(s) - i /\ \A j \in 1..(Len(s) - i) : b[j] = s[i + j]
  BY SubSeqProperties
<1>3. RemoveAt(s, i) = a \o b
  BY DEF RemoveAt
<1> HIDE DEF a, b
<1>4. Len(s) \in Nat /\ i \in Nat
  OBVIOUS
<1>5. /\ a \o b \in Seq(S) /\ Len(a \o b) = Len(a) + Len(b)
      /\ \A j \in 1..(Len(a) + Len(b)) : (a \o b)[j] = IF j <= Len(a) THEN a[j] ELSE b[j - Len(a)]
  BY <1>1, <1>2, ConcatProperties
<1>6. ASSUME NEW j \in 1..(Len(s) - 1) PROVE (a \o b)[j] = s[IF j < i THEN j ELSE j + 1]
  <2>1. j \in 1..(Len(a) + Len(b))
    BY <1>1, <1>2, <1>4
  <2>2. CASE j < i
    <3>1. (a \o b)[j] = a[j]
      BY <1>1, <1>4, <1>5, <2>1, <2>2
    <3> QED
      BY <1>1, <1>4, <2>2, <3>1
  <2>3. CASE ~(j < i)
    <3>1. (a \o b)[j] = b[j - (i - 1)]
      BY <1>1, <1>4, <1>5, <2>1, <2>3
    <3>2. j - (i - 1) \in 1..(Len(s) - i)
      BY <1>4, <2>3
    <3>3. b[j - (i - 1)] = s[i + (j - (i - 1))] /\ i + (j - (i - 1)) = j + 1
      BY <1>2, <1>4, <3>2
    <3> QED
      BY <2>3, <3>1, <3>3
  <2> QED
    BY <2>2, <2>3
<1> QED
  BY <1>1, <1>2, <1>3, <1>4, <1>5, <1>6

(* Unlinking an object takes it, and nothing else, out of an inventory.    *)
LEMMA Unlinked ==
  ASSUME NEW inv \in Seq(Objects), IsInjective(inv), NEW e
  PROVE  /\ RemoveFirst(inv, e) \in Seq(Objects) /\ IsInjective(RemoveFirst(inv, e))
         /\ ToSet(RemoveFirst(inv, e)) = ToSet(inv) \ {e}
<1>1. DOMAIN inv = 1..Len(inv) /\ Len(inv) \in Nat
  OBVIOUS
<1>2. CASE \A j \in 1..Len(inv) : inv[j] # e
  <2>1. RemoveFirst(inv, e) = inv
    BY <1>2 DEF RemoveFirst, SelectInSeq
  <2>2. e \notin ToSet(inv)
    BY <1>1, <1>2 DEF ToSet
  <2> QED
    BY <2>1, <2>2
<1>3. ASSUME NEW i \in 1..Len(inv), inv[i] = e
      PROVE  /\ RemoveFirst(inv, e) \in Seq(Objects) /\ IsInjective(RemoveFirst(inv, e))
             /\ ToSet(RemoveFirst(inv, e)) = ToSet(inv) \ {e}
  <2>1. \A j \in 1..Len(inv) : inv[j] = e => j = i
    BY <1>1, <1>3 DEF IsInjective
  <2>2. {j \in 1..Len(inv) : inv[j] = e} = {i}
    BY <1>3, <2>1
  <2>3. Min({i}) = i
    BY DEF Min
  <2>4. RemoveFirst(inv, e) = RemoveAt(inv, i)
    BY <1>3, <2>2, <2>3 DEF RemoveFirst, SelectInSeq
  <2>5. PICK r : r = RemoveFirst(inv, e)
    OBVIOUS
  <2>6. /\ r \in Seq(Objects) /\ Len(r) = Len(inv) - 1
        /\ \A j \in 1..(Len(inv) - 1) : r[j] = inv[IF j < i THEN j ELSE j + 1]
    BY <2>4, <2>5, TakenAt
  <2>7. DOMAIN r = 1..(Len(inv) - 1)
    BY <2>6
  <2>8. IsInjective(r)
    <3> SUFFICES ASSUME NEW m \in 1..(Len(inv) - 1), NEW n \in 1..(Len(inv) - 1), r[m] = r[n]
                 PROVE  m = n
      BY <2>7 DEF IsInjective
    <3> DEFINE at(j) == IF j < i THEN j ELSE j + 1
    <3>1. inv[at(m)] = inv[at(n)]
      BY <2>6
    <3>2. at(m) \in 1..Len(inv) /\ at(n) \in 1..Len(inv)
      BY <1>1
    <3>3. at(m) = at(n)
      BY <1>1, <3>1, <3>2 DEF IsInjective
    <3> QED
      BY <1>1, <3>3
  <2>9. ToSet(r) = ToSet(inv) \ {e}
    <3>1. ASSUME NEW x \in ToSet(r) PROVE x \in ToSet(inv) \ {e}
      <4>1. PICK j \in 1..(Len(inv) - 1) : x = r[j]
        BY <2>7 DEF ToSet
      <4> DEFINE k == IF j < i THEN j ELSE j + 1
      <4>2. k \in 1..Len(inv) /\ k # i
        BY <1>1
      <4>3. x = inv[k]
        BY <2>6, <4>1
      <4> HIDE DEF k
      <4>4. x # e
        BY <2>1, <4>2, <4>3
      <4> QED
        BY <1>1, <4>2, <4>3, <4>4 DEF ToSet
    <3>2. ASSUME NEW x \in ToSet(inv), x # e PROVE x \in ToSet(r)
      <4>1. PICK k \in 1..Len(inv) : x = inv[k]
        BY <1>1 DEF ToSet
      <4>2. k # i
        BY <1>3, <3>2, <4>1
      <4> DEFINE j == IF k < i THEN k ELSE k - 1
      <4>3. j \in 1..(Len(inv) - 1) /\ k = IF j < i THEN j ELSE j + 1
        BY <1>1, <4>2
      <4> HIDE DEF j
      <4>4. r[j] = x
        BY <2>6, <4>1, <4>3
      <4> QED
        BY <2>7, <4>3, <4>4 DEF ToSet
    <3> QED
      BY <3>1, <3>2
  <2> QED
    BY <2>5, <2>6, <2>8, <2>9
<1> QED
  BY <1>2, <1>3

(* Linking an object puts it at the head of the list.                      *)
LEMMA LinkedFirst ==
  ASSUME NEW inv \in Seq(Objects), IsInjective(inv), NEW e \in Objects, e \notin ToSet(inv)
  PROVE  /\ <<e>> \o inv \in Seq(Objects) /\ IsInjective(<<e>> \o inv)
         /\ ToSet(<<e>> \o inv) = ToSet(inv) \union {e}
<1>1. PICK r : r = <<e>> \o inv
  OBVIOUS
<1>2. DOMAIN inv = 1..Len(inv) /\ Len(inv) \in Nat
  OBVIOUS
<1>3. /\ r \in Seq(Objects) /\ Len(r) = Len(inv) + 1
      /\ r[1] = e /\ \A j \in 2..(Len(inv) + 1) : r[j] = inv[j - 1]
  BY <1>1, <1>2
<1>4. DOMAIN r = 1..(Len(inv) + 1)
  BY <1>3
<1>5. \A j \in 1..Len(inv) : inv[j] # e
  BY <1>2 DEF ToSet
<1>6. IsInjective(r)
  <2> SUFFICES ASSUME NEW m \in 1..(Len(inv) + 1), NEW n \in 1..(Len(inv) + 1), r[m] = r[n]
               PROVE  m = n
    BY <1>4 DEF IsInjective
  <2>1. CASE m = 1 \/ n = 1
    BY <1>2, <1>3, <1>5, <2>1
  <2>2. CASE m # 1 /\ n # 1
    <3>1. m - 1 \in 1..Len(inv) /\ n - 1 \in 1..Len(inv) /\ inv[m - 1] = inv[n - 1]
      BY <1>2, <1>3, <2>2
    <3>2. m - 1 = n - 1
      BY <1>2, <3>1 DEF IsInjective
    <3> QED
      BY <1>2, <3>2
  <2> QED
    BY <2>1, <2>2
<1>7. ToSet(r) = ToSet(inv) \union {e}
  <2>1. ASSUME NEW x \in ToSet(r) PROVE x \in ToSet(inv) \union {e}
    <3>1. PICK j \in 1..(Len(inv) + 1) : x = r[j]
      BY <1>4 DEF ToSet
    <3>2. CASE j = 1
      BY <1>3, <3>1, <3>2
    <3>3. CASE j # 1
      <4>1. j - 1 \in 1..Len(inv) /\ x = inv[j - 1]
        BY <1>2, <1>3, <3>1, <3>3
      <4> QED
        BY <1>2, <4>1 DEF ToSet
    <3> QED
      BY <3>2, <3>3
  <2>2. e \in ToSet(r)
    <3>1. 1 \in DOMAIN r /\ r[1] = e
      BY <1>2, <1>3, <1>4
    <3> QED
      BY <3>1 DEF ToSet
  <2>3. ASSUME NEW x \in ToSet(inv) PROVE x \in ToSet(r)
    <3>1. PICK k \in 1..Len(inv) : x = inv[k]
      BY <1>2 DEF ToSet
    <3>2. k + 1 \in DOMAIN r /\ r[k + 1] = inv[k + 1 - 1] /\ k + 1 - 1 = k
      BY <1>2, <1>3, <1>4
    <3> QED
      BY <3>1, <3>2 DEF ToSet
  <2> QED
    BY <2>1, <2>2, <2>3
<1> QED
  BY <1>1, <1>3, <1>6, <1>7

-----------------------------------------------------------------------------
(* Following pointers.                                                     *)

(* Who starts at an object and follows the pointers comes to an end.       *)
Ends(to) == \A group \in (SUBSET Objects) \ {{}} : \E o \in group : to[o] \notin group

(* Where following the pointers leads, as FirstShadow() and Shadowed() ask *)
(* for it.                                                                 *)
Leads(to, end) == end = [o \in Objects |-> IF to[o] = None THEN o ELSE end[to[o]]]

(* What can be reached from an object, itself included.                    *)
Reached(to, o) ==
  {x \in Objects : \A S \in SUBSET Objects :
     o \in S /\ (\A y \in S : to[y] # None => to[y] \in S) => x \in S}

(* What is reached after one step is all that was reached but the start.   *)
LEMMA ReachedNext ==
  ASSUME NEW to \in [Objects -> Pointers], NEW o \in Objects
  PROVE  /\ to[o] = None => Reached(to, o) = {o}
         /\ to[o] # None => Reached(to, o) = {o} \union Reached(to, to[o])
<1>1. o \in Reached(to, o)
  BY DEF Reached
<1>2. ASSUME to[o] = None PROVE Reached(to, o) = {o}
  <2>1. ASSUME NEW x \in Reached(to, o) PROVE x = o
    <3>1. {o} \in SUBSET Objects /\ o \in {o} /\ \A y \in {o} : to[y] # None => to[y] \in {o}
      BY <1>2
    <3>2. x \in {o}
      BY <3>1 DEF Reached
    <3> QED
      BY <3>2
  <2> QED
    BY <1>1, <2>1
<1>3. ASSUME to[o] # None PROVE Reached(to, o) = {o} \union Reached(to, to[o])
  <2>1. to[o] \in Objects
    BY <1>3 DEF Pointers
  <2>2. ASSUME NEW x \in Reached(to, to[o]) PROVE x \in Reached(to, o)
    <3> SUFFICES ASSUME NEW S \in SUBSET Objects, o \in S, \A y \in S : to[y] # None => to[y] \in S
                 PROVE  x \in S
      BY DEF Reached
    <3>1. to[o] \in S
      BY <1>3
    <3> QED
      BY <3>1 DEF Reached
  <2>3. ASSUME NEW x \in Reached(to, o), x # o PROVE x \in Reached(to, to[o])
    <3> SUFFICES ASSUME NEW S \in SUBSET Objects, to[o] \in S, \A y \in S : to[y] # None => to[y] \in S
                 PROVE  x \in S
      BY DEF Reached
    <3> DEFINE T == S \union {o}
    <3>1. T \in SUBSET Objects /\ o \in T /\ \A y \in T : to[y] # None => to[y] \in T
      OBVIOUS
    <3>2. x \in T
      BY <3>1 DEF Reached
    <3> QED
      BY <2>3, <3>2
  <2> QED
    BY <1>1, <2>2, <2>3
<1> QED
  BY <1>2, <1>3

(* The functions of FirstShadow() and Shadowed() exist.                    *)
LEMMA EndExists ==
  ASSUME NEW to \in [Objects -> Pointers]
  PROVE  \E end : Leads(to, end)
<1> DEFINE stops(o) == {x \in Reached(to, o) : to[x] = None}
           end == [o \in Objects |-> IF to[o] = None THEN o ELSE CHOOSE x : x \in stops(o)]
<1>1. ASSUME NEW o \in Objects PROVE end[o] = IF to[o] = None THEN o ELSE end[to[o]]
  <2>1. CASE to[o] = None
    BY <2>1
  <2>2. CASE to[o] # None
    <3>1. to[o] \in Objects
      BY <2>2 DEF Pointers
    <3>2. stops(o) = stops(to[o])
      BY <2>2, ReachedNext
    <3>3. CASE to[to[o]] = None
      <4>1. Reached(to, to[o]) = {to[o]}
        BY <3>1, <3>3, ReachedNext
      <4>2. stops(to[o]) = {to[o]}
        BY <3>3, <4>1
      <4>3. (CHOOSE x : x \in {to[o]}) = to[o]
        OBVIOUS
      <4>4. end[o] = to[o]
        BY <2>2, <3>2, <4>2, <4>3
      <4>5. end[to[o]] = to[o]
        BY <3>1, <3>3
      <4> QED
        BY <2>2, <4>4, <4>5
    <3>4. CASE to[to[o]] # None
      <4>1. end[to[o]] = CHOOSE x : x \in stops(to[o])
        BY <3>1, <3>4
      <4>2. end[o] = CHOOSE x : x \in stops(o)
        BY <2>2
      <4> QED
        BY <2>2, <3>2, <4>1, <4>2
    <3> QED
      BY <3>3, <3>4
  <2> QED
    BY <2>1, <2>2
<1>2. end = [o \in Objects |-> IF to[o] = None THEN o ELSE end[to[o]]]
  <2> HIDE DEF end
  <2>1. [o \in Objects |-> IF to[o] = None THEN o ELSE end[to[o]]] = [o \in Objects |-> end[o]]
    BY <1>1
  <2>2. end = [o \in Objects |-> end[o]]
    BY DEF end
  <2> QED
    BY <2>1, <2>2
<1> QED
  BY <1>2 DEF Leads

(* They lead to an object that points nowhere.                             *)
LEMMA LeadsToEnd ==
  ASSUME NEW to \in [Objects -> Pointers], Ends(to), NEW end, Leads(to, end)
  PROVE  \A o \in Objects : end[o] \in Objects /\ to[end[o]] = None
<1> DEFINE G == {o \in Objects : ~(end[o] \in Objects /\ to[end[o]] = None)}
<1>1. \A o \in Objects : end[o] = IF to[o] = None THEN o ELSE end[to[o]]
  BY DEF Leads
<1>2. ASSUME G # {} PROVE FALSE
  <2>1. PICK o \in G : to[o] \notin G
    BY <1>2 DEF Ends
  <2>2. CASE to[o] = None
    BY <1>1, <2>1, <2>2
  <2>3. CASE to[o] # None
    <3>1. to[o] \in Objects
      BY <2>3 DEF Pointers
    <3>2. end[o] = end[to[o]]
      BY <1>1, <2>3
    <3> QED
      BY <2>1, <3>1, <3>2
  <2> QED
    BY <2>2, <2>3
<1> QED
  BY <1>2

(* FirstShadow() and Shadowed() follow the pointers of shadows.            *)
LEMMA FollowsShadows ==
  ASSUME shadowing \in [Objects -> Pointers], shadowed \in [Objects -> Pointers]
  PROVE  /\ \E end : Leads(shadowed, end) /\ \A ob : FirstShadow(ob) = end[ob]
         /\ \E end : Leads(shadowing, end) /\ \A ob : Shadowed(ob) = end[ob]
<1> DEFINE up == CHOOSE end : Leads(shadowed, end)
           down == CHOOSE end : Leads(shadowing, end)
<1>1. Leads(shadowed, up)
  <2>1. \E end : Leads(shadowed, end)
    BY EndExists
  <2> QED
    BY <2>1, Zenon
<1>2. Leads(shadowing, down)
  <2>1. \E end : Leads(shadowing, end)
    BY EndExists
  <2> QED
    BY <2>1, Zenon
<1>3. \A ob : FirstShadow(ob) = up[ob]
  BY Zenon DEF FirstShadow, Leads
<1>4. \A ob : Shadowed(ob) = down[ob]
  BY Zenon DEF Shadowed, Leads
<1> QED
  BY <1>1, <1>2, <1>3, <1>4, Zenon

(* Who an object is inside of: the function of Inside() exists.            *)
InsideOf(item, in) == in = [o \in Pointers |-> o # None /\ (o = item \/ in[super[o]])]

LEMMA InsideExists ==
  ASSUME super \in [Objects -> Pointers], NEW item \in Objects
  PROVE  \E in : InsideOf(item, in)
<1> DEFINE closed(S) == item \in S /\ \A p \in Objects : super[p] \in S => p \in S
           in == [o \in Pointers |-> \A S \in SUBSET Objects : closed(S) => o \in S]
<1>1. closed(Objects)
  OBVIOUS
<1>2. ASSUME NEW o \in Pointers PROVE in[o] <=> o # None /\ (o = item \/ in[super[o]])
  <2>1. CASE o = None
    BY <1>1, <2>1, ObjectsAssumption
  <2>2. CASE o # None
    <3>1. o \in Objects /\ super[o] \in Pointers
      BY <2>2 DEF Pointers
    <3>2. o = item => in[o]
      OBVIOUS
    <3>3. ASSUME in[super[o]] PROVE in[o]
      BY <3>1, <3>3
    <3>4. ASSUME in[o], o # item PROVE in[super[o]]
      <4> SUFFICES ASSUME NEW S \in SUBSET Objects, closed(S), super[o] \notin S PROVE FALSE
        BY <3>1
      <4> DEFINE T == S \ {o}
      <4>1. closed(T)
        BY <3>4
      <4>2. o \in T
        BY <3>4, <4>1
      <4> QED
        BY <4>2
    <3> QED
      BY <2>2, <3>2, <3>3, <3>4
  <2> QED
    BY <2>1, <2>2
<1>3. [o \in Pointers |-> o # None /\ (o = item \/ in[super[o]])] = [o \in Pointers |-> in[o]]
  <2> DEFINE right(o) == o # None /\ (o = item \/ in[super[o]])
  <2>1. ASSUME NEW o \in Pointers PROVE right(o) = in[o]
    <3>1. in[o] \in BOOLEAN
      OBVIOUS
    <3>2. in[o] <=> right(o)
      BY <1>2
    <3> HIDE DEF in
    <3>3. right(o) \in BOOLEAN
      OBVIOUS
    <3> HIDE DEF right
    <3> QED
      BY <3>1, <3>2, <3>3
  <2> HIDE DEF right
  <2>2. [o \in Pointers |-> right(o)] = [o \in Pointers |-> in[o]]
    BY <2>1
  <2> QED
    BY <2>2 DEF right
<1>4. in = [o \in Pointers |-> in[o]]
  OBVIOUS
<1> HIDE DEF in
<1> QED
  BY <1>3, <1>4 DEF InsideOf

(* An object that is not inside the item is in a place whose environments  *)
(* do not include the item.                                                *)
LEMMA NotInside ==
  ASSUME super \in [Objects -> Pointers], NEW item \in Objects, NEW dest \in Objects, ~Inside(dest, item)
  PROVE  \E out \in SUBSET Objects :
           dest \in out /\ item \notin out /\ \A o \in out : super[o] # None => super[o] \in out
<1> DEFINE in == CHOOSE f : InsideOf(item, f)
<1>1. InsideOf(item, in)
  <2>1. \E f : InsideOf(item, f)
    BY InsideExists
  <2> QED
    BY <2>1, Zenon
<1>2. Inside(dest, item) = in[dest]
  BY Zenon DEF Inside, InsideOf
<1> HIDE DEF in
<1>3. \A o \in Pointers : in[o] = (o # None /\ (o = item \/ in[super[o]]))
  BY <1>1 DEF InsideOf
<1> DEFINE out == {o \in Objects : ~in[o]}
<1>4. dest \in out
  BY <1>2
<1>5. item \notin out
  BY <1>3, ObjectsAssumption DEF Pointers
<1>6. ASSUME NEW o \in out, super[o] # None PROVE super[o] \in out
  BY <1>3, <1>6, ObjectsAssumption DEF Pointers
<1> QED
  BY <1>4, <1>5, <1>6

-----------------------------------------------------------------------------
(* The calls under way.                                                    *)

(* A frame that waits for a function called in an object knows the object; *)
(* nobody shadows itself.                                                  *)
KnowsWhom(f) ==
  /\ f.at = "move" => f.next \in Objects
  /\ f.at = "call" => f.ob \in Objects
  /\ f.fn = "shadow" => f.me # f.ob
Calls == {f \in Frames : KnowsWhom(f)}

(* The objects being destructed by the calls of a stack.                   *)
LeavingOf(calls) == {calls[i].ob : i \in {j \in DOMAIN calls : calls[j].fn = "destruct"}}

(* A call more: it may be that of another object being destructed.         *)
LEMMA CallAdded ==
  ASSUME NEW calls \in Seq(Calls), NEW f \in Calls
  PROVE  /\ Append(calls, f) \in Seq(Calls)
         /\ \A o \in LeavingOf(Append(calls, f)) : o \in LeavingOf(calls) \/ (f.fn = "destruct" /\ o = f.ob)
<1>1. PICK more : more = Append(calls, f)
  OBVIOUS
<1>2. /\ more \in Seq(Calls) /\ Len(more) = Len(calls) + 1 /\ more[Len(calls) + 1] = f
      /\ \A i \in 1..Len(calls) : more[i] = calls[i]
  BY <1>1
<1>3. DOMAIN calls = 1..Len(calls) /\ DOMAIN more = 1..(Len(calls) + 1) /\ Len(calls) \in Nat
  BY <1>2
<1>4. ASSUME NEW o \in LeavingOf(more) PROVE o \in LeavingOf(calls) \/ (f.fn = "destruct" /\ o = f.ob)
  <2>1. PICK i \in 1..(Len(calls) + 1) : more[i].fn = "destruct" /\ o = more[i].ob
    BY <1>3 DEF LeavingOf
  <2>2. CASE i = Len(calls) + 1
    BY <1>2, <2>1, <2>2
  <2>3. CASE i # Len(calls) + 1
    <3>1. i \in DOMAIN calls /\ calls[i].fn = "destruct" /\ o = calls[i].ob
      BY <1>2, <1>3, <2>1, <2>3
    <3> QED
      BY <3>1 DEF LeavingOf
  <2> QED
    BY <2>2, <2>3
<1> QED
  BY <1>1, <1>2, <1>4

(* Returns and errors end calls.                                           *)
LEMMA CallsCut ==
  ASSUME NEW calls \in Seq(Calls), NEW k \in 0..Len(calls)
  PROVE  SubSeq(calls, 1, k) \in Seq(Calls) /\ LeavingOf(SubSeq(calls, 1, k)) \subseteq LeavingOf(calls)
<1>1. PICK less : less = SubSeq(calls, 1, k)
  OBVIOUS
<1>2. less \in Seq(Calls) /\ Len(less) = k /\ \A i \in 1..k : less[i] = calls[i]
  BY <1>1, SubSeqProperties
<1>3. DOMAIN calls = 1..Len(calls) /\ DOMAIN less = 1..k /\ Len(calls) \in Nat
  BY <1>2
<1>4. ASSUME NEW o \in LeavingOf(less) PROVE o \in LeavingOf(calls)
  <2>1. PICK i \in 1..k : less[i].fn = "destruct" /\ o = less[i].ob
    BY <1>3 DEF LeavingOf
  <2>2. i \in DOMAIN calls /\ calls[i].fn = "destruct" /\ o = calls[i].ob
    BY <1>2, <1>3, <2>1
  <2> QED
    BY <2>2 DEF LeavingOf
<1> QED
  BY <1>1, <1>2, <1>4

(* The call on top goes on; it destructs the same object if any.           *)
LEMMA CallGoesOn ==
  ASSUME NEW calls \in Seq(Calls), calls # <<>>, NEW f \in Calls,
         f.fn = "destruct" => calls[Len(calls)].fn = "destruct" /\ f.ob = calls[Len(calls)].ob
  PROVE  /\ [calls EXCEPT ![Len(calls)] = f] \in Seq(Calls)
         /\ LeavingOf([calls EXCEPT ![Len(calls)] = f]) \subseteq LeavingOf(calls)
<1> DEFINE n == Len(calls)
<1>1. PICK now : now = [calls EXCEPT ![n] = f]
  OBVIOUS
<1>2. n \in Nat /\ n \in 1..n /\ DOMAIN calls = 1..n /\ calls \in [1..n -> Calls]
  OBVIOUS
<1> HIDE DEF n
<1>3. DOMAIN now = 1..n /\ \A i \in 1..n : now[i] = IF i = n THEN f ELSE calls[i]
  BY <1>1, <1>2
<1>4. now \in [1..n -> Calls]
  BY <1>1, <1>2
<1>5. now \in Seq(Calls)
  BY <1>2, <1>4
<1>6. ASSUME NEW o \in LeavingOf(now) PROVE o \in LeavingOf(calls)
  <2>1. PICK i \in 1..n : now[i].fn = "destruct" /\ o = now[i].ob
    BY <1>3 DEF LeavingOf
  <2>2. i \in DOMAIN calls /\ calls[i].fn = "destruct" /\ o = calls[i].ob
    BY <1>2, <1>3, <2>1 DEF n
  <2> QED
    BY <2>2 DEF LeavingOf
<1> QED
  BY <1>1, <1>5, <1>6 DEF n

(* The frame on top, kind by kind.                                         *)
LEMMA TopIs ==
  ASSUME stack \in Seq(Calls), stack # <<>>
  PROVE  /\ Len(stack) \in Nat \ {0} /\ Top \in Calls /\ Top \in Frames /\ KnowsWhom(Top)
         /\ Top.fn = "move" => Top \in MoveFrames
         /\ Top.fn = "destruct" => Top \in DestructFrames
         /\ Top.fn = "chain" => Top \in ChainFrames
         /\ Top.fn \in {"say", "tell_room", "present"} => Top \in VisitFrames
         /\ Top.fn = "shadow" => Top \in ShadowFrames
<1>1. Len(stack) \in Nat \ {0} /\ Top \in Calls
  BY DEF Top
<1>2. Top \in Frames /\ KnowsWhom(Top)
  BY <1>1 DEF Calls
<1>3. /\ \A f \in MoveFrames : f.fn = "move"
      /\ \A f \in DestructFrames : f.fn = "destruct"
      /\ \A f \in ChainFrames : f.fn = "chain"
      /\ \A f \in VisitFrames : f.fn \in {"say", "tell_room", "present"}
      /\ \A f \in ShadowFrames : f.fn = "shadow"
  BY DEF MoveFrames, DestructFrames, ChainFrames, VisitFrames, ShadowFrames
<1> QED
  BY <1>1, <1>2, <1>3 DEF Frames
-----------------------------------------------------------------------------
(* The inductive invariant.                                                *)

Typed ==
  /\ super \in [Objects -> Pointers] /\ contains \in [Objects -> Seq(Objects)]
  /\ shadowing \in [Objects -> Pointers] /\ shadowed \in [Objects -> Pointers]
  /\ living \subseteq Objects /\ destructed \subseteq Objects /\ irregular \subseteq Objects
  /\ sent \subseteq Objects \X Objects
  /\ restrict_destruct \in Pointers
  /\ stack \in Seq(Calls)

(* An object being destructed has left its chain of shadows, and none came *)
(* to it since; a chain has a first shadow.                                *)
ChainsSound ==
  /\ ShadowsSound
  /\ Ends(shadowed)
  /\ \A o \in LeavingOf(stack) : shadowing[o] = None /\ shadowed[o] = None

(* Who was given a sentence in the regular way is living and somewhere as  *)
(* long as it exists; no destructed object is living.                      *)
Regular ==
  /\ living \cap destructed = {}
  /\ \A user, ob \in Objects :
       <<user, ob>> \in sent /\ user \notin irregular \union destructed => user \in living /\ super[user] # None

ObjectsInv == Typed /\ TreeSound /\ ChainsSound /\ Regular /\ SentencesNear

-----------------------------------------------------------------------------
(* Steps that only move the calls on.                                      *)

(* The calls after a step, of which none destructs another object.         *)
NoneLeaves == stack' \in Seq(Calls) /\ LeavingOf(stack') \subseteq LeavingOf(stack)

(* Moving the calls on keeps the invariant.                                *)
LEMMA CallsMoveOn ==
  ASSUME ObjectsInv, UNCHANGED <<places, shadows, actions, destructed>>, NoneLeaves,
         restrict_destruct' \in Pointers
  PROVE  ObjectsInv'
<1> USE DEF places, shadows, actions
<1>1. Typed'
  BY DEF ObjectsInv, Typed, NoneLeaves
<1>2. TreeSound'
  BY DEF ObjectsInv, TreeSound
<1>3. ChainsSound'
  <2>1. ShadowsSound'
    BY DEF ObjectsInv, ChainsSound, ShadowsSound
  <2>2. Ends(shadowed)'
    BY DEF ObjectsInv, ChainsSound, Ends
  <2>3. \A o \in LeavingOf(stack') : shadowing'[o] = None /\ shadowed'[o] = None
    BY DEF ObjectsInv, ChainsSound, NoneLeaves
  <2> QED
    BY <2>1, <2>2, <2>3 DEF ChainsSound, LeavingOf
<1>4. Regular'
  BY DEF ObjectsInv, Regular
<1>5. SentencesNear'
  BY DEF ObjectsInv, SentencesNear, Near
<1> QED
  BY <1>1, <1>2, <1>3, <1>4, <1>5 DEF ObjectsInv

(* The kinds of calls.                                                     *)
LEMMA KindsOfCalls ==
  /\ \A f \in MoveFrames : f \in Calls /\ f.fn # "destruct"
  /\ \A f \in ChainFrames : f \in Calls /\ f.fn # "destruct"
  /\ \A f \in VisitFrames : (f.at = "call" => f.ob \in Objects) => f \in Calls /\ f.fn # "destruct"
  /\ \A f \in DestructFrames : (f.at = "move" => f.next \in Objects) => f \in Calls
  /\ \A f \in ShadowFrames : f.me # f.ob => f \in Calls /\ f.fn # "destruct"
<1>1. \A f \in MoveFrames : f.fn = "move" /\ f.at \notin {"move", "call"}
  BY DEF MoveFrames
<1>2. \A f \in ChainFrames : f.fn = "chain" /\ f.at = "loop"
  BY DEF ChainFrames
<1>3. \A f \in VisitFrames : f.fn \in {"say", "tell_room", "present"} /\ f.at # "move"
  BY DEF VisitFrames
<1>4. \A f \in DestructFrames : f.fn = "destruct" /\ f.at # "call"
  BY DEF DestructFrames
<1>5. \A f \in ShadowFrames : f.fn = "shadow" /\ f.at = "call" /\ f.ob \in Objects
  BY DEF ShadowFrames
<1> QED
  BY <1>1, <1>2, <1>3, <1>4, <1>5 DEF Calls, Frames, KnowsWhom

(* The call on top goes on as another one that destructs nothing.          *)
LEMMA Becomes ==
  ASSUME stack \in Seq(Calls), stack # <<>>, NEW f \in Calls, f.fn # "destruct", Become(f)
  PROVE  NoneLeaves
BY CallGoesOn DEF Become, NoneLeaves

(* The call on top returns.                                                *)
LEMMA Returns ==
  ASSUME stack \in Seq(Calls), stack # <<>>, Return
  PROVE  NoneLeaves
<1>1. Len(stack) - 1 \in 0..Len(stack)
  OBVIOUS
<1> QED
  BY <1>1, CallsCut DEF Return, Front, NoneLeaves

(* A call begins that destructs nothing.                                   *)
LEMMA Begins ==
  ASSUME stack \in Seq(Calls), NEW f \in Calls, f.fn # "destruct", Push(f)
  PROVE  NoneLeaves
BY CallAdded DEF Push, NoneLeaves

(* An error ends the calls above a catch(), and the restriction.           *)
LEMMA Unwinds ==
  ASSUME NEW calls \in Seq(Calls), LeavingOf(calls) \subseteq LeavingOf(stack), Unwind(calls)
  PROVE  NoneLeaves /\ restrict_destruct' \in Pointers
<1>1. PICK k \in 0..Len(calls) : stack' = SubSeq(calls, 1, k)
  BY DEF Unwind
<1>2. NoneLeaves
  BY <1>1, CallsCut DEF NoneLeaves
<1> QED
  BY <1>2 DEF Unwind, Pointers

(* Errors keep the invariant.                                              *)
LEMMA ErrorStep ==
  ASSUME ObjectsInv, error_handler
  PROVE  ObjectsInv'
<1>1. Unwind(stack) /\ UNCHANGED <<places, shadows, actions, destructed>> /\ stack \in Seq(Calls)
  BY DEF error_handler, ObjectsInv, Typed
<1> QED
  BY <1>1, Unwinds, CallsMoveOn

(* A step that moves the calls on and nothing else.                        *)
LEMMA OnlyCalls ==
  ASSUME ObjectsInv, StackOnly, NoneLeaves
  PROVE  ObjectsInv'
BY CallsMoveOn DEF StackOnly, ObjectsInv, Typed

(* The pointers read ahead are objects or null.                            *)
LEMMA ReadAhead ==
  ASSUME ObjectsInv
  PROVE  /\ \A ob \in Objects : NextInv(ob) \in Pointers
         /\ \A ob \in Objects : FirstInv(contains[ob]) \in Pointers
<1>1. ASSUME NEW ob \in Objects PROVE FirstInv(contains[ob]) \in Pointers
  BY DEF ObjectsInv, Typed, FirstInv, Pointers
<1>2. ASSUME NEW ob \in Objects PROVE NextInv(ob) \in Pointers
  <2>1. CASE super[ob] = None
    BY <2>1 DEF NextInv, Pointers
  <2>2. CASE super[ob] # None
    <3> DEFINE inv == contains[super[ob]]
               i == CHOOSE j \in 1..Len(inv) : inv[j] = ob
    <3>1. super[ob] \in Objects
      BY <2>2 DEF ObjectsInv, Typed, Pointers
    <3>2. inv \in Seq(Objects) /\ ob \in ToSet(inv)
      BY <3>1 DEF ObjectsInv, Typed, TreeSound
    <3>3. \E j \in 1..Len(inv) : inv[j] = ob
      BY <3>2 DEF ToSet
    <3>4. i \in 1..Len(inv)
      <4> HIDE DEF inv
      <4> QED
        BY <3>3
    <3>5. i # Len(inv) => inv[i + 1] \in Objects
      <4> HIDE DEF i, inv
      <4> QED
        BY <3>2, <3>4
    <3>6. NextInv(ob) = IF i = Len(inv) THEN None ELSE inv[i + 1]
      BY <2>2 DEF NextInv
    <3> QED
      BY <3>5, <3>6 DEF Pointers
  <2> QED
    BY <2>1, <2>2
<1> QED
  BY <1>1, <1>2

(* The walk of move_object().                                              *)
LEMMA WalkStep ==
  ASSUME ObjectsInv,
         RoomInitReturns \/ UserInitReturns \/ OtherInitReturns \/ DestInitReturns \/ MoveLoop \/ MoveEnds
  PROVE  ObjectsInv'
<1>1. stack \in Seq(Calls) /\ super \in [Objects -> Pointers]
  BY DEF ObjectsInv, Typed
<1>2. ASSUME stack # <<>>, Top.fn = "move"
      PROVE  /\ Top \in MoveFrames /\ Top.item \in Objects /\ Top.dest \in Objects
             /\ Top.ob \in Pointers /\ Top.next \in Pointers
  <2>1. Top \in MoveFrames
    BY <1>1, <1>2, TopIs
  <2> QED
    BY <2>1 DEF MoveFrames
<1>3. ASSUME NEW f \in MoveFrames, stack # <<>>, Become(f), StackOnly PROVE ObjectsInv'
  BY <1>1, <1>3, KindsOfCalls, Becomes, OnlyCalls
<1>4. ASSUME stack # <<>>, Return, StackOnly PROVE ObjectsInv'
  BY <1>1, <1>4, Returns, OnlyCalls
<1>5. CASE RoomInitReturns
  <2>1. stack # <<>> /\ Top.fn = "move" /\ StackOnly
    BY <1>5 DEF RoomInitReturns, Moving
  <2>2. CASE Return
    BY <1>4, <2>1, <2>2
  <2>3. CASE Become([Top EXCEPT !.at = "loop", !.ob = FirstInv(contains[Top.dest])])
    <3>1. FirstInv(contains[Top.dest]) \in Pointers
      BY <1>2, <2>1, ReadAhead
    <3>2. [Top EXCEPT !.at = "loop", !.ob = FirstInv(contains[Top.dest])] \in MoveFrames
      BY <1>2, <2>1, <3>1 DEF MoveFrames
    <3> QED
      BY <1>3, <2>1, <2>3, <3>2
  <2> QED
    BY <1>5, <2>2, <2>3 DEF RoomInitReturns
<1>6. CASE UserInitReturns
  <2>1. stack # <<>> /\ Top.fn = "move" /\ StackOnly
    BY <1>6 DEF UserInitReturns, Moving
  <2>2. [Top EXCEPT !.at = "other"] \in MoveFrames /\ [Top EXCEPT !.at = "loop", !.ob = Top.next] \in MoveFrames
    BY <1>2, <2>1 DEF MoveFrames
  <2>3. Return \/ Become([Top EXCEPT !.at = "other"]) \/ Become([Top EXCEPT !.at = "loop", !.ob = Top.next])
    BY <1>6 DEF UserInitReturns
  <2> QED
    BY <1>3, <1>4, <2>1, <2>2, <2>3
<1>7. CASE OtherInitReturns
  <2>1. stack # <<>> /\ Top.fn = "move" /\ StackOnly
    BY <1>7 DEF OtherInitReturns, Moving
  <2>2. [Top EXCEPT !.at = "loop", !.ob = Top.next] \in MoveFrames
    BY <1>2, <2>1 DEF MoveFrames
  <2>3. Return \/ Become([Top EXCEPT !.at = "loop", !.ob = Top.next])
    BY <1>7 DEF OtherInitReturns
  <2> QED
    BY <1>3, <1>4, <2>1, <2>2, <2>3
<1>8. CASE DestInitReturns
  BY <1>4, <1>8 DEF DestInitReturns, Moving
<1>9. CASE MoveLoop
  <2> DEFINE step == [Top EXCEPT !.next = NextInv(Top.ob)]
  <2>1. stack # <<>> /\ Top.fn = "move" /\ Top.ob # None
    BY <1>9 DEF MoveLoop, Moving
  <2>2. NextInv(Top.ob) \in Pointers
    BY <1>2, <2>1, ReadAhead DEF Pointers
  <2>3. /\ step.next = NextInv(Top.ob) /\ step \in MoveFrames
        /\ [step EXCEPT !.ob = step.next] \in MoveFrames
        /\ [step EXCEPT !.at = "user"] \in MoveFrames /\ [step EXCEPT !.at = "other"] \in MoveFrames
    BY <1>2, <2>1, <2>2 DEF MoveFrames
  <2>4. \/ error_handler
        \/ /\ StackOnly
           /\ \/ Become([step EXCEPT !.ob = step.next])
              \/ Become([step EXCEPT !.at = "user"])
              \/ Become([step EXCEPT !.at = "other"])
    BY <1>9 DEF MoveLoop
  <2> HIDE DEF step
  <2> QED
    BY <1>3, <2>1, <2>3, <2>4, ErrorStep
<1>10. CASE MoveEnds
  <2>1. stack # <<>> /\ Top.fn = "move"
    BY <1>10 DEF MoveEnds, Moving
  <2>2. [Top EXCEPT !.at = "dest"] \in MoveFrames
    BY <1>2, <2>1 DEF MoveFrames
  <2>3. error_handler \/ (StackOnly /\ (Return \/ Become([Top EXCEPT !.at = "dest"])))
    BY <1>10 DEF MoveEnds
  <2> QED
    BY <1>3, <1>4, <2>1, <2>2, <2>3, ErrorStep
<1> QED
  BY <1>5, <1>6, <1>7, <1>8, <1>9, <1>10

(* A visit of say(), tell_room() or present(), which knows whom it called. *)
Visits == {f \in VisitFrames : f.at = "call" => f.ob \in Objects}

(* A visit begins well.                                                    *)
LEMMA VisitTyped ==
  ASSUME ObjectsInv, NEW kind \in {"say", "tell_room", "present"}, NEW origin \in Objects,
         NEW part \in {"super", "beside", "inside"}, part # "inside" => super[origin] # None
  PROVE  Visit(kind, origin, part) \in Visits
<1>1. super[origin] \in Pointers /\ (part # "inside" => super[origin] \in Objects)
  BY DEF ObjectsInv, Typed, Pointers
<1>2. /\ FirstInv(contains[origin]) \in Pointers
      /\ part # "inside" => FirstInv(contains[super[origin]]) \in Pointers
  BY <1>1, ReadAhead
<1>3. CASE part = "super"
  BY <1>1, <1>3 DEF Visit, VisitFrames, Visits
<1>4. CASE part = "beside"
  BY <1>2, <1>4 DEF Visit, VisitFrames, Visits
<1>5. CASE part = "inside"
  BY <1>2, <1>5 DEF Visit, VisitFrames, Visits
<1> QED
  BY <1>3, <1>4, <1>5

(* say(), tell_room() and present() keep the invariant.                    *)
LEMMA VisitStep ==
  ASSUME ObjectsInv,
         \/ \E ob \in Objects : say(ob) \/ tell_room(ob) \/ object_present(ob)
         \/ VisitLoop \/ SuperReturns \/ VisitReturns
  PROVE  ObjectsInv'
<1>1. stack \in Seq(Calls) /\ super \in [Objects -> Pointers]
  BY DEF ObjectsInv, Typed
<1>2. ASSUME stack # <<>>, Top.fn \in {"say", "tell_room", "present"}
      PROVE  /\ Top \in VisitFrames /\ Top.origin \in Objects /\ Top.ob \in Pointers
             /\ Top.at = "call" => Top.ob \in Objects
  <2>1. Top \in VisitFrames /\ KnowsWhom(Top)
    BY <1>1, <1>2, TopIs
  <2> QED
    BY <2>1 DEF VisitFrames, KnowsWhom
<1>3. ASSUME NEW f \in Visits, stack # <<>>, Become(f), StackOnly PROVE ObjectsInv'
  BY <1>1, <1>3, KindsOfCalls, Becomes, OnlyCalls DEF Visits
<1>4. ASSUME stack # <<>>, Return, StackOnly PROVE ObjectsInv'
  BY <1>1, <1>4, Returns, OnlyCalls
<1>5. ASSUME NEW f \in Visits, Push(f), StackOnly PROVE ObjectsInv'
  BY <1>1, <1>5, KindsOfCalls, Begins, OnlyCalls DEF Visits
<1>6. ASSUME NEW ob \in Objects, say(ob) \/ tell_room(ob) \/ object_present(ob) PROVE ObjectsInv'
  <2>1. /\ Visit("tell_room", ob, "inside") \in Visits
        /\ Visit("present", ob, "inside") \in Visits
        /\ Visit("say", ob, IF super[ob] = None THEN "inside" ELSE "super") \in Visits
    BY VisitTyped
  <2>2. /\ StackOnly
        /\ \/ Push(Visit("tell_room", ob, "inside"))
           \/ Push(Visit("present", ob, "inside"))
           \/ Push(Visit("say", ob, IF super[ob] = None THEN "inside" ELSE "super"))
    BY <1>6 DEF say, tell_room, object_present
  <2> QED
    BY <1>5, <2>1, <2>2
<1>7. ASSUME stack # <<>>, Top.fn \in {"say", "tell_room", "present"}, PartEnds, StackOnly PROVE ObjectsInv'
  <2>1. CASE Become(Visit("say", Top.origin, "inside"))
    BY <1>2, <1>3, <1>7, <2>1, VisitTyped
  <2>2. CASE super[Top.origin] # None /\ Become(Visit("present", Top.origin, "super"))
    BY <1>2, <1>3, <1>7, <2>2, VisitTyped
  <2>3. CASE Return
    BY <1>4, <1>7, <2>3
  <2> QED
    BY <1>7, <2>1, <2>2, <2>3 DEF PartEnds
<1>8. ASSUME stack # <<>>, Top.fn \in {"say", "tell_room", "present"}, Top.ob # None
      PROVE  /\ NextInv(Top.ob) \in Pointers
             /\ Top.at = "loop" => [Top EXCEPT !.ob = NextInv(Top.ob)] \in Visits
             /\ [Top EXCEPT !.ob = NextInv(Top.ob), !.at = "loop"] \in Visits
             /\ [Top EXCEPT !.at = "call"] \in Visits
  <2>1. NextInv(Top.ob) \in Pointers
    BY <1>2, <1>8, ReadAhead DEF Pointers
  <2> QED
    BY <1>2, <1>8, <2>1, ObjectsAssumption DEF VisitFrames, Visits, Pointers
<1>9. CASE VisitLoop
  <2>1. stack # <<>> /\ Top.fn \in {"say", "tell_room", "present"} /\ Top.at = "loop" /\ StackOnly
    BY <1>9 DEF VisitLoop, Visiting
  <2>2. CASE Top.ob = None
    BY <1>7, <1>9, <2>1, <2>2 DEF VisitLoop
  <2>3. CASE Top.ob # None
    <3>1. Become([Top EXCEPT !.ob = NextInv(Top.ob)]) \/ Become([Top EXCEPT !.at = "call"])
      BY <1>9, <2>3 DEF VisitLoop
    <3> QED
      BY <1>3, <1>8, <2>1, <2>3, <3>1
  <2> QED
    BY <2>2, <2>3
<1>10. CASE SuperReturns
  <2>1. /\ stack # <<>> /\ Top.fn \in {"say", "tell_room", "present"} /\ StackOnly
        /\ super[Top.origin] # None
        /\ Become(Visit(Top.fn, Top.origin, "beside")) \/ Return
    BY <1>10 DEF SuperReturns, Visiting
  <2>2. Visit(Top.fn, Top.origin, "beside") \in Visits
    BY <1>2, <2>1, VisitTyped
  <2> QED
    BY <1>3, <1>4, <2>1, <2>2
<1>11. CASE VisitReturns
  <2>1. stack # <<>> /\ Top.fn \in {"say", "tell_room", "present"} /\ Top.at = "call" /\ StackOnly
    BY <1>11 DEF VisitReturns, Visiting
  <2>2. CASE PartEnds
    BY <1>7, <2>1, <2>2
  <2>3. CASE Return
    BY <1>4, <2>1, <2>3
  <2>4. CASE Become([Top EXCEPT !.ob = NextInv(Top.ob), !.at = "loop"])
    BY <1>2, <1>3, <1>8, <2>1, <2>4, ObjectsAssumption
  <2> QED
    BY <1>11, <2>2, <2>3, <2>4 DEF VisitReturns
<1> QED
  BY <1>6, <1>9, <1>10, <1>11

-----------------------------------------------------------------------------
(* Commands and shadows.                                                   *)

(* The steps that leave trees, shadows and calls alone.                    *)
LEMMA SentencesOnly ==
  ASSUME ObjectsInv, UNCHANGED <<places, shadows, destructed, restrict_destruct, stack>>,
         living' \subseteq Objects, irregular' \subseteq Objects, sent' \subseteq Objects \X Objects,
         Regular', SentencesNear'
  PROVE  ObjectsInv'
<1> USE DEF places, shadows
<1>1. Typed'
  BY DEF ObjectsInv, Typed
<1>2. TreeSound'
  BY DEF ObjectsInv, TreeSound
<1>3. ChainsSound'
  <2>1. ShadowsSound'
    BY DEF ObjectsInv, ChainsSound, ShadowsSound
  <2>2. Ends(shadowed)'
    BY DEF ObjectsInv, ChainsSound, Ends
  <2>3. \A o \in LeavingOf(stack') : shadowing'[o] = None /\ shadowed'[o] = None
    BY DEF ObjectsInv, ChainsSound
  <2> QED
    BY <2>1, <2>2, <2>3 DEF ChainsSound, LeavingOf
<1> QED
  BY <1>1, <1>2, <1>3 DEF ObjectsInv

(* An object seen through its shadows is one that exists.                  *)
LEMMA SeemsToBe ==
  ASSUME ObjectsInv, NEW ob \in Alive
  PROVE  Shadowed(ob) \in Alive
<1>1. shadowing \in [Objects -> Pointers] /\ shadowed \in [Objects -> Pointers] /\ ob \in Objects
  BY DEF ObjectsInv, Typed, Alive
<1>2. PICK end : Leads(shadowing, end) /\ \A o : Shadowed(o) = end[o]
  BY <1>1, FollowsShadows
<1>3. Ends(shadowing)
  BY DEF ObjectsInv, ChainsSound, ShadowsSound, Ends
<1>4. \A o \in Objects : end[o] \in Objects
  BY <1>1, <1>2, <1>3, LeadsToEnd
<1> DEFINE G == {o \in Alive : end[o] \in destructed}
<1>5. ASSUME G # {} PROVE FALSE
  <2>1. G \in (SUBSET Objects) \ {{}}
    BY <1>5 DEF Alive
  <2>2. PICK o \in G : shadowing[o] \notin G
    BY <1>3, <2>1 DEF Ends
  <2>3. o \in Objects /\ o \notin destructed /\ end[o] \in destructed
    BY <2>2 DEF Alive
  <2>4. end[o] = IF shadowing[o] = None THEN o ELSE end[shadowing[o]]
    BY <1>2, <2>3 DEF Leads
  <2>5. shadowing[o] # None
    BY <2>3, <2>4
  <2>6. shadowing[o] \in Objects /\ shadowing[o] \notin destructed
    BY <1>1, <2>3, <2>5 DEF Pointers, ObjectsInv, ChainsSound, ShadowsSound
  <2> QED
    BY <2>2, <2>3, <2>4, <2>5, <2>6 DEF Alive
<1> QED
  BY <1>1, <1>2, <1>4, <1>5 DEF Alive

(* enable_commands(), disable_commands() and add_action() keep the         *)
(* invariant.                                                              *)
LEMMA CommandStep ==
  ASSUME ObjectsInv,
         \/ \E being \in Objects : enable_commands(being) \/ disable_commands(being)
         \/ \E ob \in Objects, being \in Objects : add_action(ob, being)
  PROVE  ObjectsInv'
<1>1. /\ living \subseteq Objects /\ irregular \subseteq Objects /\ sent \subseteq Objects \X Objects
      /\ Regular /\ SentencesNear
  BY DEF ObjectsInv, Typed
<1>2. ASSUME NEW ob \in Objects, enable_commands(ob) PROVE ObjectsInv'
  <2>1. /\ UNCHANGED <<places, shadows, destructed, restrict_destruct, stack>>
        /\ ob \notin destructed /\ living' = living \union {ob}
        /\ sent' = sent /\ irregular' = irregular /\ super' = super
    BY <1>2 DEF enable_commands, Alive, places
  <2>2. Regular'
    BY <1>1, <2>1 DEF Regular
  <2>3. SentencesNear'
    BY <1>1, <2>1 DEF SentencesNear, Regular, Near
  <2> QED
    BY <1>1, <2>1, <2>2, <2>3, SentencesOnly
<1>3. ASSUME NEW ob \in Objects, disable_commands(ob) PROVE ObjectsInv'
  <2>1. /\ UNCHANGED <<places, shadows, destructed, restrict_destruct, stack>>
        /\ living' = living \ {ob} /\ irregular' = irregular \union {ob}
        /\ sent' \subseteq sent /\ super' = super
    BY <1>3 DEF disable_commands, places
  <2>2. Regular'
    BY <1>1, <2>1 DEF Regular
  <2>3. SentencesNear'
    BY <1>1, <2>1 DEF SentencesNear, Near
  <2> QED
    BY <1>1, <2>1, <2>2, <2>3, SentencesOnly
<1>4. ASSUME NEW ob \in Objects, NEW user \in Objects, add_action(ob, user) PROVE ObjectsInv'
  <2>1. /\ UNCHANGED <<places, shadows, destructed, restrict_destruct, stack>>
        /\ living' = living /\ super' = super /\ ob \in Alive
        /\ sent' = sent \union {<<user, Shadowed(ob)>>} /\ Near(Shadowed(ob), user)
        /\ irregular' \in {irregular, irregular \union {user}}
        /\ ~(user \in living /\ super[user] # None) => user \in irregular'
    BY <1>4 DEF add_action, places
  <2>2. PICK me : me = Shadowed(ob)
    OBVIOUS
  <2>3. me \in Objects /\ me \notin destructed
    BY <2>1, <2>2, SeemsToBe DEF Alive
  <2>4. Regular'
    BY <1>1, <2>1, <2>2 DEF Regular
  <2>5. SentencesNear'
    BY <1>1, <2>1, <2>2, <2>3 DEF SentencesNear, Near
  <2> QED
    BY <1>1, <2>1, <2>2, <2>3, <2>4, <2>5, SentencesOnly
<1> QED
  BY <1>2, <1>3, <1>4

(* The first shadow of an object that exists: it exists, nothing shadows   *)
(* it, and unless it is the object itself it shadows another one.          *)
LEMMA FirstOfChain ==
  ASSUME ObjectsInv, NEW ob \in Alive
  PROVE  /\ FirstShadow(ob) \in Alive /\ shadowed[FirstShadow(ob)] = None
         /\ FirstShadow(ob) # ob => shadowing[FirstShadow(ob)] # None
<1>1. shadowing \in [Objects -> Pointers] /\ shadowed \in [Objects -> Pointers] /\ ob \in Objects
  BY DEF ObjectsInv, Typed, Alive
<1>2. PICK end : Leads(shadowed, end) /\ \A o : FirstShadow(o) = end[o]
  BY <1>1, FollowsShadows
<1>3. Ends(shadowed)
  BY DEF ObjectsInv, ChainsSound
<1>4. \A o \in Objects : end[o] \in Objects /\ shadowed[end[o]] = None
  BY <1>1, <1>2, <1>3, LeadsToEnd
<1> DEFINE G == {o \in Objects : end[o] # o /\ \A x \in Objects : shadowed[x] # end[o]}
<1>5. ASSUME G # {} PROVE FALSE
  <2>1. G \in (SUBSET Objects) \ {{}}
    BY <1>5
  <2>2. PICK o \in G : shadowed[o] \notin G
    BY <1>3, <2>1 DEF Ends
  <2>3. o \in Objects /\ end[o] # o /\ \A x \in Objects : shadowed[x] # end[o]
    BY <2>2
  <2>4. end[o] = IF shadowed[o] = None THEN o ELSE end[shadowed[o]]
    BY <1>2, <2>3 DEF Leads
  <2>5. shadowed[o] \in Objects /\ end[o] = end[shadowed[o]]
    BY <1>1, <2>3, <2>4 DEF Pointers
  <2>6. end[shadowed[o]] # shadowed[o]
    BY <2>3, <2>5
  <2> QED
    BY <2>2, <2>3, <2>5, <2>6
<1>6. ASSUME end[ob] # ob PROVE end[ob] \notin destructed /\ shadowing[end[ob]] # None
  <2>1. PICK x \in Objects : shadowed[x] = end[ob]
    BY <1>1, <1>5, <1>6
  <2>2. shadowed[x] # None /\ x # None
    BY <1>1, <1>4, <2>1, ObjectsAssumption
  <2>3. shadowing[shadowed[x]] = x /\ shadowed[x] \notin destructed
    BY <2>2 DEF ObjectsInv, ChainsSound, ShadowsSound
  <2> QED
    BY <2>1, <2>2, <2>3
<1>7. ob \notin destructed
  BY DEF Alive
<1> QED
  BY <1>1, <1>2, <1>4, <1>6, <1>7 DEF Alive

(* The steps that change shadows and calls, and nothing else.              *)
LEMMA ShadowsOnly ==
  ASSUME ObjectsInv, UNCHANGED <<places, actions, destructed>>,
         restrict_destruct' \in Pointers, stack' \in Seq(Calls),
         shadowing' \in [Objects -> Pointers], shadowed' \in [Objects -> Pointers],
         ShadowsSound', Ends(shadowed'),
         \A o \in LeavingOf(stack') : shadowing'[o] = None /\ shadowed'[o] = None
  PROVE  ObjectsInv'
<1> USE DEF places, actions
<1>1. Typed'
  BY DEF ObjectsInv, Typed
<1>2. TreeSound'
  BY DEF ObjectsInv, TreeSound
<1>3. ChainsSound'
  BY DEF ChainsSound, LeavingOf, Ends
<1>4. Regular'
  BY DEF ObjectsInv, Regular
<1>5. SentencesNear'
  BY DEF ObjectsInv, SentencesNear, Near
<1> QED
  BY <1>1, <1>2, <1>3, <1>4, <1>5 DEF ObjectsInv

(* shadow() asks valid_shadow(), which may refuse.                         *)
LEMMA AskStep ==
  ASSUME ObjectsInv
  PROVE  /\ \A me \in Shadows, ob \in Objects : f_shadow(me, ob) => ObjectsInv'
         /\ ShadowRefused => ObjectsInv'
<1>1. stack \in Seq(Calls) /\ restrict_destruct \in Pointers
  BY DEF ObjectsInv, Typed
<1>2. ASSUME NEW me \in Shadows, NEW ob \in Objects, f_shadow(me, ob) PROVE ObjectsInv'
  <2> DEFINE f == [fn |-> "shadow", me |-> me, ob |-> ob, at |-> "call"]
  <2>1. f \in ShadowFrames /\ f.me # f.ob
    BY <1>2, ObjectsAssumption DEF ShadowFrames, f_shadow
  <2>2. f \in Calls /\ f.fn # "destruct"
    BY <2>1, KindsOfCalls
  <2> HIDE DEF f
  <2>3. Push(f) /\ UNCHANGED <<places, shadows, actions, destructed, restrict_destruct>>
    BY <1>2 DEF f_shadow, f
  <2>4. NoneLeaves
    BY <1>1, <2>2, <2>3, Begins
  <2> QED
    BY <1>1, <2>3, <2>4, CallsMoveOn
<1>3. ASSUME ShadowRefused PROVE ObjectsInv'
  <2>1. NoneLeaves
    BY <1>1, <1>3, Returns DEF ShadowRefused, AskingToShadow
  <2> QED
    BY <1>1, <1>3, <2>1, CallsMoveOn DEF ShadowRefused
<1> QED
  BY <1>2, <1>3

(* A shadow valid_shadow() approves of goes to the end of a chain.         *)
LEMMA ShadowStep ==
  ASSUME Careful, ObjectsInv, ShadowApproved
  PROVE  ObjectsInv'
<1>1. PICK me \in Objects, ob \in Objects : me = Top.me /\ ob = Top.ob /\ me # ob /\ NoneLeaves
  <2>1. stack \in Seq(Calls) /\ stack # <<>> /\ Top.fn = "shadow" /\ Return
    BY DEF ObjectsInv, Typed, ShadowApproved, AskingToShadow
  <2>2. Top \in ShadowFrames /\ Top.me # Top.ob
    BY <2>1, TopIs DEF KnowsWhom
  <2>3. NoneLeaves
    BY <2>1, Returns
  <2> QED
    BY <2>2, <2>3 DEF ShadowFrames
<1>2. PICK top : top = FirstShadow(ob)
  OBVIOUS
<1>3. /\ me \in Alive /\ ob \in Alive /\ me # ob
      /\ shadowing[me] = None /\ shadowed[me] = None /\ super[me] = None
      /\ me \notin LeavingOf(stack) /\ ob \notin LeavingOf(stack)
      /\ shadowing' = [shadowing EXCEPT ![me] = top] /\ shadowed' = [shadowed EXCEPT ![top] = me]
      /\ stack' \in Seq(Calls) /\ LeavingOf(stack') \subseteq LeavingOf(stack)
      /\ UNCHANGED <<places, actions, destructed, restrict_destruct>>
  BY <1>1, <1>2 DEF ShadowApproved, StandsAlone, Leaving, LeavingOf, NoneLeaves
<1>4. /\ top \in Objects /\ top \notin destructed /\ shadowed[top] = None
      /\ top # ob => shadowing[top] # None
  BY <1>2, <1>3, FirstOfChain DEF Alive
<1>5. top # me /\ me \notin destructed
  BY <1>3, <1>4 DEF Alive
<1>6. /\ shadowing \in [Objects -> Pointers] /\ shadowed \in [Objects -> Pointers]
      /\ stack \in Seq(Calls) /\ restrict_destruct \in Pointers
  BY DEF ObjectsInv, Typed
<1>7. /\ shadowing' \in [Objects -> Pointers] /\ shadowed' \in [Objects -> Pointers]
      /\ shadowing'[me] = top /\ shadowed'[top] = me
      /\ \A o \in Objects : o # me => shadowing'[o] = shadowing[o]
      /\ \A o \in Objects : o # top => shadowed'[o] = shadowed[o]
  BY <1>3, <1>4, <1>6 DEF Pointers
<1>8. /\ ShadowsSound /\ Ends(shadowed)
      /\ \A o \in LeavingOf(stack) : shadowing[o] = None /\ shadowed[o] = None
  BY DEF ObjectsInv, ChainsSound
<1>9. ASSUME NEW group \in (SUBSET Objects) \ {{}}, \A o \in group : shadowing'[o] \in group PROVE FALSE
  <2> DEFINE H == group \ {me}
  <2>1. H # {}
    BY <1>5, <1>7, <1>9
  <2>2. ASSUME NEW o \in H PROVE shadowing[o] \in H
    <3>1. shadowing[o] \in group /\ o # None
      BY <1>7, <1>9, ObjectsAssumption
    <3>2. shadowing[o] # me
      BY <1>3, <1>8, <3>1, ObjectsAssumption DEF ShadowsSound
    <3> QED
      BY <3>1, <3>2
  <2> QED
    BY <1>8, <2>1, <2>2 DEF ShadowsSound
<1>10. ASSUME NEW group \in (SUBSET Objects) \ {{}}, \A o \in group : shadowed'[o] \in group PROVE FALSE
  <2>1. me \notin group
    BY <1>3, <1>5, <1>7, <1>10, ObjectsAssumption
  <2>2. top \notin group
    BY <1>7, <1>10, <2>1
  <2>3. \A o \in group : shadowed[o] \in group
    BY <1>7, <1>10, <2>2
  <2> QED
    BY <1>8, <2>3 DEF Ends
<1>11. ASSUME NEW o \in Objects, shadowing'[o] # None
       PROVE  shadowed'[shadowing'[o]] = o /\ super'[o] = None /\ shadowing'[o] \notin destructed'
  <2>1. super' = super /\ destructed' = destructed
    BY <1>3 DEF places
  <2>2. CASE o = me
    BY <1>3, <1>4, <1>7, <2>1, <2>2
  <2>3. CASE o # me
    <3>1. shadowing[o] # None /\ shadowing[o] \in Objects
      BY <1>6, <1>7, <1>11, <2>3 DEF Pointers
    <3>2. shadowed[shadowing[o]] = o /\ super[o] = None /\ shadowing[o] \notin destructed
      BY <1>8, <3>1 DEF ShadowsSound
    <3>3. shadowing[o] # top
      BY <1>4, <3>2, ObjectsAssumption
    <3> QED
      BY <1>7, <2>1, <2>3, <3>1, <3>2, <3>3
  <2> QED
    BY <2>2, <2>3
<1>12. ASSUME NEW o \in Objects, shadowed'[o] # None
       PROVE  shadowing'[shadowed'[o]] = o /\ shadowed'[o] \notin destructed'
  <2>1. destructed' = destructed
    BY <1>3
  <2>2. CASE o = top
    BY <1>5, <1>7, <2>1, <2>2
  <2>3. CASE o # top
    <3>1. shadowed[o] # None /\ shadowed[o] \in Objects
      BY <1>6, <1>7, <1>12, <2>3 DEF Pointers
    <3>2. shadowing[shadowed[o]] = o /\ shadowed[o] \notin destructed
      BY <1>8, <3>1 DEF ShadowsSound
    <3>3. shadowed[o] # me
      BY <1>3, <3>2, ObjectsAssumption
    <3> QED
      BY <1>7, <2>1, <2>3, <3>1, <3>2, <3>3
  <2> QED
    BY <2>2, <2>3
<1>13. ShadowsSound'
  <2>1. \A group \in (SUBSET Objects) \ {{}} : \E o \in group : shadowing'[o] \notin group
    BY <1>9
  <2> QED
    BY <1>11, <1>12, <2>1 DEF ShadowsSound
<1>14. Ends(shadowed')
  BY <1>10 DEF Ends
<1>15. ASSUME NEW o \in LeavingOf(stack') PROVE shadowing'[o] = None /\ shadowed'[o] = None
  <2>1. o \in LeavingOf(stack) /\ shadowing[o] = None /\ shadowed[o] = None
    BY <1>3, <1>8
  <2>2. o # me /\ o # top
    BY <1>3, <1>4, <2>1
  <2>3. o \in Objects
    <3>1. PICK i \in DOMAIN stack : stack[i].fn = "destruct" /\ o = stack[i].ob
      BY <2>1 DEF LeavingOf
    <3>2. stack[i] \in Calls
      BY <1>6, <3>1
    <3>3. stack[i] \in DestructFrames
      BY <3>1, <3>2 DEF Calls, Frames, MoveFrames, ChainFrames, VisitFrames, ShadowFrames
    <3> QED
      BY <3>1, <3>3 DEF DestructFrames
  <2> QED
    BY <1>7, <2>1, <2>2, <2>3
<1> QED
  BY <1>3, <1>6, <1>7, <1>13, <1>14, <1>15, ShadowsOnly

-----------------------------------------------------------------------------
(* move_object().                                                          *)

(* The lists once an item is taken out of its environment.                 *)
LEMMA TakenOut ==
  ASSUME ObjectsInv, NEW item \in Objects, NEW o \in Objects,
         NEW rest, rest = IF o = super[item] THEN RemoveFirst(contains[o], item) ELSE contains[o]
  PROVE  /\ rest \in Seq(Objects) /\ IsInjective(rest)
         /\ \A p \in Objects : p \in ToSet(rest) <=> super[p] = o /\ p # item
<1>1. /\ contains[o] \in Seq(Objects) /\ IsInjective(contains[o])
      /\ \A p \in Objects : p \in ToSet(contains[o]) <=> super[p] = o
  BY DEF ObjectsInv, Typed, TreeSound
<1>2. CASE o = super[item]
  BY <1>1, <1>2, Unlinked
<1>3. CASE o # super[item]
  BY <1>1, <1>3
<1> QED
  BY <1>2, <1>3

(* The lists after the move.                                               *)
LEMMA LinkedLists ==
  ASSUME ObjectsInv, NEW item \in Objects, NEW dest \in Objects, NEW o \in Objects
  PROVE  /\ Linked(item, dest)[o] \in Seq(Objects) /\ IsInjective(Linked(item, dest)[o])
         /\ \A p \in Objects : p \in ToSet(Linked(item, dest)[o])
                                 <=> IF p = item THEN o = dest ELSE super[p] = o
<1>1. PICK rest : rest = IF o = super[item] THEN RemoveFirst(contains[o], item) ELSE contains[o]
  OBVIOUS
<1>2. /\ rest \in Seq(Objects) /\ IsInjective(rest)
      /\ \A p \in Objects : p \in ToSet(rest) <=> super[p] = o /\ p # item
  BY <1>1, TakenOut
<1>3. Linked(item, dest)[o] = (IF o = dest THEN <<item>> ELSE <<>>) \o rest
  BY <1>1 DEF Linked
<1>4. CASE o = dest
  <2>1. item \notin ToSet(rest)
    BY <1>2
  <2>2. /\ <<item>> \o rest \in Seq(Objects) /\ IsInjective(<<item>> \o rest)
        /\ ToSet(<<item>> \o rest) = ToSet(rest) \union {item}
    BY <1>2, <2>1, LinkedFirst
  <2> QED
    BY <1>2, <1>3, <1>4, <2>2
<1>5. CASE o # dest
  <2>1. Linked(item, dest)[o] = rest
    BY <1>2, <1>3, <1>5
  <2> QED
    BY <1>2, <1>5, <2>1
<1> QED
  BY <1>4, <1>5

(* The forest after the move.                                              *)
LEMMA ForestMoved ==
  ASSUME ObjectsInv, NEW item \in Alive, NEW dest \in Alive, ~Inside(dest, item),
         contains' = Linked(item, dest), super' = [super EXCEPT ![item] = dest],
         destructed' = destructed
  PROVE  /\ TreeSound' /\ contains' \in [Objects -> Seq(Objects)] /\ super' \in [Objects -> Pointers]
<1>1. /\ item \in Objects /\ dest \in Objects /\ item \notin destructed /\ dest \notin destructed
      /\ super \in [Objects -> Pointers] /\ destructed \subseteq Objects
  BY DEF Alive, ObjectsInv, Typed
<1>2. /\ super' \in [Objects -> Pointers] /\ super'[item] = dest
      /\ \A o \in Objects : o # item => super'[o] = super[o]
  BY <1>1 DEF Pointers
<1>3. \A o \in Objects :
        /\ contains'[o] \in Seq(Objects) /\ IsInjective(contains'[o])
        /\ \A p \in Objects : p \in ToSet(contains'[o]) <=> IF p = item THEN o = dest ELSE super[p] = o
  BY <1>1, LinkedLists
<1>4. contains' \in [Objects -> Seq(Objects)]
  <2>1. contains' = [o \in Objects |-> contains'[o]]
    BY DEF Linked
  <2> QED
    BY <1>3, <2>1
<1>5. ASSUME NEW o \in Objects, NEW p \in Objects PROVE p \in ToSet(contains'[o]) <=> super'[p] = o
  BY <1>1, <1>2, <1>3
<1>6. ASSUME NEW o \in destructed PROVE super'[o] = None /\ contains'[o] = <<>>
  <2>1. o # item /\ o # dest /\ o \in Objects
    BY <1>1
  <2>2. super[o] = None /\ contains[o] = <<>>
    BY DEF ObjectsInv, TreeSound
  <2>3. \A p \in Objects : p \notin ToSet(contains'[o])
    <3>1. \A p \in Objects : super[p] # o
      <4>1. ToSet(contains[o]) = {}
        BY <2>2 DEF ToSet
      <4> QED
        BY <2>1, <4>1 DEF ObjectsInv, TreeSound
    <3> QED
      BY <1>1, <1>3, <2>1, <3>1
  <2>4. contains'[o] = <<>>
    <3>1. PICK inv \in Seq(Objects) : inv = contains'[o]
      BY <1>3, <2>1
    <3>2. ASSUME inv # <<>> PROVE FALSE
      <4>1. inv[1] \in Objects /\ 1 \in DOMAIN inv
        BY <3>2
      <4>2. inv[1] \in ToSet(inv)
        BY <4>1 DEF ToSet
      <4> QED
        BY <2>3, <3>1, <4>1, <4>2
    <3> QED
      BY <3>1, <3>2
  <2> QED
    BY <1>2, <2>1, <2>2, <2>4
<1>7. ASSUME NEW group \in (SUBSET Objects) \ {{}}, \A o \in group : super'[o] \in group PROVE FALSE
  <2>1. PICK out \in SUBSET Objects :
          dest \in out /\ item \notin out /\ \A o \in out : super[o] # None => super[o] \in out
    BY <1>1, NotInside
  <2> DEFINE H == IF item \in group THEN group \cap out ELSE group
  <2>2. H \in (SUBSET Objects) \ {{}}
    BY <1>2, <1>7, <2>1
  <2>3. ASSUME NEW o \in H PROVE super[o] \in H
    <3>1. o \in group /\ o # item
      BY <2>1
    <3>2. super[o] \in group /\ super[o] # None
      BY <1>2, <1>7, <3>1, ObjectsAssumption
    <3> QED
      BY <2>1, <3>2
  <2> HIDE DEF H
  <2> QED
    BY <2>2, <2>3 DEF ObjectsInv, TreeSound
<1>8. TreeSound'
  <2>1. \A o \in Objects : IsInjective(contains'[o])
    BY <1>3
  <2>2. \A group \in (SUBSET Objects) \ {{}} : \E o \in group : super'[o] \notin group
    BY <1>7
  <2> QED
    BY <1>5, <1>6, <2>1, <2>2 DEF TreeSound
<1> QED
  BY <1>2, <1>4, <1>8

(* Who stays near the item, and from whom it parts.                        *)
LEMMA PartedFrom ==
  ASSUME ObjectsInv, NEW item \in Objects, NEW dest \in Objects, NEW user \in Objects, NEW ob \in Objects,
         <<user, ob>> \in sent \ LeftBehind(item), user \in living \ irregular,
         super' = [super EXCEPT ![item] = dest]
  PROVE  Near(ob, user)'
<1>1. /\ user \notin destructed /\ super[user] # None /\ Near(ob, user) /\ super \in [Objects -> Pointers]
  BY DEF ObjectsInv, Regular, SentencesNear, Typed
<1>2. super'[item] = dest /\ \A o \in Objects : o # item => super'[o] = super[o]
  BY <1>1
<1>3. \A o, p \in Objects : p \in ToSet(contains[o]) <=> super[p] = o
  BY DEF ObjectsInv, TreeSound
<1>4. super[item] # None => super[item] \in Objects
  BY <1>1 DEF Pointers
<1>5. CASE item = user
  <2>1. super[item] \in Objects
    BY <1>1, <1>4, <1>5
  <2>2. \A p \in (ToSet(contains[super[item]]) \union {super[item]}) \ {item} : <<user, p>> \notin sent \ LeftBehind(item)
    BY <1>1, <1>5 DEF LeftBehind
  <2>3. CASE ob = user
    BY <2>3 DEF Near
  <2>4. CASE ob # user /\ super[ob] = user
    BY <1>2, <1>5, <2>4 DEF Near
  <2>5. CASE ob # user /\ super[ob] = super[user]
    BY <1>3, <1>5, <2>1, <2>2, <2>5
  <2>6. CASE ob # user /\ ob = super[user]
    BY <1>5, <2>2, <2>6
  <2> QED
    BY <1>1, <2>3, <2>4, <2>5, <2>6 DEF Near
<1>6. CASE item # user /\ item = ob
  <2>1. CASE super[item] = None
    <3>1. ob = super[user]
      BY <1>1, <1>6, <2>1, ObjectsAssumption DEF Near
    <3> QED
      BY <1>2, <1>6, <3>1 DEF Near
  <2>2. CASE super[item] # None
    <3>1. \A u \in ((ToSet(contains[super[item]]) \union {super[item]}) \ {item}) \cap living :
            <<u, ob>> \notin sent \ LeftBehind(item)
      BY <1>6, <2>2 DEF LeftBehind, SentencesOf
    <3>2. super[ob] # user
      BY <1>6, <3>1
    <3>3. super[ob] # super[user]
      BY <1>3, <1>4, <1>6, <2>2, <3>1
    <3>4. ob = super[user]
      BY <1>1, <1>6, <3>2, <3>3 DEF Near
    <3> QED
      BY <1>2, <1>6, <3>4 DEF Near
  <2> QED
    BY <2>1, <2>2
<1>7. CASE item # user /\ item # ob
  BY <1>1, <1>2, <1>7 DEF Near
<1> QED
  BY <1>5, <1>6, <1>7

(* move_object() keeps the invariant.                                      *)
LEMMA MoveStep ==
  ASSUME ObjectsInv, NEW item \in Objects, NEW dest \in Objects, move_object(item, dest)
  PROVE  ObjectsInv'
<1> DEFINE f == [fn |-> "move", item |-> item, dest |-> dest, next |-> None,
                 ob |-> item, at |-> IF item \in living THEN "room" ELSE "loop"]
<1>1. /\ item \in Alive /\ dest \in Alive /\ ~Inside(dest, item) /\ shadowing[item] = None
      /\ sent' = sent \ LeftBehind(item) /\ contains' = Linked(item, dest)
      /\ super' = [super EXCEPT ![item] = dest] /\ Push(f)
      /\ UNCHANGED <<shadows, living, irregular, destructed, restrict_destruct>>
  BY DEF move_object
<1>2. f \in MoveFrames
  BY DEF MoveFrames, Pointers
<1>3. stack \in Seq(Calls)
  BY DEF ObjectsInv, Typed
<1>4. NoneLeaves
  <2> HIDE DEF f
  <2> QED
    BY <1>1, <1>2, <1>3, KindsOfCalls, Begins
<1>5. TreeSound' /\ contains' \in [Objects -> Seq(Objects)] /\ super' \in [Objects -> Pointers]
  BY <1>1, ForestMoved
<1>6. /\ super'[item] = dest /\ dest # None
      /\ \A o \in Objects : o # item => super'[o] = super[o]
  BY <1>1, ObjectsAssumption DEF ObjectsInv, Typed
<1>7. Typed'
  BY <1>1, <1>4, <1>5 DEF ObjectsInv, Typed, NoneLeaves, shadows
<1>8. ChainsSound'
  <2>1. shadowing' = shadowing /\ shadowed' = shadowed /\ destructed' = destructed
    BY <1>1 DEF shadows
  <2>2. ShadowsSound'
    BY <1>1, <1>6, <2>1 DEF ObjectsInv, ChainsSound, ShadowsSound
  <2>3. Ends(shadowed)'
    BY <2>1 DEF ObjectsInv, ChainsSound, Ends
  <2>4. \A o \in LeavingOf(stack') : shadowing'[o] = None /\ shadowed'[o] = None
    BY <1>4, <2>1 DEF ObjectsInv, ChainsSound, NoneLeaves
  <2> QED
    BY <2>2, <2>3, <2>4 DEF ChainsSound, LeavingOf
<1>9. Regular'
  BY <1>1, <1>6 DEF ObjectsInv, Regular
<1>10. SentencesNear'
  <2> SUFFICES ASSUME NEW user \in Objects, NEW ob \in Objects,
                      <<user, ob>> \in sent', user \in living' \ irregular'
               PROVE  ob \notin destructed' /\ Near(ob, user)'
    BY DEF SentencesNear
  <2>1. ob \notin destructed'
    BY <1>1 DEF ObjectsInv, SentencesNear
  <2>2. <<user, ob>> \in sent \ LeftBehind(item) /\ user \in living \ irregular
    BY <1>1
  <2>3. Near(ob, user)'
    BY <1>1, <2>2, PartedFrom
  <2> QED
    BY <2>1, <2>3
<1> QED
  BY <1>5, <1>7, <1>8, <1>9, <1>10 DEF ObjectsInv

-----------------------------------------------------------------------------
(* destruct_object().                                                      *)

(* The object leaves its chain of shadows, whose halves are joined.        *)
LEMMA LeavesChain ==
  ASSUME ObjectsInv, NEW ob \in Objects, Unshadow(ob), UNCHANGED <<places, destructed>>
  PROVE  /\ shadowing' \in [Objects -> Pointers] /\ shadowed' \in [Objects -> Pointers]
         /\ ShadowsSound' /\ Ends(shadowed')
         /\ shadowing'[ob] = None /\ shadowed'[ob] = None
         /\ \A o \in Objects : shadowing[o] = None /\ shadowed[o] = None
                                 => shadowing'[o] = None /\ shadowed'[o] = None
<1>1. PICK below, above : below = shadowing[ob] /\ above = shadowed[ob]
  OBVIOUS
<1>2. /\ shadowing \in [Objects -> Pointers] /\ shadowed \in [Objects -> Pointers]
      /\ ShadowsSound /\ Ends(shadowed) /\ Ends(shadowing)
      /\ super' = super /\ destructed' = destructed
  BY DEF ObjectsInv, Typed, ChainsSound, places, ShadowsSound, Ends
<1>3. /\ below \in Pointers /\ above \in Pointers /\ below # ob /\ above # ob
      /\ below # None => shadowed[below] = ob /\ below \in Objects /\ below \notin destructed
      /\ above # None => shadowing[above] = ob /\ above \in Objects /\ above \notin destructed
  <2>1. below \in Pointers /\ above \in Pointers
    BY <1>1, <1>2
  <2>2. below # None => shadowed[below] = ob /\ below \in Objects /\ below \notin destructed
    BY <1>1, <1>2, <2>1 DEF ShadowsSound, Pointers
  <2>3. above # None => shadowing[above] = ob /\ above \in Objects /\ above \notin destructed
    BY <1>1, <1>2, <2>1 DEF ShadowsSound, Pointers
  <2>4. below # ob
    <3>1. {ob} \in (SUBSET Objects) \ {{}}
      OBVIOUS
    <3>2. \E o \in {ob} : shadowing[o] \notin {ob}
      BY <1>2, <3>1 DEF Ends
    <3> QED
      BY <1>1, <3>2
  <2>5. above # ob
    BY <1>1, <2>3, <2>4, ObjectsAssumption
  <2> QED
    BY <2>1, <2>2, <2>3, <2>4, <2>5
<1>4. /\ shadowed' = [o \in Objects |-> IF o = ob THEN None ELSE IF o = below THEN above ELSE shadowed[o]]
      /\ shadowing' = [o \in Objects |-> IF o = ob THEN None ELSE IF o = above THEN below ELSE shadowing[o]]
  BY <1>1 DEF Unshadow
<1>5. /\ shadowing' \in [Objects -> Pointers] /\ shadowed' \in [Objects -> Pointers]
      /\ shadowing'[ob] = None /\ shadowed'[ob] = None
      /\ above # None => shadowing'[above] = below
      /\ below # None => shadowed'[below] = above
      /\ \A o \in Objects : o # ob /\ o # above => shadowing'[o] = shadowing[o]
      /\ \A o \in Objects : o # ob /\ o # below => shadowed'[o] = shadowed[o]
  BY <1>2, <1>3, <1>4 DEF Pointers
<1>6. ASSUME NEW o \in Objects, shadowing'[o] # None
      PROVE  shadowed'[shadowing'[o]] = o /\ super'[o] = None /\ shadowing'[o] \notin destructed'
  <2>1. o # ob
    BY <1>5, <1>6
  <2>2. CASE o = above
    <3>1. o # None /\ below # None /\ shadowing[o] # None
      BY <1>3, <1>5, <1>6, <2>2, ObjectsAssumption
    <3>2. super[o] = None
      BY <1>2, <3>1 DEF ShadowsSound
    <3> QED
      BY <1>2, <1>3, <1>5, <2>2, <3>1, <3>2
  <2>3. CASE o # above
    <3>1. shadowing'[o] = shadowing[o] /\ shadowing[o] # None /\ shadowing[o] \in Objects
      BY <1>2, <1>5, <1>6, <2>1, <2>3 DEF Pointers
    <3>2. shadowed[shadowing[o]] = o /\ super[o] = None /\ shadowing[o] \notin destructed
      BY <1>2, <3>1 DEF ShadowsSound
    <3>3. shadowing[o] # ob /\ shadowing[o] # below
      BY <1>1, <1>3, <2>1, <2>3, <3>1, <3>2
    <3> QED
      BY <1>2, <1>5, <3>1, <3>2, <3>3
  <2> QED
    BY <2>2, <2>3
<1>7. ASSUME NEW o \in Objects, shadowed'[o] # None
      PROVE  shadowing'[shadowed'[o]] = o /\ shadowed'[o] \notin destructed'
  <2>1. o # ob
    BY <1>5, <1>7
  <2>2. CASE o = below
    <3>1. o # None /\ above # None
      BY <1>5, <1>7, <2>2, ObjectsAssumption
    <3> QED
      BY <1>2, <1>3, <1>5, <2>2, <3>1
  <2>3. CASE o # below
    <3>1. shadowed'[o] = shadowed[o] /\ shadowed[o] # None /\ shadowed[o] \in Objects
      BY <1>2, <1>5, <1>7, <2>1, <2>3 DEF Pointers
    <3>2. shadowing[shadowed[o]] = o /\ shadowed[o] \notin destructed
      BY <1>2, <3>1 DEF ShadowsSound
    <3>3. shadowed[o] # ob /\ shadowed[o] # above
      BY <1>1, <1>3, <2>1, <2>3, <3>1, <3>2
    <3> QED
      BY <1>2, <1>5, <3>1, <3>2, <3>3
  <2> QED
    BY <2>2, <2>3
<1>8. ASSUME NEW group \in (SUBSET Objects) \ {{}}, \A o \in group : shadowing'[o] \in group PROVE FALSE
  <2>1. ob \notin group /\ None \notin group
    BY <1>5, <1>8, ObjectsAssumption
  <2> DEFINE H == IF above \in group THEN group \union {ob} ELSE group
  <2>2. H \in (SUBSET Objects) \ {{}}
    BY <1>8
  <2>3. ASSUME NEW o \in H PROVE shadowing[o] \in H
    <3>1. CASE o = ob
      <4>1. above \in group /\ above # None
        BY <2>1, <3>1
      <4> QED
        BY <1>1, <1>5, <1>8, <3>1, <4>1
    <3>2. CASE o = above /\ o # ob
      <4>1. above \in group /\ above # None
        BY <2>1, <3>2
      <4> QED
        BY <1>3, <3>2, <4>1
    <3>3. CASE o # ob /\ o # above
      BY <1>5, <1>8, <3>3
    <3> QED
      BY <3>1, <3>2, <3>3
  <2> HIDE DEF H
  <2> QED
    BY <1>2, <2>2, <2>3 DEF Ends
<1>9. ASSUME NEW group \in (SUBSET Objects) \ {{}}, \A o \in group : shadowed'[o] \in group PROVE FALSE
  <2>1. ob \notin group /\ None \notin group
    BY <1>5, <1>9, ObjectsAssumption
  <2> DEFINE H == IF below \in group THEN group \union {ob} ELSE group
  <2>2. H \in (SUBSET Objects) \ {{}}
    BY <1>9
  <2>3. ASSUME NEW o \in H PROVE shadowed[o] \in H
    <3>1. CASE o = ob
      <4>1. below \in group /\ below # None
        BY <2>1, <3>1
      <4> QED
        BY <1>1, <1>5, <1>9, <3>1, <4>1
    <3>2. CASE o = below /\ o # ob
      <4>1. below \in group /\ below # None
        BY <2>1, <3>2
      <4> QED
        BY <1>3, <3>2, <4>1
    <3>3. CASE o # ob /\ o # below
      BY <1>5, <1>9, <3>3
    <3> QED
      BY <3>1, <3>2, <3>3
  <2> HIDE DEF H
  <2> QED
    BY <1>2, <2>2, <2>3 DEF Ends
<1>10. ShadowsSound'
  <2>1. \A group \in (SUBSET Objects) \ {{}} : \E o \in group : shadowing'[o] \notin group
    BY <1>8
  <2> QED
    BY <1>6, <1>7, <2>1 DEF ShadowsSound
<1>11. Ends(shadowed')
  BY <1>9 DEF Ends
<1>12. ASSUME NEW o \in Objects, shadowing[o] = None, shadowed[o] = None
       PROVE  shadowing'[o] = None /\ shadowed'[o] = None
  <2>1. o # ob => o # above /\ o # below
    BY <1>3, <1>12, ObjectsAssumption
  <2> QED
    BY <1>5, <1>12, <2>1
<1> QED
  BY <1>5, <1>10, <1>11, <1>12

(* Who is being destructed is an object.                                   *)
LEMMA LeavingAreObjects ==
  ASSUME NEW calls \in Seq(Calls), NEW o \in LeavingOf(calls)
  PROVE  o \in Objects
<1>1. PICK i \in DOMAIN calls : calls[i].fn = "destruct" /\ o = calls[i].ob
  BY DEF LeavingOf
<1>2. calls[i] \in Calls
  BY <1>1
<1>3. calls[i] \in DestructFrames
  BY <1>1, <1>2 DEF Calls, Frames, MoveFrames, ChainFrames, VisitFrames, ShadowFrames
<1> QED
  BY <1>1, <1>3 DEF DestructFrames

(* A call of destruct_object(), from LPC code or from the driver.          *)
LEMMA DestructStep ==
  ASSUME ObjectsInv, NEW ob \in Objects, NEW calls \in Seq(Calls),
         LeavingOf(calls) \subseteq LeavingOf(stack), NEW allowed \in Pointers,
         Destruct(ob, calls, allowed)
  PROVE  ObjectsInv'
<1>1. CASE Unwind(calls) /\ UNCHANGED <<places, shadows, actions, destructed>>
  BY <1>1, Unwinds, CallsMoveOn
<1>2. ASSUME restrict_destruct' = allowed, UNCHANGED <<places, actions, destructed>>,
             UNCHANGED shadows, stack' = calls
      PROVE  ObjectsInv'
  BY <1>2, CallsMoveOn DEF NoneLeaves
<1>3. ASSUME restrict_destruct' = allowed, UNCHANGED <<places, actions, destructed>>,
             UNCHANGED shadows, ob \notin destructed,
             stack' = Append(calls, [fn |-> "chain", ob |-> None, next |-> FirstShadow(ob), at |-> "loop"])
      PROVE  ObjectsInv'
  <2> DEFINE f == [fn |-> "chain", ob |-> None, next |-> FirstShadow(ob), at |-> "loop"]
  <2>1. FirstShadow(ob) \in Pointers
    BY <1>3, FirstOfChain DEF Alive, Pointers
  <2>2. f \in ChainFrames
    BY <2>1 DEF ChainFrames, Pointers
  <2>3. f \in Calls /\ f.fn # "destruct"
    BY <2>2, KindsOfCalls
  <2> HIDE DEF f
  <2>4. stack' = Append(calls, f)
    BY <1>3 DEF f
  <2>5. NoneLeaves
    BY <2>3, <2>4, CallAdded DEF NoneLeaves
  <2> QED
    BY <1>3, <2>5, CallsMoveOn
<1>4. ASSUME restrict_destruct' = allowed, UNCHANGED <<places, actions, destructed>>, Unshadow(ob),
             stack' = Append(calls, [fn |-> "destruct", ob |-> ob, next |-> None, save |-> allowed, at |-> "loop"])
      PROVE  ObjectsInv'
  <2> DEFINE f == [fn |-> "destruct", ob |-> ob, next |-> None, save |-> allowed, at |-> "loop"]
  <2>1. f \in DestructFrames /\ f.at = "loop" /\ f.ob = ob
    BY DEF DestructFrames, Pointers
  <2>2. f \in Calls
    BY <2>1, KindsOfCalls
  <2> HIDE DEF f
  <2>3. stack' = Append(calls, f)
    BY <1>4 DEF f
  <2>4. stack' \in Seq(Calls) /\ \A o \in LeavingOf(stack') : o \in LeavingOf(stack) \/ o = ob
    BY <2>1, <2>2, <2>3, CallAdded
  <2>5. /\ shadowing' \in [Objects -> Pointers] /\ shadowed' \in [Objects -> Pointers]
        /\ ShadowsSound' /\ Ends(shadowed')
        /\ shadowing'[ob] = None /\ shadowed'[ob] = None
        /\ \A o \in Objects : shadowing[o] = None /\ shadowed[o] = None
                                => shadowing'[o] = None /\ shadowed'[o] = None
    BY <1>4, LeavesChain
  <2>6. ASSUME NEW o \in LeavingOf(stack') PROVE shadowing'[o] = None /\ shadowed'[o] = None
    <3>1. CASE o = ob
      BY <2>5, <3>1
    <3>2. CASE o \in LeavingOf(stack)
      <4>1. stack \in Seq(Calls) /\ shadowing[o] = None /\ shadowed[o] = None
        BY <3>2 DEF ObjectsInv, Typed, ChainsSound
      <4>2. o \in Objects
        BY <3>2, <4>1, LeavingAreObjects
      <4> QED
        BY <2>5, <4>1, <4>2
    <3> QED
      BY <2>4, <3>1, <3>2
  <2> QED
    BY <1>4, <2>4, <2>5, <2>6, ShadowsOnly
<1> QED
  BY <1>1, <1>2, <1>3, <1>4 DEF Destruct

(* An object is taken off a chain before it is destructed: the chain is    *)
(* cut below it.                                                           *)
LEMMA ChainCut ==
  ASSUME ObjectsInv, NEW ob \in Objects, NEW ob2, ob2 = shadowing[ob],
         shadowed' = [o \in Objects |-> IF o = ob2 THEN None ELSE shadowed[o]],
         shadowing' = [shadowing EXCEPT ![ob] = None], UNCHANGED <<places, destructed>>
  PROVE  /\ shadowing' \in [Objects -> Pointers] /\ shadowed' \in [Objects -> Pointers]
         /\ ShadowsSound' /\ Ends(shadowed')
         /\ \A o \in Objects : shadowing[o] = None /\ shadowed[o] = None
                                 => shadowing'[o] = None /\ shadowed'[o] = None
<1>1. /\ shadowing \in [Objects -> Pointers] /\ shadowed \in [Objects -> Pointers]
      /\ ShadowsSound /\ Ends(shadowed) /\ Ends(shadowing)
      /\ super' = super /\ destructed' = destructed
  BY DEF ObjectsInv, Typed, ChainsSound, places, ShadowsSound, Ends
<1>2. /\ shadowing' \in [Objects -> Pointers] /\ shadowed' \in [Objects -> Pointers]
      /\ shadowing'[ob] = None
      /\ \A o \in Objects : o # ob => shadowing'[o] = shadowing[o]
      /\ \A o \in Objects : o = ob2 => shadowed'[o] = None
      /\ \A o \in Objects : o # ob2 => shadowed'[o] = shadowed[o]
  BY <1>1 DEF Pointers
<1>3. ASSUME NEW o \in Objects, shadowing'[o] # None
      PROVE  shadowed'[shadowing'[o]] = o /\ super'[o] = None /\ shadowing'[o] \notin destructed'
  <2>1. o # ob /\ shadowing'[o] = shadowing[o]
    BY <1>2, <1>3
  <2>2. shadowing[o] # None /\ shadowing[o] \in Objects
    BY <1>1, <1>3, <2>1 DEF Pointers
  <2>3. shadowed[shadowing[o]] = o /\ super[o] = None /\ shadowing[o] \notin destructed
    BY <1>1, <2>2 DEF ShadowsSound
  <2>4. shadowing[o] # ob2
    BY <1>1, <2>1, <2>2, <2>3 DEF ShadowsSound
  <2> QED
    BY <1>1, <1>2, <2>1, <2>2, <2>3, <2>4
<1>4. ASSUME NEW o \in Objects, shadowed'[o] # None
      PROVE  shadowing'[shadowed'[o]] = o /\ shadowed'[o] \notin destructed'
  <2>1. o # ob2 /\ shadowed'[o] = shadowed[o]
    BY <1>2, <1>4
  <2>2. shadowed[o] # None /\ shadowed[o] \in Objects
    BY <1>1, <1>4, <2>1 DEF Pointers
  <2>3. shadowing[shadowed[o]] = o /\ shadowed[o] \notin destructed
    BY <1>1, <2>2 DEF ShadowsSound
  <2>4. shadowed[o] # ob
    BY <2>1, <2>3
  <2> QED
    BY <1>1, <1>2, <2>1, <2>2, <2>3, <2>4
<1>5. ASSUME NEW group \in (SUBSET Objects) \ {{}}, \A o \in group : shadowing'[o] \in group PROVE FALSE
  <2>1. ob \notin group
    BY <1>2, <1>5, ObjectsAssumption
  <2>2. \A o \in group : shadowing[o] \in group
    BY <1>2, <1>5, <2>1
  <2> QED
    BY <1>1, <2>2 DEF Ends
<1>6. ASSUME NEW group \in (SUBSET Objects) \ {{}}, \A o \in group : shadowed'[o] \in group PROVE FALSE
  <2>1. ob2 \notin group
    BY <1>2, <1>6, ObjectsAssumption
  <2>2. \A o \in group : shadowed[o] \in group
    BY <1>2, <1>6, <2>1
  <2> QED
    BY <1>1, <2>2 DEF Ends
<1>7. ShadowsSound'
  <2>1. \A group \in (SUBSET Objects) \ {{}} : \E o \in group : shadowing'[o] \notin group
    BY <1>5
  <2> QED
    BY <1>3, <1>4, <2>1 DEF ShadowsSound
<1>8. Ends(shadowed')
  BY <1>6 DEF Ends
<1>9. ASSUME NEW o \in Objects, shadowing[o] = None, shadowed[o] = None
      PROVE  shadowing'[o] = None /\ shadowed'[o] = None
  BY <1>2, <1>9
<1> QED
  BY <1>2, <1>7, <1>8, <1>9

(* The loop over the shadows of an object keeps the invariant.             *)
LEMMA ChainStep ==
  ASSUME ObjectsInv, ChainUnlink \/ ChainDestruct \/ ChainEnds
  PROVE  ObjectsInv'
<1>1. stack \in Seq(Calls) /\ restrict_destruct \in Pointers
  BY DEF ObjectsInv, Typed
<1>2. stack # <<>> /\ Top.fn = "chain"
  BY DEF ChainUnlink, ChainDestruct, ChainEnds, InChain
<1>3. Top \in ChainFrames
  BY <1>1, <1>2, TopIs
<1>4. Top.ob \in Pointers /\ Top.next \in Pointers
  BY <1>3 DEF ChainFrames
<1>5. CASE ChainUnlink
  <2>1. PICK ob, ob2 : ob = Top.next /\ ob2 = shadowing[ob]
    OBVIOUS
  <2>2. /\ shadowed' = [o \in Objects |-> IF o = ob2 THEN None ELSE shadowed[o]]
        /\ shadowing' = [shadowing EXCEPT ![ob] = None]
        /\ Become([Top EXCEPT !.ob = ob, !.next = ob2])
        /\ UNCHANGED <<places, actions, destructed, restrict_destruct>> /\ ob # None
    BY <1>5, <2>1 DEF ChainUnlink
  <2>3. ob \in Objects /\ ob2 \in Pointers
    BY <1>4, <2>1, <2>2 DEF Pointers, ObjectsInv, Typed
  <2>4. [Top EXCEPT !.ob = ob, !.next = ob2] \in ChainFrames
    BY <1>3, <2>3 DEF ChainFrames, Pointers
  <2>5. NoneLeaves
    BY <1>1, <1>2, <2>2, <2>4, KindsOfCalls, Becomes
  <2>6. /\ shadowing' \in [Objects -> Pointers] /\ shadowed' \in [Objects -> Pointers]
        /\ ShadowsSound' /\ Ends(shadowed')
        /\ \A o \in Objects : shadowing[o] = None /\ shadowed[o] = None
                                => shadowing'[o] = None /\ shadowed'[o] = None
    BY <2>1, <2>2, <2>3, ChainCut
  <2>7. ASSUME NEW o \in LeavingOf(stack') PROVE shadowing'[o] = None /\ shadowed'[o] = None
    <3>1. o \in LeavingOf(stack)
      BY <2>5 DEF NoneLeaves
    <3>2. o \in Objects /\ shadowing[o] = None /\ shadowed[o] = None
      BY <1>1, <3>1, LeavingAreObjects DEF ObjectsInv, ChainsSound
    <3> QED
      BY <2>6, <3>2
  <2> QED
    BY <1>1, <2>2, <2>5, <2>6, <2>7, ShadowsOnly DEF NoneLeaves
<1>6. CASE ChainDestruct
  <2> DEFINE f == [Top EXCEPT !.ob = None]
  <2>1. PICK calls : calls = [stack EXCEPT ![Len(stack)] = f]
    OBVIOUS
  <2>2. [stack EXCEPT ![Len(stack)].ob = None] = calls
    BY <2>1 DEF Top
  <2>3. f \in ChainFrames
    BY <1>3 DEF ChainFrames, Pointers
  <2>4. f \in Calls /\ f.fn # "destruct"
    BY <2>3, KindsOfCalls
  <2> HIDE DEF f
  <2>5. calls \in Seq(Calls) /\ LeavingOf(calls) \subseteq LeavingOf(stack)
    BY <1>1, <1>2, <2>1, <2>4, CallGoesOn
  <2>6. Top.ob \in Objects /\ Destruct(Top.ob, calls, restrict_destruct)
    BY <1>4, <1>6, <2>2 DEF ChainDestruct, Pointers
  <2> QED
    BY <1>1, <2>5, <2>6, DestructStep
<1>7. CASE ChainEnds
  BY <1>1, <1>2, <1>7, Returns, OnlyCalls DEF ChainEnds
<1> QED
  BY <1>5, <1>6, <1>7

(* destruct() called by LPC code, and the loop over the inventory, keep    *)
(* the invariant.                                                          *)
LEMMA DestructLoopStep ==
  ASSUME ObjectsInv, (\E ob \in Objects : f_destruct(ob)) \/ AskToMove \/ MoveReturns
  PROVE  ObjectsInv'
<1>1. /\ stack \in Seq(Calls) /\ restrict_destruct \in Pointers
      /\ contains \in [Objects -> Seq(Objects)]
  BY DEF ObjectsInv, Typed
<1>2. ASSUME NEW at, Destructing(at)
      PROVE  /\ stack # <<>> /\ Top.fn = "destruct" /\ Top \in DestructFrames /\ Top.at = at
             /\ Top.ob \in Objects /\ Top.save \in Pointers /\ (at = "move" => Top.next \in Objects)
  <2>1. stack # <<>> /\ Top.fn = "destruct" /\ Top.at = at
    BY <1>2 DEF Destructing
  <2>2. Top \in DestructFrames /\ KnowsWhom(Top)
    BY <1>1, <2>1, TopIs
  <2> QED
    BY <2>1, <2>2 DEF DestructFrames, KnowsWhom
<1>3. ASSUME NEW ob \in Objects, f_destruct(ob) PROVE ObjectsInv'
  BY <1>1, <1>3, DestructStep DEF f_destruct
<1>4. ASSUME NEW f \in DestructFrames, f.at = "move" => f.next \in Objects, f.ob = Top.ob,
             stack # <<>>, Top.fn = "destruct"
      PROVE  /\ [stack EXCEPT ![Len(stack)] = f] \in Seq(Calls)
             /\ LeavingOf([stack EXCEPT ![Len(stack)] = f]) \subseteq LeavingOf(stack)
  BY <1>1, <1>4, KindsOfCalls, CallGoesOn DEF Top
<1>5. CASE AskToMove
  <2>1. PICK first : first = Head(contains[Top.ob])
    OBVIOUS
  <2>2. /\ Destructing("loop") /\ contains[Top.ob] # <<>> /\ restrict_destruct' = first
        /\ Become([Top EXCEPT !.at = "move", !.next = first])
        /\ UNCHANGED <<places, shadows, actions, destructed>>
    BY <1>5, <2>1 DEF AskToMove
  <2>3. contains[Top.ob] \in Seq(Objects)
    BY <1>1, <1>2, <2>2
  <2>4. first \in Objects
    BY <2>1, <2>2, <2>3
  <2>5. PICK f : f = [Top EXCEPT !.at = "move", !.next = first]
    OBVIOUS
  <2>6. f \in DestructFrames /\ f.next = first /\ f.ob = Top.ob
    BY <1>2, <2>2, <2>4, <2>5 DEF DestructFrames, Pointers
  <2>7. NoneLeaves
    BY <1>2, <1>4, <2>2, <2>4, <2>5, <2>6 DEF Become, NoneLeaves
  <2> QED
    BY <2>2, <2>4, <2>7, CallsMoveOn DEF Pointers
<1>6. CASE MoveReturns
  <2>1. Destructing("move")
    BY <1>6 DEF MoveReturns
  <2>2. PICK f : f = [Top EXCEPT !.at = "loop", !.next = None]
    OBVIOUS
  <2>3. f \in DestructFrames /\ f.at = "loop" /\ f.ob = Top.ob
    BY <1>2, <2>1, <2>2 DEF DestructFrames, Pointers
  <2>4. PICK calls : calls = [stack EXCEPT ![Len(stack)] = f]
    OBVIOUS
  <2>5. calls \in Seq(Calls) /\ LeavingOf(calls) \subseteq LeavingOf(stack)
    BY <1>2, <1>4, <2>1, <2>3, <2>4
  <2>6. CASE Return /\ restrict_destruct' = Top.save /\ UNCHANGED <<places, shadows, actions, destructed>>
    BY <1>1, <1>2, <2>1, <2>6, Returns, CallsMoveOn
  <2>7. CASE /\ Become(f) /\ restrict_destruct' = Top.save
             /\ UNCHANGED <<places, shadows, actions, destructed>>
    <3>1. NoneLeaves
      BY <2>4, <2>5, <2>7 DEF Become, NoneLeaves
    <3> QED
      BY <1>2, <2>1, <2>7, <3>1, CallsMoveOn
  <2>8. CASE Destruct(Top.next, calls, Top.save)
    BY <1>2, <2>1, <2>5, <2>8, DestructStep
  <2> QED
    BY <1>6, <2>2, <2>4, <2>6, <2>7, <2>8 DEF MoveReturns
<1> QED
  BY <1>3, <1>5, <1>6

(* The forest when an object that contains nothing has left.               *)
LEMMA ForestLeft ==
  ASSUME ObjectsInv, NEW ob \in Objects, contains[ob] = <<>>,
         contains' = [o \in Objects |-> IF o = super[ob] THEN RemoveFirst(contains[o], ob) ELSE contains[o]],
         super' = [super EXCEPT ![ob] = None], destructed' = destructed \union {ob}
  PROVE  /\ TreeSound' /\ contains' \in [Objects -> Seq(Objects)] /\ super' \in [Objects -> Pointers]
<1>1. /\ super \in [Objects -> Pointers] /\ destructed \subseteq Objects
      /\ \A o, p \in Objects : p \in ToSet(contains[o]) <=> super[p] = o
      /\ \A o \in destructed : super[o] = None /\ contains[o] = <<>>
      /\ \A group \in (SUBSET Objects) \ {{}} : \E o \in group : super[o] \notin group
  BY DEF ObjectsInv, Typed, TreeSound
<1>2. /\ super' \in [Objects -> Pointers] /\ super'[ob] = None
      /\ \A o \in Objects : o # ob => super'[o] = super[o]
  BY <1>1 DEF Pointers
<1>3. ASSUME NEW o \in Objects
      PROVE  /\ contains'[o] \in Seq(Objects) /\ IsInjective(contains'[o])
             /\ \A p \in Objects : p \in ToSet(contains'[o]) <=> super[p] = o /\ p # ob
  <2>1. PICK rest : rest = IF o = super[ob] THEN RemoveFirst(contains[o], ob) ELSE contains[o]
    OBVIOUS
  <2>2. contains'[o] = rest
    BY <2>1
  <2> QED
    BY <2>1, <2>2, TakenOut
<1>4. contains' \in [Objects -> Seq(Objects)]
  <2>1. contains' = [o \in Objects |-> contains'[o]]
    OBVIOUS
  <2> QED
    BY <1>3, <2>1
<1>5. ASSUME NEW o \in Objects, NEW p \in Objects PROVE p \in ToSet(contains'[o]) <=> super'[p] = o
  BY <1>2, <1>3, ObjectsAssumption
<1>6. ASSUME NEW o \in destructed' PROVE super'[o] = None /\ contains'[o] = <<>>
  <2>1. o \in Objects /\ contains[o] = <<>> /\ (o # ob => super[o] = None)
    BY <1>1
  <2>2. ToSet(contains[o]) = {}
    BY <2>1 DEF ToSet
  <2>3. super[ob] # o
    BY <1>1, <2>1, <2>2
  <2>4. contains'[o] = contains[o]
    BY <2>1, <2>3
  <2> QED
    BY <1>2, <2>1, <2>4
<1>7. ASSUME NEW group \in (SUBSET Objects) \ {{}}, \A o \in group : super'[o] \in group PROVE FALSE
  <2>1. ob \notin group
    BY <1>2, <1>7, ObjectsAssumption
  <2>2. \A o \in group : super[o] \in group
    BY <1>2, <1>7, <2>1
  <2> QED
    BY <1>1, <2>2
<1>8. TreeSound'
  <2>1. \A o \in Objects : IsInjective(contains'[o])
    BY <1>3
  <2>2. \A group \in (SUBSET Objects) \ {{}} : \E o \in group : super'[o] \notin group
    BY <1>7
  <2> QED
    BY <1>5, <1>6, <2>1, <2>2 DEF TreeSound
<1> QED
  BY <1>2, <1>4, <1>8

(* An object that has left its environment keeps no sentence in any living *)
(* object: the ones beside it and its environment are looked through, and  *)
(* nobody is inside it.                                                    *)
LEMMA SentencesLeft ==
  ASSUME ObjectsInv, NEW ob \in Objects, contains[ob] = <<>>,
         NEW user \in Objects, user \in living \ irregular, user # ob, <<user, ob>> \in sent
  PROVE  /\ super[ob] # None
         /\ <<user, ob>> \in SentencesOf(ob, ToSet(contains[super[ob]]) \union {super[ob]})
<1>1. /\ user \notin destructed /\ super[user] # None /\ Near(ob, user)
      /\ super \in [Objects -> Pointers]
      /\ \A o, p \in Objects : p \in ToSet(contains[o]) <=> super[p] = o
  BY DEF ObjectsInv, Regular, SentencesNear, Typed, TreeSound
<1>2. super[user] # ob
  <2>1. ToSet(contains[ob]) = {}
    BY DEF ToSet
  <2> QED
    BY <1>1, <2>1
<1>3. super[ob] = user \/ super[ob] = super[user]
  BY <1>1, <1>2 DEF Near
<1>4. super[ob] # None /\ super[ob] \in Objects
  BY <1>1, <1>3, ObjectsAssumption DEF Pointers
<1>5. user \in ToSet(contains[super[ob]]) \union {super[ob]}
  BY <1>1, <1>3, <1>4
<1> QED
  BY <1>4, <1>5 DEF SentencesOf

(* The end of destruct_object() keeps the invariant.                       *)
LEMMA DestructEndStep ==
  ASSUME ObjectsInv, DestructEnds
  PROVE  ObjectsInv'
<1>1. PICK ob : ob = Top.ob
  OBVIOUS
<1>2. stack \in Seq(Calls) /\ stack # <<>> /\ Top.fn = "destruct" /\ contains[ob] = <<>>
  BY <1>1 DEF ObjectsInv, Typed, DestructEnds, Destructing
<1>3. Top \in DestructFrames /\ Len(stack) \in Nat \ {0}
  BY <1>2, TopIs
<1>4. ob \in Objects
  BY <1>1, <1>3 DEF DestructFrames
<1>5. /\ sent' = IF super[ob] = None THEN sent
                 ELSE sent \ SentencesOf(ob, ToSet(contains[super[ob]]) \union {super[ob]})
      /\ contains' = [o \in Objects |-> IF o = super[ob] THEN RemoveFirst(contains[o], ob) ELSE contains[o]]
      /\ super' = [super EXCEPT ![ob] = None]
      /\ living' = living \ {ob} /\ destructed' = destructed \union {ob}
      /\ Return /\ irregular' = irregular /\ restrict_destruct' = restrict_destruct
      /\ shadowing' = shadowing /\ shadowed' = shadowed
  BY <1>1 DEF DestructEnds, shadows
<1>6. NoneLeaves
  BY <1>2, <1>5, Returns
<1>7. TreeSound' /\ contains' \in [Objects -> Seq(Objects)] /\ super' \in [Objects -> Pointers]
  BY <1>2, <1>4, <1>5, ForestLeft
<1>8. /\ sent' \subseteq sent /\ super'[ob] = None
      /\ \A o \in Objects : o # ob => super'[o] = super[o]
  BY <1>4, <1>5 DEF ObjectsInv, Typed
<1>9. Typed'
  BY <1>4, <1>5, <1>6, <1>7, <1>8 DEF ObjectsInv, Typed, NoneLeaves
<1>10. shadowing[ob] = None /\ shadowed[ob] = None
  <2>1. ob \in LeavingOf(stack)
    <3>1. Len(stack) \in DOMAIN stack /\ stack[Len(stack)].fn = "destruct" /\ stack[Len(stack)].ob = ob
      BY <1>1, <1>2, <1>3 DEF Top
    <3> QED
      BY <3>1 DEF LeavingOf
  <2> QED
    BY <2>1 DEF ObjectsInv, ChainsSound
<1>11. ChainsSound'
  <2>1. \A o \in Objects : shadowing[o] # ob /\ shadowed[o] # ob
    BY <1>4, <1>10, ObjectsAssumption DEF ObjectsInv, ChainsSound, ShadowsSound
  <2>2. ShadowsSound'
    BY <1>5, <1>8, <2>1 DEF ObjectsInv, ChainsSound, ShadowsSound
  <2>3. Ends(shadowed)'
    BY <1>5 DEF ObjectsInv, ChainsSound, Ends
  <2>4. \A o \in LeavingOf(stack') : shadowing'[o] = None /\ shadowed'[o] = None
    BY <1>5, <1>6 DEF ObjectsInv, ChainsSound, NoneLeaves
  <2> QED
    BY <2>2, <2>3, <2>4 DEF ChainsSound, LeavingOf
<1>12. Regular'
  BY <1>4, <1>5, <1>8 DEF ObjectsInv, Regular
<1>13. SentencesNear'
  <2> SUFFICES ASSUME NEW user \in Objects, NEW o \in Objects,
                      <<user, o>> \in sent', user \in living' \ irregular'
               PROVE  o \notin destructed' /\ Near(o, user)'
    BY DEF SentencesNear
  <2>1. user # ob /\ user \in living \ irregular /\ <<user, o>> \in sent
    BY <1>5, <1>8
  <2>2. o \notin destructed /\ Near(o, user)
    BY <2>1 DEF ObjectsInv, SentencesNear
  <2>3. o # ob
    BY <1>2, <1>4, <1>5, <2>1, SentencesLeft
  <2>4. super'[o] = super[o] /\ super'[user] = super[user]
    BY <1>8, <2>1, <2>3
  <2> QED
    BY <1>5, <2>2, <2>3, <2>4 DEF Near
<1> QED
  BY <1>7, <1>9, <1>11, <1>12, <1>13 DEF ObjectsInv

-----------------------------------------------------------------------------
(* The theorems.                                                           *)

(* Nobody is anywhere when the driver starts.                              *)
LEMMA ObjectsStart == Init => ObjectsInv
<1> SUFFICES ASSUME Init PROVE ObjectsInv
  OBVIOUS
<1> USE DEF Init
<1>1. <<>> \in Seq(Calls) /\ LeavingOf(<<>>) = {}
  BY DEF LeavingOf
<1>2. Typed
  BY <1>1 DEF Typed, Pointers
<1>3. TreeSound
  <2>1. IsInjective(<<>>) /\ ToSet(<<>>) = {}
    BY DEF IsInjective, ToSet
  <2> QED
    BY <2>1, ObjectsAssumption DEF TreeSound
<1>4. ChainsSound
  BY <1>1, ObjectsAssumption DEF ChainsSound, ShadowsSound, Ends
<1> QED
  BY <1>2, <1>3, <1>4 DEF ObjectsInv, Regular, SentencesNear

(* Every step keeps the invariant.                                         *)
LEMMA ObjectsStep ==
  ASSUME Careful, ObjectsInv, [Next]_vars
  PROVE  ObjectsInv'
<1>1. CASE UNCHANGED vars
  <2>1. NoneLeaves /\ restrict_destruct' \in Pointers
    BY <1>1 DEF vars, ObjectsInv, Typed, NoneLeaves
  <2> QED
    BY <1>1, <2>1, CallsMoveOn DEF vars, places, shadows, actions
<1>2. CASE Efun
  <2>1. ASSUME NEW being \in Beings, enable_commands(being) \/ disable_commands(being) PROVE ObjectsInv'
    BY <2>1, CommandStep, ObjectsAssumption
  <2>2. ASSUME NEW ob \in Objects, NEW being \in Beings, add_action(ob, being) PROVE ObjectsInv'
    BY <2>2, CommandStep, ObjectsAssumption
  <2>3. ASSUME NEW me \in Shadows, NEW ob \in Objects, f_shadow(me, ob) PROVE ObjectsInv'
    BY <2>3, AskStep
  <2>4. ASSUME NEW ob \in Objects, NEW dest \in Objects, move_object(ob, dest) PROVE ObjectsInv'
    BY <2>4, MoveStep
  <2>5. ASSUME NEW ob \in Objects, f_destruct(ob) PROVE ObjectsInv'
    BY <2>5, DestructLoopStep
  <2>6. ASSUME NEW ob \in Objects, say(ob) \/ tell_room(ob) \/ object_present(ob) PROVE ObjectsInv'
    BY <2>6, VisitStep
  <2>7. CASE LpcError
    BY <2>7, ErrorStep DEF LpcError
  <2> QED
    BY <1>2, <2>1, <2>2, <2>3, <2>4, <2>5, <2>6, <2>7 DEF Efun
<1>3. CASE Goes
  BY <1>3, AskStep, ShadowStep, WalkStep, ChainStep, DestructLoopStep, DestructEndStep, VisitStep DEF Goes
<1> QED
  BY <1>1, <1>2, <1>3 DEF Next

(* ObjectsInv is an invariant of move_object(), destruct_object()          *)
(* (simulate.c) and f_shadow() (efuns_main.c), whatever init(), move(),    *)
(* id() and valid_shadow() do to the lists and chains they work on, in a   *)
(* mudlib whose valid_shadow() approves only of a shadow that is still as  *)
(* validate_shadowing() found it, and of none that is being destructed     *)
(* (Careful).                                                              *)
THEOREM ObjectsInvariant == ASSUME Careful PROVE Spec => []ObjectsInv
<1>1. Init => ObjectsInv
  BY ObjectsStart
<1>2. ObjectsInv /\ [Next]_vars => ObjectsInv'
  BY ObjectsStep
<1> QED
  BY <1>1, <1>2, PTL DEF Spec

(* The inventories and environments of move_object() and                   *)
(* destruct_object() describe one forest without destructed objects, and   *)
(* the shadows form chains linked both ways and no circle, at every step,  *)
(* those of init(), move() and valid_shadow() in the middle of these and   *)
(* of f_shadow() included.                                                 *)
THEOREM TreesAlwaysSound == ASSUME Careful PROVE Spec => []TreesSound
<1>1. ObjectsInv => TreesSound
  <2> SUFFICES ASSUME ObjectsInv PROVE TreesSound
    OBVIOUS
  <2>1. stack \in Seq(Frames)
    <3>1. stack \in Seq(Calls) /\ Calls \subseteq Frames
      BY DEF ObjectsInv, Typed, Calls
    <3> QED
      BY <3>1
  <2>2. TypeOK
    BY <2>1 DEF ObjectsInv, Typed, TypeOK
  <2> QED
    BY <2>2 DEF ObjectsInv, ChainsSound, TreesSound
<1> QED
  BY <1>1, ObjectsInvariant, PTL

(* What remove_sent() removes where objects part is enough: no living      *)
(* object keeps a sentence of an object that is destructed or no longer    *)
(* near it, save the irregular cases SentencesNear names.                  *)
THEOREM SentencesAlwaysNear == ASSUME Careful PROVE Spec => []SentencesNear
<1>1. ObjectsInv => SentencesNear
  BY DEF ObjectsInv
<1> QED
  BY <1>1, ObjectsInvariant, PTL
=============================================================================
