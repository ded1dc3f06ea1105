------------------------ MODULE CallOutChainsProofs ------------------------
(***************************************************************************)
(* Proofs about the delta chains of CallOut, for every cycle size, chunk   *)
(* size, set of objects and delays.  A chain is read in two ways: by its   *)
(* deltas, as the code changes it, and by the laps of its entries, as the  *)
(* wheel of CallOutWheel counts them.  The first part shows what inserting *)
(* and unlinking do to the laps, the second what they do to the set of     *)
(* pending calls and to the number of places, the third that every         *)
(* operation of call_out.c keeps the invariant and is a step of the wheel. *)
(***************************************************************************)
EXTENDS CallOut, Lemmas, FiniteSetTheorems, SequenceTheorems, TLAPS

(* The function f sums up the deltas of the first n entries.               *)
LapsStep(chain, n, f) == f = [j \in 0..n |-> IF j = 0 THEN 0 ELSE f[j - 1] + chain[j].delta]

(* The deltas of any list can be summed up.                                *)
LEMMA SumsExist ==
  ASSUME NEW chain
  PROVE  \A n \in Nat : \E f : LapsStep(chain, n, f)
<1> DEFINE S == {n \in Nat : \E f : LapsStep(chain, n, f)}
<1>1. 0 \in S
  <2>1. LapsStep(chain, 0, [j \in 0..0 |-> 0])
    BY DEF LapsStep
  <2> QED
    BY <2>1
<1>2. ASSUME NEW n \in Nat, n \in S PROVE n + 1 \in S
  <2>1. PICK f : LapsStep(chain, n, f)
    BY <1>2
  <2> DEFINE g == [j \in 0..(n + 1) |-> IF j = n + 1 THEN f[n] + chain[n + 1].delta ELSE f[j]]
  <2>2. ASSUME NEW j \in 0..(n + 1)
        PROVE  g[j] = IF j = 0 THEN 0 ELSE g[j - 1] + chain[j].delta
    <3>1. CASE j = n + 1
      BY <3>1
    <3>2. CASE j \in 0..n
      <4>1. f[j] = IF j = 0 THEN 0 ELSE f[j - 1] + chain[j].delta
        BY <2>1, <3>2 DEF LapsStep
      <4>2. g[j] = f[j] /\ (j # 0 => g[j - 1] = f[j - 1])
        BY <3>2
      <4> QED
        BY <4>1, <4>2
    <3> QED
      BY <3>1, <3>2
  <2>3. LapsStep(chain, n + 1, g)
    BY <2>2 DEF LapsStep
  <2> HIDE DEF g
  <2> QED
    BY <2>3
<1> HIDE DEF S
<1>3. Nat \subseteq S
  BY <1>1, <1>2, NatInd
<1> QED
  BY <1>3 DEF S

(* The laps of an entry are such a sum: the function Laps defines exists.  *)
LEMMA LapsIs ==
  ASSUME NEW chain, NEW n \in Nat
  PROVE  \E f : LapsStep(chain, n, f) /\ Laps(chain, n) = f[n]
<1> DEFINE c == CHOOSE f : LapsStep(chain, n, f)
<1>1. LapsStep(chain, n, c)
  BY SumsExist, Zenon
<1>2. Laps(chain, n) = c[n]
  BY Zenon DEF Laps, LapsStep
<1> QED
  BY <1>1, <1>2, Zenon

(* Whatever adds up like the deltas of a chain are its laps.               *)
AddsUp(chain, n, L) == L[0] = 0 /\ \A j \in 1..n : L[j] = L[j - 1] + chain[j].delta

(* So a function that adds up the deltas gives the laps of every entry.    *)
LEMMA LapsAre ==
  ASSUME NEW chain, NEW n \in Nat, NEW L, AddsUp(chain, n, L)
  PROVE  \A i \in 0..n : Laps(chain, i) = L[i]
<1> USE DEF AddsUp
<1> SUFFICES ASSUME NEW i \in 0..n PROVE Laps(chain, i) = L[i]
  OBVIOUS
<1>1. i \in Nat
  OBVIOUS
<1>2. PICK f : LapsStep(chain, i, f) /\ Laps(chain, i) = f[i]
  BY <1>1, LapsIs
<1>3. \A j \in 0..i : f[j] = IF j = 0 THEN 0 ELSE f[j - 1] + chain[j].delta
  BY <1>2 DEF LapsStep
<1> DEFINE S == {j \in Nat : j <= i => f[j] = L[j]}
<1>4. 0 \in S
  BY <1>3
<1>5. ASSUME NEW j \in Nat, j \in S PROVE j + 1 \in S
  <2> SUFFICES ASSUME j + 1 <= i PROVE f[j + 1] = L[j + 1]
    OBVIOUS
  <2>1. f[j] = L[j]
    BY <1>5
  <2>2. f[j + 1] = f[j] + chain[j + 1].delta /\ L[j + 1] = L[j] + chain[j + 1].delta
    BY <1>3
  <2> QED
    BY <2>1, <2>2
<1> HIDE DEF S
<1>6. i \in S
  BY <1>1, <1>4, <1>5, NatInd
<1> QED
  BY <1>2, <1>6 DEF S

(* An entry of a chain (pending_call_t).                                   *)
Call == [handle: Nat, ob: Objects, fun: Funs, delta: Nat]

(* The entries of a chain and their fields.                                *)
LEMMA CallsOf ==
  ASSUME NEW c \in Seq(Call)
  PROVE  /\ Len(c) \in Nat /\ DOMAIN c = 1..Len(c)
         /\ \A i \in 1..Len(c) :
              /\ c[i] \in Call
              /\ c[i].handle \in Nat /\ c[i].ob \in Objects /\ c[i].fun \in Funs /\ c[i].delta \in Nat
<1>1. Len(c) \in Nat /\ DOMAIN c = 1..Len(c) /\ \A i \in 1..Len(c) : c[i] \in Call
  BY LenProperties, ElementOfSeq
<1>2. \A e \in Call : e.handle \in Nat /\ e.ob \in Objects /\ e.fun \in Funs /\ e.delta \in Nat
  BY DEF Call
<1> QED
  BY <1>1, <1>2

(* The laps along a chain: each entry waits its delta longer than the one  *)
(* before it, so none waits less.                                          *)
LEMMA LapsAlong ==
  ASSUME NEW c \in Seq(Call)
  PROVE  /\ Laps(c, 0) = 0
         /\ \A i \in 0..Len(c) : Laps(c, i) \in Nat
         /\ \A i \in 1..Len(c) : Laps(c, i) = Laps(c, i - 1) + c[i].delta
         /\ \A i, j \in 0..Len(c) : i <= j => Laps(c, i) <= Laps(c, j)
<1>1. Len(c) \in Nat /\ \A i \in 1..Len(c) : c[i].delta \in Nat
  BY CallsOf
<1>2. PICK f : LapsStep(c, Len(c), f)
  BY <1>1, SumsExist
<1>3. \A j \in 0..Len(c) : f[j] = IF j = 0 THEN 0 ELSE f[j - 1] + c[j].delta
  BY <1>2 DEF LapsStep
<1>4. f[0] = 0 /\ \A j \in 1..Len(c) : f[j] = f[j - 1] + c[j].delta
  BY <1>1, <1>3
<1>5. \A i \in 0..Len(c) : Laps(c, i) = f[i]
  <2> DEFINE n == Len(c)
  <2>1. n \in Nat /\ AddsUp(c, n, f)
    BY <1>1, <1>4 DEF AddsUp
  <2> HIDE DEF n
  <2>2. \A i \in 0..n : Laps(c, i) = f[i]
    BY <2>1, LapsAre
  <2> QED
    BY <2>2 DEF n
<1>6. Laps(c, 0) = 0 /\ \A i \in 1..Len(c) : Laps(c, i) = Laps(c, i - 1) + c[i].delta
  BY <1>1, <1>4, <1>5
<1> DEFINE S == {j \in Nat : j <= Len(c) =>
                   Laps(c, j) \in Nat /\ \A i \in 0..j : Laps(c, i) <= Laps(c, j)}
<1>7. 0 \in S
  BY <1>6
<1>8. ASSUME NEW j \in Nat, j \in S PROVE j + 1 \in S
  <2> SUFFICES ASSUME j + 1 <= Len(c)
               PROVE  Laps(c, j + 1) \in Nat /\ \A i \in 0..(j + 1) : Laps(c, i) <= Laps(c, j + 1)
    OBVIOUS
  <2>1. Laps(c, j) \in Nat /\ \A i \in 0..j : Laps(c, i) <= Laps(c, j)
    BY <1>1, <1>8
  <2>2. Laps(c, j + 1) = Laps(c, j) + c[j + 1].delta /\ c[j + 1].delta \in Nat
    BY <1>1, <1>6
  <2>3. \A i \in 0..j : Laps(c, i) \in Nat
    <3> SUFFICES ASSUME NEW i \in 0..j PROVE Laps(c, i) \in Nat
      OBVIOUS
    <3> DEFINE T == {k \in Nat : k <= Len(c) => Laps(c, k) \in Nat}
    <3>1. 0 \in T
      BY <1>6
    <3>2. ASSUME NEW k \in Nat, k \in T PROVE k + 1 \in T
      <4> SUFFICES ASSUME k + 1 <= Len(c) PROVE Laps(c, k + 1) \in Nat
        OBVIOUS
      <4>1. Laps(c, k) \in Nat /\ Laps(c, k + 1) = Laps(c, k) + c[k + 1].delta /\ c[k + 1].delta \in Nat
        BY <1>1, <1>6, <3>2
      <4> QED
        BY <4>1
    <3> HIDE DEF T
    <3>3. i \in T
      BY <3>1, <3>2, NatInd
    <3> QED
      BY <1>1, <3>3 DEF T
  <2> QED
    BY <2>1, <2>2, <2>3, SMTT(30)
<1> HIDE DEF S
<1>9. Nat \subseteq S
  BY <1>7, <1>8, NatInd
<1>10. \A j \in 0..Len(c) : j \in S
  BY <1>1, <1>9
<1> QED
  BY <1>1, <1>6, <1>10 DEF S

(* A chain given entry by entry.                                           *)
LEMMA ChainOf ==
  ASSUME NEW n \in Nat, NEW r \in [1..n -> Call]
  PROVE  r \in Seq(Call) /\ Len(r) = n
OBVIOUS

(* A call with another delta.                                              *)
LEMMA WithDelta ==
  ASSUME NEW e \in Call, NEW d \in Nat
  PROVE  LET x == [e EXCEPT !.delta = d]
         IN  /\ x \in Call /\ x.delta = d
             /\ x.handle = e.handle /\ x.ob = e.ob /\ x.fun = e.fun
BY DEF Call

(* The insertion loop stops at an entry, or at the end of the chain.       *)
LEMMA StopsThere ==
  ASSUME NEW c \in Seq(Call), NEW l \in Nat
  PROVE  /\ StopsAt(c, l) \in 1..(Len(c) + 1)
         /\ StopsAt(c, l) <= Len(c) => Laps(c, StopsAt(c, l)) >= l
         /\ \A j \in 1..(StopsAt(c, l) - 1) : Laps(c, j) < l
<1>1. Len(c) \in Nat /\ \A i \in 0..Len(c) : Laps(c, i) \in Nat
  BY CallsOf, LapsAlong
<1> DEFINE Stop == {i \in 1..(Len(c) + 1) : i <= Len(c) => Laps(c, i) >= l}
<1>2. Stop \subseteq Nat /\ Stop # {}
  <2>1. Len(c) + 1 \in Stop
    BY <1>1
  <2> QED
    BY <1>1, <2>1
<1> HIDE DEF Stop
<1>3. PICK i \in Stop : \A j \in Stop : i <= j
  BY <1>2, LeastNat
<1>4. \A j \in 1..(i - 1) : Laps(c, j) < l
  BY <1>1, <1>3, SMTT(30) DEF Stop
<1>5. i \in 1..(Len(c) + 1) /\ (i <= Len(c) => Laps(c, i) >= l)
  BY <1>3 DEF Stop
<1> QED
  BY <1>4, <1>5 DEF StopsAt

(* Two entries for the same call, wherever they stand.                     *)
SameCall(x, y) == x.handle = y.handle /\ x.ob = y.ob /\ x.fun = y.fun

(* The chain r is c with the call e at place p, waiting l laps.            *)
Inserted(c, e, l, r, p) ==
  /\ r \in Seq(Call) /\ Len(r) = Len(c) + 1
  /\ \A j \in 1..(p - 1) : SameCall(r[j], c[j]) /\ Laps(r, j) = Laps(c, j) /\ Laps(c, j) < l
  /\ SameCall(r[p], e) /\ Laps(r, p) = l
  /\ \A j \in (p + 1)..(Len(c) + 1) :
       SameCall(r[j], c[j - 1]) /\ Laps(r, j) = Laps(c, j - 1) /\ Laps(c, j - 1) >= l

(* Inserting puts the call before the first one that waits as long, with   *)
(* the laps asked for, and leaves the others their laps.                   *)
LEMMA InsertAt ==
  ASSUME NEW c \in Seq(Call), NEW e \in Call, NEW l \in Nat
  PROVE  \E p \in 1..(Len(c) + 1) : Inserted(c, e, l, Insert(c, e, l), p)
<1> DEFINE p == StopsAt(c, l)
           d == l - Laps(c, p - 1)
           n == Len(c) + 1
           r == Insert(c, e, l)
           L == [j \in 0..n |-> IF j < p THEN Laps(c, j) ELSE IF j = p THEN l ELSE Laps(c, j - 1)]
<1>1. /\ p \in 1..n /\ n \in Nat /\ Len(c) = n - 1
      /\ p <= Len(c) => Laps(c, p) >= l
      /\ \A j \in 1..(p - 1) : Laps(c, j) < l
  <2>1. Len(c) \in Nat
    BY CallsOf
  <2>2. /\ StopsAt(c, l) \in 1..(Len(c) + 1)
        /\ StopsAt(c, l) <= Len(c) => Laps(c, StopsAt(c, l)) >= l
        /\ \A j \in 1..(StopsAt(c, l) - 1) : Laps(c, j) < l
    BY StopsThere
  <2> QED
    BY <2>1, <2>2
<1>2. /\ Laps(c, 0) = 0
      /\ \A i \in 0..(n - 1) : Laps(c, i) \in Nat
      /\ \A i \in 1..(n - 1) : Laps(c, i) = Laps(c, i - 1) + c[i].delta
      /\ \A i, j \in 0..(n - 1) : i <= j => Laps(c, i) <= Laps(c, j)
      /\ \A i \in 1..(n - 1) : c[i] \in Call /\ c[i].delta \in Nat
  BY CallsOf, LapsAlong, <1>1
<1>3. r = [j \in 1..n |-> CASE j < p     -> c[j]
                            [] j = p     -> [e EXCEPT !.delta = d]
                            [] j = p + 1 -> [c[p] EXCEPT !.delta = @ - d]
                            [] OTHER     -> c[j - 1]]
  BY DEF Insert
<1>4. d \in Nat /\ (p <= n - 1 => c[p].delta - d \in Nat)
  <2> HIDE DEF p, n
  <2>1. Laps(c, p - 1) \in Nat /\ Laps(c, p - 1) <= l
    <3>1. p - 1 \in 0..(n - 1)
      BY <1>1
    <3>2. CASE p = 1
      BY <1>2, <3>1, <3>2
    <3>3. CASE p # 1
      BY <1>1, <1>2, <3>1, <3>3, SMTT(30)
    <3> QED
      BY <3>2, <3>3
  <2>2. p <= n - 1 => c[p].delta \in Nat /\ Laps(c, p) = Laps(c, p - 1) + c[p].delta /\ Laps(c, p) >= l
    BY <1>1, <1>2
  <2> QED
    BY <2>1, <2>2
<1> HIDE DEF p, d, n, r
<1>5. /\ r[p] = [e EXCEPT !.delta = d]
      /\ \A j \in 1..(p - 1) : r[j] = c[j]
      /\ p + 1 <= n => r[p + 1] = [c[p] EXCEPT !.delta = @ - d]
      /\ \A j \in (p + 2)..n : r[j] = c[j - 1]
  BY <1>1, <1>3
<1>6. /\ r[p] \in Call /\ SameCall(r[p], e) /\ r[p].delta = d
      /\ p + 1 <= n => r[p + 1] \in Call /\ SameCall(r[p + 1], c[p]) /\ r[p + 1].delta = c[p].delta - d
  <2>1. r[p] \in Call /\ SameCall(r[p], e) /\ r[p].delta = d
    BY <1>4, <1>5, WithDelta DEF SameCall
  <2>2. ASSUME p + 1 <= n
        PROVE  r[p + 1] \in Call /\ SameCall(r[p + 1], c[p]) /\ r[p + 1].delta = c[p].delta - d
    <3>1. c[p] \in Call /\ c[p].delta - d \in Nat /\ r[p + 1] = [c[p] EXCEPT !.delta = c[p].delta - d]
      BY <1>1, <1>2, <1>4, <1>5, <2>2
    <3> QED
      BY <3>1, WithDelta DEF SameCall
  <2> QED
    BY <2>1, <2>2
<1>7. ASSUME NEW j \in 1..n PROVE r[j] \in Call
  <2>1. CASE j < p
    <3>1. j \in 1..(n - 1) /\ r[j] = c[j]
      BY <1>1, <1>5, <2>1
    <3> QED
      BY <1>2, <3>1
  <2>2. CASE j = p \/ j = p + 1
    BY <1>1, <1>6, <2>2
  <2>3. CASE j > p + 1
    <3>1. j - 1 \in 1..(n - 1) /\ r[j] = c[j - 1]
      BY <1>1, <1>5, <2>3
    <3> QED
      BY <1>2, <3>1
  <2> QED
    BY <1>1, <2>1, <2>2, <2>3
<1>8. r \in Seq(Call) /\ Len(r) = n
  <2>1. r \in [1..n -> Call]
    BY <1>3, <1>7
  <2> QED
    BY <1>1, <2>1, ChainOf
<1>9. AddsUp(r, n, L)
  <2>1. L[0] = 0
    BY <1>1, <1>2
  <2>2. ASSUME NEW j \in 1..n PROVE L[j] = L[j - 1] + r[j].delta
    <3>1. CASE j < p
      BY <1>1, <1>2, <1>5, <3>1, SMTT(30)
    <3>2. CASE j = p
      <4>1. L[j] = l /\ L[j - 1] = Laps(c, p - 1) /\ r[j].delta = d
        BY <1>1, <1>6, <3>2
      <4>2. p - 1 \in 0..(n - 1)
        BY <1>1
      <4>3. Laps(c, p - 1) \in Nat
        BY <1>2, <4>2
      <4> QED
        BY <4>1, <4>3 DEF d
    <3>3. CASE j = p + 1
      <4>1. L[j] = Laps(c, p) /\ L[j - 1] = l /\ r[j].delta = c[p].delta - d
        BY <1>1, <1>6, <3>3
      <4>2. Laps(c, p) = Laps(c, p - 1) + c[p].delta /\ Laps(c, p - 1) \in Nat /\ c[p].delta \in Nat
        BY <1>1, <1>2, <3>3
      <4> QED
        BY <4>1, <4>2 DEF d
    <3>4. CASE j > p + 1
      <4>1. L[j] = Laps(c, j - 1) /\ L[j - 1] = Laps(c, j - 2) /\ r[j] = c[j - 1]
        BY <1>1, <1>5, <3>4
      <4>2. j - 1 \in 1..(n - 1)
        BY <1>1, <3>4
      <4>3. Laps(c, j - 1) = Laps(c, j - 1 - 1) + c[j - 1].delta
        BY <1>2, <4>2
      <4> QED
        BY <1>1, <4>1, <4>3
    <3> QED
      BY <1>1, <3>1, <3>2, <3>3, <3>4
  <2> QED
    BY <2>1, <2>2 DEF AddsUp
<1> HIDE DEF L
<1>10. \A j \in 0..n : Laps(r, j) = L[j]
  BY <1>1, <1>9, LapsAre
<1>11. \A j \in 1..(p - 1) : SameCall(r[j], c[j]) /\ Laps(r, j) = Laps(c, j) /\ Laps(c, j) < l
  BY <1>1, <1>5, <1>10, SMTT(30) DEF L, SameCall
<1>12. SameCall(r[p], e) /\ Laps(r, p) = l
  BY <1>1, <1>6, <1>10 DEF L
<1>13. ASSUME NEW j \in (p + 1)..n
       PROVE  SameCall(r[j], c[j - 1]) /\ Laps(r, j) = Laps(c, j - 1) /\ Laps(c, j - 1) >= l
  <2>1. SameCall(r[j], c[j - 1])
    BY <1>1, <1>5, <1>6, SMTT(30) DEF SameCall
  <2>2. Laps(r, j) = Laps(c, j - 1)
    BY <1>1, <1>10 DEF L
  <2>3. p \in 0..(n - 1) /\ j - 1 \in 0..(n - 1) /\ p <= j - 1
    BY <1>1
  <2>4. Laps(c, p) <= Laps(c, j - 1) /\ Laps(c, p) >= l /\ Laps(c, p) \in Nat /\ Laps(c, j - 1) \in Nat
    BY <1>1, <1>2, <2>3
  <2> QED
    BY <2>1, <2>2, <2>4
<1> QED
  BY <1>1, <1>8, <1>11, <1>12, <1>13 DEF r, n, Inserted

(* The chain r holds the calls at the positions K of c, in the same order  *)
(* and with the laps they had there.                                       *)
Keeps(c, K, r) ==
  /\ r \in Seq(Call)
  /\ \E at \in [1..Len(r) -> K] :
       /\ \A m, n \in 1..Len(r) : m < n => at[m] < at[n]
       /\ \A i \in K : \E n \in 1..Len(r) : at[n] = i
       /\ \A n \in 1..Len(r) : SameCall(r[n], c[at[n]]) /\ Laps(r, n) = Laps(c, at[n])

(* Unlinking one entry keeps the others.                                   *)
LEMMA UnlinkKeeps ==
  ASSUME NEW c \in Seq(Call), NEW i \in 1..Len(c)
  PROVE  Len(Unlink(c, i)) = Len(c) - 1 /\ Keeps(c, (1..Len(c)) \ {i}, Unlink(c, i))
<1> DEFINE n == Len(c)
           r == Unlink(c, i)
           L == [j \in 0..(n - 1) |-> IF j < i THEN Laps(c, j) ELSE Laps(c, j + 1)]
           at == [j \in 1..(n - 1) |-> IF j < i THEN j ELSE j + 1]
<1>1. /\ n \in Nat /\ i \in 1..n /\ n - 1 \in Nat
      /\ \A j \in 1..n : c[j] \in Call /\ c[j].delta \in Nat
      /\ Laps(c, 0) = 0
      /\ \A j \in 0..n : Laps(c, j) \in Nat
      /\ \A j \in 1..n : Laps(c, j) = Laps(c, j - 1) + c[j].delta
  BY CallsOf, LapsAlong
<1>2. r = [j \in 1..(n - 1) |->
             CASE j < i -> c[j]
               [] j = i -> [c[i + 1] EXCEPT !.delta = @ + c[i].delta]
               [] OTHER -> c[j + 1]]
  BY DEF Unlink
<1> HIDE DEF n, r
<1>14. \A j \in 1..(n - 1) : c[j] \in Call /\ c[j + 1] \in Call /\ c[j + 1].delta \in Nat
  <2> SUFFICES ASSUME NEW j \in 1..(n - 1)
               PROVE  c[j] \in Call /\ c[j + 1] \in Call /\ c[j + 1].delta \in Nat
    OBVIOUS
  <2>1. PICK k \in 1..n : k = j + 1
    BY <1>1
  <2>2. c[k] \in Call /\ c[k].delta \in Nat
    BY <1>1
  <2>3. j \in 1..n
    BY <1>1
  <2> QED
    BY <1>1, <2>1, <2>2, <2>3
<1>3. /\ \A j \in 1..(n - 1) : j < i => r[j] = c[j]
      /\ i <= n - 1 => r[i] = [c[i + 1] EXCEPT !.delta = c[i + 1].delta + c[i].delta]
      /\ \A j \in 1..(n - 1) : j > i => r[j] = c[j + 1]
  BY <1>1, <1>2
<1>4. ASSUME i <= n - 1
      PROVE  r[i] \in Call /\ SameCall(r[i], c[i + 1]) /\ r[i].delta = c[i + 1].delta + c[i].delta
  <2> DEFINE x == c[i + 1]
             d == x.delta + c[i].delta
  <2>1. i \in 1..(n - 1) /\ c[i].delta \in Nat
    BY <1>1, <1>4
  <2>2. x \in Call /\ x.delta \in Nat /\ d \in Nat
    BY <1>14, <2>1
  <2>3. r[i] = [x EXCEPT !.delta = d]
    BY <1>3, <1>4
  <2> HIDE DEF x, d
  <2>4. r[i] \in Call /\ SameCall(r[i], x) /\ r[i].delta = d
    BY <2>2, <2>3, WithDelta DEF SameCall
  <2> QED
    BY <2>4 DEF x, d
<1>5. ASSUME NEW j \in 1..(n - 1) PROVE r[j] \in Call
  <2>1. CASE j < i
    BY <1>14, <1>3, <2>1
  <2>2. CASE j = i
    BY <1>1, <1>4, <2>2
  <2>3. CASE j > i
    BY <1>14, <1>3, <2>3
  <2> QED
    BY <1>1, <2>1, <2>2, <2>3
<1>6. r \in Seq(Call) /\ Len(r) = n - 1
  <2>1. r \in [1..(n - 1) -> Call]
    BY <1>2, <1>5
  <2> QED
    BY <1>1, <2>1, ChainOf
<1>7. AddsUp(r, n - 1, L)
  <2>1. L[0] = 0
    BY <1>1
  <2>2. ASSUME NEW j \in 1..(n - 1) PROVE L[j] = L[j - 1] + r[j].delta
    <3>1. CASE j < i
      BY <1>1, <1>3, <3>1, SMTT(30)
    <3>2. CASE j = i
      <4>1. L[j] = Laps(c, i + 1) /\ L[j - 1] = Laps(c, i - 1) /\ r[j].delta = c[i + 1].delta + c[i].delta
        BY <1>1, <1>4, <3>2
      <4>2. Laps(c, i + 1) = Laps(c, i) + c[i + 1].delta /\ Laps(c, i) = Laps(c, i - 1) + c[i].delta
        <5>1. i \in 1..n /\ i + 1 \in 1..n /\ i + 1 - 1 = i
          BY <1>1, <3>2
        <5>2. \A k \in 1..n : Laps(c, k) = Laps(c, k - 1) + c[k].delta
          BY <1>1
        <5>3. Laps(c, i + 1) = Laps(c, i + 1 - 1) + c[i + 1].delta /\ Laps(c, i) = Laps(c, i - 1) + c[i].delta
          BY <5>1, <5>2
        <5> QED
          BY <5>1, <5>3
      <4>3. Laps(c, i - 1) \in Nat /\ c[i].delta \in Nat /\ c[i + 1].delta \in Nat
        BY <1>1, <3>2, SMTT(30)
      <4> QED
        BY <4>1, <4>2, <4>3
    <3>3. CASE j > i
      <4>1. L[j] = Laps(c, j + 1) /\ L[j - 1] = Laps(c, j) /\ r[j] = c[j + 1]
        BY <1>1, <1>3, <3>3
      <4>2. j + 1 \in 1..n /\ j + 1 - 1 = j
        BY <1>1, SMTT(30)
      <4>3. \A k \in 1..n : Laps(c, k) = Laps(c, k - 1) + c[k].delta
        BY <1>1
      <4>4. Laps(c, j + 1) = Laps(c, j + 1 - 1) + c[j + 1].delta
        BY <4>2, <4>3
      <4> QED
        BY <4>1, <4>2, <4>4
    <3> QED
      BY <1>1, <3>1, <3>2, <3>3
  <2> QED
    BY <2>1, <2>2 DEF AddsUp
<1>8. \A j \in 0..(n - 1) : Laps(r, j) = L[j]
  <2> HIDE DEF L
  <2> QED
    BY <1>1, <1>7, LapsAre
<1>9. at \in [1..(n - 1) -> (1..n) \ {i}]
  BY <1>1
<1>10. \A m, k \in 1..(n - 1) : m < k => at[m] < at[k]
  BY <1>1
<1>13. ASSUME NEW k \in 1..(n - 1)
       PROVE  SameCall(r[k], c[at[k]]) /\ Laps(r, k) = Laps(c, at[k])
  <2>1. at[k] = (IF k < i THEN k ELSE k + 1) /\ Laps(r, k) = (IF k < i THEN Laps(c, k) ELSE Laps(c, k + 1))
    BY <1>1, <1>8
  <2> HIDE DEF at
  <2>2. CASE k < i
    BY <1>3, <2>1, <2>2 DEF SameCall
  <2>3. CASE k = i
    BY <1>1, <1>4, <2>1, <2>3
  <2>4. CASE k > i
    BY <1>1, <1>3, <2>1, <2>4 DEF SameCall
  <2> QED
    BY <1>1, <2>2, <2>3, <2>4
<1>11. ASSUME NEW j \in (1..n) \ {i} PROVE \E k \in 1..(n - 1) : at[k] = j
  <2>1. CASE j < i
    <3>1. j \in 1..(n - 1) /\ at[j] = j
      BY <1>1, <2>1
    <3> QED
      BY <3>1
  <2>2. CASE j > i
    <3>1. j - 1 \in 1..(n - 1) /\ at[j - 1] = j
      BY <1>1, <2>2
    <3> QED
      BY <3>1
  <2> QED
    BY <1>1, <2>1, <2>2
<1> HIDE DEF at
<1>12. Keeps(c, (1..n) \ {i}, r)
  BY <1>6, <1>9, <1>10, <1>13, <1>11 DEF Keeps
<1> QED
  BY <1>6, <1>12 DEF n, r

(* Taking off the first entry, due now, keeps the others.                  *)
LEMMA TailKeeps ==
  ASSUME NEW c \in Seq(Call), c # <<>>, c[1].delta = 0
  PROVE  /\ Len(c) \in Nat \ {0} /\ Len(Tail(c)) = Len(c) - 1
         /\ Keeps(c, (1..Len(c)) \ {1}, Tail(c))
<1>1. Len(c) \in Nat \ {0} /\ 1 \in 1..Len(c)
  BY EmptySeq, LenProperties
<1>2. Tail(c) \in Seq(Call) /\ Len(Tail(c)) = Len(c) - 1 /\ \A j \in 1..(Len(c) - 1) : Tail(c)[j] = c[j + 1]
  BY HeadTailProperties
<1>3. \A j \in 1..Len(c) : c[j] \in Call /\ c[j].delta \in Nat
  BY CallsOf
<1> DEFINE r == Unlink(c, 1)
<1>4. r = [j \in 1..(Len(c) - 1) |->
             CASE j < 1 -> c[j]
               [] j = 1 -> [c[1 + 1] EXCEPT !.delta = @ + c[1].delta]
               [] OTHER -> c[j + 1]]
  BY DEF Unlink
<1>5. ASSUME NEW j \in 1..(Len(c) - 1) PROVE r[j] = c[j + 1]
  <2>1. CASE j = 1
    <3>1. r[j] = [c[2] EXCEPT !.delta = c[2].delta + 0]
      BY <1>4, <2>1
    <3>2. c[2] \in Call /\ c[2].delta \in Nat
      BY <1>3, <2>1
    <3>3. c[2].delta + 0 = c[2].delta
      BY <3>2
    <3>4. [c[2] EXCEPT !.delta = c[2].delta] = c[2]
      BY <3>2 DEF Call
    <3> QED
      BY <2>1, <3>1, <3>3, <3>4
  <2>2. CASE j # 1
    BY <1>4, <2>2
  <2> QED
    BY <2>1, <2>2
<1>6. DOMAIN r = 1..(Len(c) - 1) /\ DOMAIN Tail(c) = 1..(Len(c) - 1)
  BY <1>2, <1>4, LenProperties
<1>7. Tail(c) = r
  BY <1>1, <1>2, <1>4, <1>5, <1>6
<1> QED
  BY <1>1, <1>2, <1>7, UnlinkKeeps

(* A sequence that lists a set of positions in increasing order.           *)
Lists(at, k, K) ==
  /\ at \in [1..k -> K]
  /\ \A m, n \in 1..k : m < n => at[m] < at[n]
  /\ \A i \in K : \E n \in 1..k : at[n] = i

(* Every set of positions of a chain can be listed.                        *)
LEMMA CanBeListed ==
  \A n \in Nat : \A K \in SUBSET (1..n) : \E k \in Nat : \E at : Lists(at, k, K)
<1> DEFINE S == {n \in Nat : \A K \in SUBSET (1..n) : \E k \in Nat : \E at : Lists(at, k, K)}
<1>1. 0 \in S
  <2> SUFFICES ASSUME NEW K \in SUBSET (1..0) PROVE \E k \in Nat : \E at : Lists(at, k, K)
    OBVIOUS
  <2>1. Lists([m \in 1..0 |-> m], 0, K)
    BY DEF Lists
  <2> QED
    BY <2>1
<1>2. ASSUME NEW n \in Nat, n \in S PROVE n + 1 \in S
  <2> SUFFICES ASSUME NEW K \in SUBSET (1..(n + 1)) PROVE \E k \in Nat : \E at : Lists(at, k, K)
    BY <1>2
  <2>1. PICK J \in SUBSET (1..n) : J = K \ {n + 1}
    <3>1. K \ {n + 1} \in SUBSET (1..n)
      OBVIOUS
    <3> QED
      BY <3>1
  <2>2. PICK k \in Nat : \E at : Lists(at, k, J)
    BY <1>2
  <2>3. PICK at : Lists(at, k, J)
    BY <2>2
  <2>4. CASE n + 1 \notin K
    <3>1. J = K
      BY <2>1, <2>4
    <3> QED
      BY <2>3, <3>1
  <2>5. CASE n + 1 \in K
    <3> DEFINE more == [m \in 1..(k + 1) |-> IF m = k + 1 THEN n + 1 ELSE at[m]]
    <3>1. \A m \in 1..k : at[m] \in J /\ at[m] \in K /\ at[m] \in 1..n
      BY <2>1, <2>3 DEF Lists
    <3>2. more[k + 1] = n + 1 /\ \A m \in 1..k : more[m] = at[m]
      OBVIOUS
    <3>3. \A m \in 1..(k + 1) : m \in 1..k \/ m = k + 1
      OBVIOUS
    <3>4. more \in [1..(k + 1) -> K]
      BY <2>5, <3>1, <3>3
    <3> HIDE DEF more
    <3>5. ASSUME NEW m \in 1..(k + 1), NEW j \in 1..(k + 1), m < j PROVE more[m] < more[j]
      <4>1. m \in 1..k
        BY <3>5
      <4>2. CASE j = k + 1
        BY <3>1, <3>2, <4>1, <4>2
      <4>3. CASE j \in 1..k
        BY <2>3, <3>2, <3>5, <4>1, <4>3 DEF Lists
      <4> QED
        BY <3>3, <4>2, <4>3
    <3>6. ASSUME NEW i \in K PROVE \E m \in 1..(k + 1) : more[m] = i
      <4>1. CASE i = n + 1
        <5>1. k + 1 \in 1..(k + 1)
          OBVIOUS
        <5> QED
          BY <3>2, <4>1, <5>1
      <4>2. CASE i # n + 1
        <5>1. PICK m \in 1..k : at[m] = i
          BY <2>1, <2>3, <4>2 DEF Lists
        <5>2. m \in 1..(k + 1)
          OBVIOUS
        <5> QED
          BY <3>2, <5>1, <5>2
      <4> QED
        BY <4>1, <4>2
    <3>7. Lists(more, k + 1, K) /\ k + 1 \in Nat
      BY <3>4, <3>5, <3>6 DEF Lists
    <3> QED
      BY <3>7
  <2> QED
    BY <2>4, <2>5
<1> HIDE DEF S
<1>3. Nat \subseteq S
  BY <1>1, <1>2, NatInd
<1> QED
  BY <1>3 DEF S

(* InOrder lists the positions.                                            *)
LEMMA InOrderLists ==
  ASSUME NEW n \in Nat, NEW K \in SUBSET (1..n)
  PROVE  Cardinality(K) \in Nat /\ Lists(InOrder(K), Cardinality(K), K)
<1>1. PICK k \in Nat : \E at : Lists(at, k, K)
  BY CanBeListed
<1>2. PICK at : Lists(at, k, K)
  BY <1>1
<1>3. at \in Bijection(1..k, K)
  <2>1. at \in [1..k -> K] /\ \A m \in 1..k : at[m] \in 1..n
    BY <1>2 DEF Lists
  <2>2. \A a, b \in 1..k : at[a] = at[b] => a = b
    <3> SUFFICES ASSUME NEW a \in 1..k, NEW b \in 1..k, at[a] = at[b], a # b PROVE FALSE
      OBVIOUS
    <3>1. a < b \/ b < a
      OBVIOUS
    <3>2. at[a] < at[b] \/ at[b] < at[a]
      BY <1>2, <3>1 DEF Lists
    <3> QED
      BY <2>1, <3>2
  <2>3. \A i \in K : \E m \in 1..k : at[m] = i
    BY <1>2 DEF Lists
  <2> QED
    BY <2>1, <2>2, <2>3 DEF Bijection, Injection, Surjection, IsInjective
<1>4. IsFiniteSet(1..k) /\ Cardinality(1..k) = k
  BY FS_Interval
<1>5. Cardinality(K) = k
  <2>1. ExistsBijection(1..k, K)
    BY <1>3 DEF ExistsBijection
  <2> QED
    BY <1>4, <2>1, FS_Bijection
<1>6. \E a \in [1..Cardinality(K) -> K] :
        /\ \A x, y \in DOMAIN a : x < y => a[x] < a[y]
        /\ \A i \in K : \E x \in DOMAIN a : a[x] = i
  BY <1>2, <1>5 DEF Lists
<1>7. /\ InOrder(K) \in [1..Cardinality(K) -> K]
      /\ \A x, y \in DOMAIN InOrder(K) : x < y => InOrder(K)[x] < InOrder(K)[y]
      /\ \A i \in K : \E x \in DOMAIN InOrder(K) : InOrder(K)[x] = i
  BY <1>6, Zenon DEF InOrder
<1>8. DOMAIN InOrder(K) = 1..Cardinality(K)
  BY <1>7
<1> QED
  BY <1>1, <1>5, <1>7, <1>8 DEF Lists

(* Unlinking all entries but some keeps those.                             *)
LEMMA UnlinkAllKeeps ==
  ASSUME NEW c \in Seq(Call), NEW K \in SUBSET (1..Len(c))
  PROVE  /\ Cardinality(K) \in Nat /\ Len(UnlinkAllBut(c, K)) = Cardinality(K)
         /\ Keeps(c, K, UnlinkAllBut(c, K))
<1> DEFINE n == Len(c)
           k == Cardinality(K)
           at == InOrder(K)
           r == UnlinkAllBut(c, K)
           L == [j \in 0..k |-> IF j = 0 THEN 0 ELSE Laps(c, at[j])]
<1>1. n \in Nat /\ K \in SUBSET (1..n)
  BY CallsOf
<1>2. k \in Nat /\ Lists(at, k, K)
  BY <1>1, InOrderLists
<1>3. /\ \A j \in 1..n : c[j] \in Call
      /\ \A j \in 0..n : Laps(c, j) \in Nat
      /\ \A i, j \in 0..n : i <= j => Laps(c, i) <= Laps(c, j)
  BY CallsOf, LapsAlong
<1>4. r = [j \in 1..k |-> [c[at[j]] EXCEPT !.delta =
             (IF j = 0 THEN 0 ELSE Laps(c, at[j])) - (IF j - 1 = 0 THEN 0 ELSE Laps(c, at[j - 1]))]]
  BY DEF UnlinkAllBut
<1> HIDE DEF n, k, at, r
<1>5. \A j \in 1..k : at[j] \in K /\ at[j] \in 1..n
  BY <1>1, <1>2 DEF Lists
<1>6. L[0] = 0 /\ \A j \in 1..k : L[j] = Laps(c, at[j])
  BY <1>2
<1>7. ASSUME NEW j \in 1..k
      PROVE  L[j] - L[j - 1] \in Nat /\ L[j] \in Nat /\ L[j - 1] \in Nat
  <2>1. L[j] \in Nat /\ L[j] = Laps(c, at[j])
    BY <1>3, <1>5, <1>6
  <2>2. CASE j = 1
    BY <1>6, <2>1, <2>2
  <2>3. CASE j # 1
    <3>1. j - 1 \in 1..k /\ j - 1 < j
      BY <1>2, <2>3
    <3>2. at[j - 1] < at[j] /\ at[j - 1] \in 1..n /\ at[j] \in 1..n
      BY <1>2, <1>5, <3>1 DEF Lists
    <3>3. L[j - 1] = Laps(c, at[j - 1]) /\ L[j - 1] \in Nat /\ L[j - 1] <= L[j]
      BY <1>1, <1>3, <1>6, <2>1, <3>1, <3>2
    <3> QED
      BY <2>1, <3>3
  <2> QED
    BY <2>2, <2>3
<1>8. ASSUME NEW j \in 1..k
      PROVE  r[j] \in Call /\ SameCall(r[j], c[at[j]]) /\ r[j].delta = L[j] - L[j - 1]
  <2> DEFINE x == c[at[j]]
             d == L[j] - L[j - 1]
  <2>1. x \in Call /\ d \in Nat
    BY <1>3, <1>5, <1>7
  <2>2. L[j - 1] = IF j - 1 = 0 THEN 0 ELSE Laps(c, at[j - 1])
    BY <1>2
  <2>3. r[j] = [x EXCEPT !.delta = d]
    BY <1>4, <1>6, <2>2
  <2> HIDE DEF x, d
  <2>4. r[j] \in Call /\ SameCall(r[j], x) /\ r[j].delta = d
    BY <2>1, <2>3, WithDelta DEF SameCall
  <2> QED
    BY <2>4 DEF x, d
<1>9. r \in Seq(Call) /\ Len(r) = k
  <2>1. r \in [1..k -> Call]
    BY <1>4, <1>8
  <2> QED
    BY <1>2, <2>1, ChainOf
<1>10. AddsUp(r, k, L)
  <2> HIDE DEF L
  <2> QED
    BY <1>6, <1>7, <1>8 DEF AddsUp
<1> HIDE DEF L
<1>11. \A j \in 0..k : Laps(r, j) = L[j]
  BY <1>2, <1>10, LapsAre
<1>12. \A j \in 1..k : Laps(r, j) = Laps(c, at[j])
  BY <1>2, <1>6, <1>11
<1>13. Keeps(c, K, r)
  BY <1>2, <1>8, <1>9, <1>12 DEF Keeps, Lists
<1> QED
  BY <1>2, <1>9, <1>13 DEF r, k

(* A visit takes a lap off every entry of the chain, by its head.          *)
LEMMA VisitTakesLap ==
  ASSUME NEW c \in Seq(Call), c # <<>>, c[1].delta >= 1
  PROVE  LET r == [c EXCEPT ![1].delta = @ - 1]
         IN  /\ r \in Seq(Call) /\ Len(r) = Len(c)
             /\ r[1].delta = c[1].delta - 1
             /\ \A j \in 1..Len(c) : SameCall(r[j], c[j]) /\ Laps(r, j) = Laps(c, j) - 1
<1> DEFINE r == [c EXCEPT ![1].delta = @ - 1]
           n == Len(c)
           L == [j \in 0..n |-> IF j = 0 THEN 0 ELSE Laps(c, j) - 1]
<1>1. n \in Nat \ {0} /\ 1 \in 1..n /\ DOMAIN c = 1..n
  BY EmptySeq, LenProperties
<1>2. /\ \A j \in 1..n : c[j] \in Call /\ c[j].delta \in Nat
      /\ Laps(c, 0) = 0
      /\ \A j \in 0..n : Laps(c, j) \in Nat
      /\ \A j \in 1..n : Laps(c, j) = Laps(c, j - 1) + c[j].delta
  BY CallsOf, LapsAlong
<1>3. r = [j \in 1..n |-> IF j = 1 THEN [c[1] EXCEPT !.delta = c[1].delta - 1] ELSE c[j]]
  BY <1>1
<1> HIDE DEF r, n
<1>4. r[1] \in Call /\ SameCall(r[1], c[1]) /\ r[1].delta = c[1].delta - 1
  <2>1. c[1] \in Call /\ c[1].delta - 1 \in Nat /\ r[1] = [c[1] EXCEPT !.delta = c[1].delta - 1]
    BY <1>1, <1>2, <1>3
  <2> QED
    BY <2>1, WithDelta DEF SameCall
<1>5. \A j \in 1..n : j # 1 => r[j] = c[j]
  BY <1>3
<1>6. \A j \in 1..n : r[j] \in Call /\ SameCall(r[j], c[j])
  BY <1>2, <1>4, <1>5 DEF SameCall
<1>7. r \in Seq(Call) /\ Len(r) = n
  <2>1. r \in [1..n -> Call]
    BY <1>3, <1>6
  <2> QED
    BY <1>1, <2>1, ChainOf
<1>8. AddsUp(r, n, L)
  <2>1. L[0] = 0
    BY <1>1
  <2>2. ASSUME NEW j \in 1..n PROVE L[j] = L[j - 1] + r[j].delta
    <3>1. CASE j = 1
      BY <1>1, <1>2, <1>4, <3>1
    <3>2. CASE j # 1
      <4>1. L[j] = Laps(c, j) - 1 /\ L[j - 1] = Laps(c, j - 1) - 1 /\ r[j] = c[j]
        BY <1>1, <1>5, <3>2
      <4>2. Laps(c, j) = Laps(c, j - 1) + c[j].delta /\ Laps(c, j - 1) \in Nat /\ c[j].delta \in Nat
        BY <1>1, <1>2
      <4> QED
        BY <4>1, <4>2, SMTT(30)
    <3> QED
      BY <3>1, <3>2
  <2> QED
    BY <2>1, <2>2 DEF AddsUp
<1>9. \A j \in 0..n : Laps(r, j) = L[j]
  <2> HIDE DEF L
  <2> QED
    BY <1>1, <1>8, LapsAre
<1>10. \A j \in 1..n : Laps(r, j) = Laps(c, j) - 1
  BY <1>1, <1>9
<1> QED
  BY <1>4, <1>6, <1>7, <1>10 DEF r, n
-----------------------------------------------------------------------------
(* What new_call_out() counts the call as.                                 *)
IdOf(e) == e.handle \div CYCLE

(* A chain as it should be: its calls belong to the slot, carry numbers    *)
(* given out, each another one, and of those due together the newest is    *)
(* first.                                                                  *)
GoodChain(c, s, u) ==
  /\ c \in Seq(Call)
  /\ \A i \in 1..Len(c) : c[i].handle % CYCLE = s /\ IdOf(c[i]) \in 1..u
  /\ \A i, j \in 1..Len(c) : IdOf(c[i]) = IdOf(c[j]) => i = j
  /\ \A i, j \in 1..Len(c) : i < j /\ Laps(c, i) = Laps(c, j) => IdOf(c[i]) > IdOf(c[j])

(* What is kept of a good chain is good.                                   *)
LEMMA KeepsGood ==
  ASSUME NEW c, NEW r, NEW s, NEW u \in Nat, NEW K \in SUBSET (1..Len(c)),
         GoodChain(c, s, u), Keeps(c, K, r)
  PROVE  GoodChain(r, s, u)
<1>1. PICK at \in [1..Len(r) -> K] :
       /\ \A m, n \in 1..Len(r) : m < n => at[m] < at[n]
       /\ \A i \in K : \E n \in 1..Len(r) : at[n] = i
       /\ \A n \in 1..Len(r) : SameCall(r[n], c[at[n]]) /\ Laps(r, n) = Laps(c, at[n])
  BY DEF Keeps
<1>2. r \in Seq(Call) /\ Len(r) \in Nat /\ Len(c) \in Nat
  BY CallsOf DEF Keeps, GoodChain
<1>3. \A n \in 1..Len(r) : at[n] \in 1..Len(c) /\ r[n].handle = c[at[n]].handle /\ IdOf(r[n]) = IdOf(c[at[n]])
  BY <1>1 DEF SameCall, IdOf
<1>4. \A n \in 1..Len(r) : r[n].handle % CYCLE = s /\ IdOf(r[n]) \in 1..u
  BY <1>3 DEF GoodChain
<1>5. ASSUME NEW i \in 1..Len(r), NEW j \in 1..Len(r), IdOf(r[i]) = IdOf(r[j]) PROVE i = j
  <2>1. at[i] = at[j]
    BY <1>3, <1>5 DEF GoodChain
  <2>2. ~(i < j) /\ ~(j < i)
    BY <1>1, <1>2, <1>3, <2>1
  <2> QED
    BY <1>2, <2>2
<1>6. ASSUME NEW i \in 1..Len(r), NEW j \in 1..Len(r), i < j, Laps(r, i) = Laps(r, j)
      PROVE  IdOf(r[i]) > IdOf(r[j])
  <2>1. at[i] < at[j] /\ Laps(c, at[i]) = Laps(c, at[j])
    BY <1>1, <1>6
  <2> QED
    BY <1>3, <2>1 DEF GoodChain
<1> QED
  BY <1>2, <1>4, <1>5, <1>6 DEF GoodChain

(* A chain stays good while calls are started elsewhere.                   *)
LEMMA GoodLater ==
  ASSUME NEW c, NEW s, NEW u \in Nat, GoodChain(c, s, u)
  PROVE  GoodChain(c, s, u + 1)
BY DEF GoodChain

(* The number and the slot are read off the handle new_call_out() makes.   *)
LEMMA HandleRead ==
  ASSUME NEW s \in Slots, NEW u \in Nat, NEW h, h = s + CYCLE * (u + 1)
  PROVE  h \in Nat /\ h % CYCLE = s /\ h \div CYCLE = u + 1
<1>1. CYCLE \in Nat \ {0} /\ s \in 0..(CYCLE - 1) /\ u + 1 \in Int
  BY CallOutAssumption DEF Slots
<1>2. CYCLE * (u + 1) \in Nat
  BY <1>1
<1>3. h \in Nat /\ h = CYCLE * (u + 1) + s
  BY <1>1, <1>2
<1> QED
  BY <1>1, <1>3, DivModIs, SMTT(30)

(* The newest call, put before those due with it, leaves the chain good.   *)
LEMMA InsertGood ==
  ASSUME NEW c, NEW s \in Slots, NEW u \in Nat, GoodChain(c, s, u),
         NEW e \in Call, e.handle = s + CYCLE * (u + 1), NEW l \in Nat
  PROVE  GoodChain(Insert(c, e, l), s, u + 1)
<1> DEFINE r == Insert(c, e, l)
           n == Len(c)
<1>1. c \in Seq(Call) /\ n \in Nat
  BY CallsOf DEF GoodChain
<1>2. PICK p \in 1..(n + 1) : Inserted(c, e, l, r, p)
  BY <1>1, InsertAt
<1>13.   /\ r \in Seq(Call) /\ Len(r) = n + 1
         /\ \A j \in 1..(p - 1) : SameCall(r[j], c[j]) /\ Laps(r, j) = Laps(c, j) /\ Laps(c, j) < l
         /\ SameCall(r[p], e) /\ Laps(r, p) = l
         /\ \A j \in (p + 1)..(n + 1) : SameCall(r[j], c[j - 1]) /\ Laps(r, j) = Laps(c, j - 1) /\ Laps(c, j - 1) >= l
  BY <1>2 DEF Inserted
<1>3. e.handle % CYCLE = s /\ IdOf(e) = u + 1
  BY HandleRead DEF IdOf
<1> HIDE DEF r, n
<1> DEFINE from == [j \in 1..(n + 1) |-> IF j < p THEN j ELSE j - 1]
<1>4. \A j \in 1..(n + 1) : j # p =>
        /\ from[j] \in 1..n /\ r[j].handle = c[from[j]].handle /\ IdOf(r[j]) = IdOf(c[from[j]])
        /\ Laps(r, j) = Laps(c, from[j])
  <2> SUFFICES ASSUME NEW j \in 1..(n + 1), j # p
               PROVE  /\ from[j] \in 1..n /\ SameCall(r[j], c[from[j]])
                      /\ Laps(r, j) = Laps(c, from[j])
    BY DEF SameCall, IdOf
  <2>1. CASE j < p
    BY <1>1, <1>13, <2>1
  <2>2. CASE j > p
    BY <1>1, <1>13, <2>2
  <2> QED
    BY <1>13, <2>1, <2>2
<1>5. r[p].handle = e.handle /\ IdOf(r[p]) = u + 1
  BY <1>13, <1>3 DEF SameCall, IdOf
<1>6. /\ \A i \in 1..n : c[i].handle % CYCLE = s /\ IdOf(c[i]) \in 1..u
      /\ \A i, j \in 1..n : IdOf(c[i]) = IdOf(c[j]) => i = j
      /\ \A i, j \in 1..n : i < j /\ Laps(c, i) = Laps(c, j) => IdOf(c[i]) > IdOf(c[j])
  BY DEF GoodChain, n
<1>7. \A i, j \in 1..(n + 1) : i # p /\ j # p /\ i < j => from[i] < from[j]
  BY <1>1
<1>8. \A j \in 1..(n + 1) : r[j].handle % CYCLE = s /\ IdOf(r[j]) \in 1..(u + 1) /\ (j # p => IdOf(r[j]) \in 1..u)
  <2> SUFFICES ASSUME NEW j \in 1..(n + 1)
               PROVE  r[j].handle % CYCLE = s /\ IdOf(r[j]) \in 1..(u + 1) /\ (j # p => IdOf(r[j]) \in 1..u)
    OBVIOUS
  <2>1. CASE j = p
    BY <1>3, <1>5, <2>1
  <2>2. CASE j # p
    BY <1>4, <1>6, <2>2
  <2> QED
    BY <2>1, <2>2
<1> HIDE DEF from
<1>9. ASSUME NEW i \in 1..(n + 1), NEW j \in 1..(n + 1), IdOf(r[i]) = IdOf(r[j]) PROVE i = j
  <2>1. CASE i = p \/ j = p
    BY <1>5, <1>8, <1>9, <2>1
  <2>2. CASE i # p /\ j # p
    <3>1. from[i] = from[j] /\ from[i] \in 1..n
      BY <1>4, <1>6, <1>9, <2>2
    <3>2. ~(i < j) /\ ~(j < i)
      BY <1>1, <1>7, <2>2, <3>1
    <3> QED
      BY <1>1, <3>2
  <2> QED
    BY <2>1, <2>2
<1>10. ASSUME NEW i \in 1..(n + 1), NEW j \in 1..(n + 1), i < j, Laps(r, i) = Laps(r, j)
       PROVE  IdOf(r[i]) > IdOf(r[j])
  <2>1. CASE i = p
    BY <1>5, <1>8, <1>10, <2>1
  <2>2. CASE j = p
    <3>1. i \in 1..(p - 1)
      BY <1>1, <1>10, <2>2
    <3>2. Laps(r, i) < l /\ Laps(r, j) = l /\ Laps(r, i) \in Nat
      BY <1>1, <1>13, <1>10, <2>2, <3>1, LapsAlong
    <3> QED
      BY <1>10, <3>2
  <2>3. CASE i # p /\ j # p
    BY <1>4, <1>6, <1>7, <1>10, <2>3
  <2> QED
    BY <2>1, <2>2, <2>3
<1> QED
  BY <1>13, <1>8, <1>9, <1>10 DEF GoodChain, r

(* A visit leaves the chain good.                                          *)
LEMMA VisitGood ==
  ASSUME NEW c, NEW r \in Seq(Call), NEW s, NEW u \in Nat, GoodChain(c, s, u), Len(r) = Len(c),
         \A j \in 1..Len(c) : SameCall(r[j], c[j]) /\ Laps(r, j) = Laps(c, j) - 1
  PROVE  GoodChain(r, s, u)
<1>1. \A j \in 1..Len(c) : r[j].handle = c[j].handle /\ IdOf(r[j]) = IdOf(c[j])
  BY DEF SameCall, IdOf
<1>2. \A j \in 1..Len(c) : Laps(c, j) \in Nat
  BY CallsOf, LapsAlong DEF GoodChain
<1>3. \A i, j \in 1..Len(c) : Laps(r, i) = Laps(r, j) => Laps(c, i) = Laps(c, j)
  BY <1>2
<1> QED
  BY <1>1, <1>3 DEF GoodChain
-----------------------------------------------------------------------------
(* An entry of a chain as the wheel of slots and laps sees it.             *)
View(c, s, i) == [id |-> IdOf(c[i]), ob |-> c[i].ob, fun |-> c[i].fun, slot |-> s, laps |-> Laps(c, i)]

(* All entries of a slot's chain.                                          *)
Views(c, s) == {View(c, s, i) : i \in 1..Len(c)}

(* Entries for the same call with the same laps look alike.                *)
LEMMA SameView ==
  ASSUME NEW r, NEW c, NEW s, NEW i, NEW j, SameCall(r[j], c[i]), Laps(r, j) = Laps(c, i)
  PROVE  View(r, s, j) = View(c, s, i)
BY DEF View, SameCall, IdOf

(* Entries that are kept look as they did.                                 *)
LEMMA KeepsViews ==
  ASSUME NEW c, NEW r, NEW s, NEW K, Keeps(c, K, r)
  PROVE  Views(r, s) = {View(c, s, i) : i \in K}
<1>1. PICK at \in [1..Len(r) -> K] :
       /\ \A m, n \in 1..Len(r) : m < n => at[m] < at[n]
       /\ \A i \in K : \E n \in 1..Len(r) : at[n] = i
       /\ \A n \in 1..Len(r) : SameCall(r[n], c[at[n]]) /\ Laps(r, n) = Laps(c, at[n])
  BY DEF Keeps
<1>2. \A n \in 1..Len(r) : at[n] \in K /\ View(r, s, n) = View(c, s, at[n])
  BY <1>1, SameView
<1> QED
  BY <1>1, <1>2 DEF Views

(* Inserting adds the one call to what is seen.                            *)
LEMMA InsertViews ==
  ASSUME NEW c \in Seq(Call), NEW s, NEW e \in Call, NEW l \in Nat
  PROVE  Views(Insert(c, e, l), s) =
           Views(c, s) \cup {[id |-> IdOf(e), ob |-> e.ob, fun |-> e.fun, slot |-> s, laps |-> l]}
<1> DEFINE r == Insert(c, e, l)
           n == Len(c)
           new == [id |-> IdOf(e), ob |-> e.ob, fun |-> e.fun, slot |-> s, laps |-> l]
<1>1. n \in Nat
  BY CallsOf
<1>2. PICK p \in 1..(n + 1) : Inserted(c, e, l, r, p)
  BY <1>1, InsertAt
<1> HIDE DEF r, n
<1>3. /\ Len(r) = n + 1
      /\ \A j \in 1..(p - 1) : SameCall(r[j], c[j]) /\ Laps(r, j) = Laps(c, j)
      /\ SameCall(r[p], e) /\ Laps(r, p) = l
      /\ \A j \in (p + 1)..(n + 1) : SameCall(r[j], c[j - 1]) /\ Laps(r, j) = Laps(c, j - 1)
  BY <1>2 DEF Inserted, n
<1>4. View(r, s, p) = new
  BY <1>3 DEF View, SameCall, IdOf
<1>5. \A j \in 1..(p - 1) : View(r, s, j) = View(c, s, j)
  BY <1>3, SameView
<1>6. \A j \in (p + 1)..(n + 1) : View(r, s, j) = View(c, s, j - 1)
  BY <1>3, SameView
<1> HIDE DEF new
<1>7. ASSUME NEW x \in Views(r, s) PROVE x \in Views(c, s) \cup {new}
  <2>1. PICK j \in 1..(n + 1) : x = View(r, s, j)
    BY <1>3 DEF Views
  <2>2. CASE j < p
    BY <1>1, <1>5, <2>1, <2>2 DEF Views, n
  <2>3. CASE j = p
    BY <1>4, <2>1, <2>3
  <2>4. CASE j > p
    <3>1. j \in (p + 1)..(n + 1) /\ j - 1 \in 1..n
      BY <1>1, <2>4
    <3> QED
      BY <1>6, <2>1, <3>1 DEF Views, n
  <2> QED
    BY <1>1, <2>2, <2>3, <2>4
<1>8. ASSUME NEW x \in Views(c, s) PROVE x \in Views(r, s)
  <2>1. PICK j \in 1..n : x = View(c, s, j)
    BY DEF Views, n
  <2>2. CASE j < p
    <3>1. j \in 1..(p - 1) /\ j \in 1..(n + 1)
      BY <1>1, <2>2
    <3> QED
      BY <1>3, <1>5, <2>1, <3>1 DEF Views
  <2>3. CASE j >= p
    <3>1. PICK k \in (p + 1)..(n + 1) : k = j + 1
      BY <1>1, <2>3
    <3>2. View(r, s, k) = View(c, s, j) /\ k \in 1..(n + 1)
      BY <1>1, <1>6, <3>1
    <3> QED
      BY <1>3, <2>1, <3>2 DEF Views
  <2> QED
    BY <1>1, <2>2, <2>3
<1>9. new \in Views(r, s)
  BY <1>3, <1>4 DEF Views
<1> QED
  BY <1>7, <1>8, <1>9 DEF r, new

(* A visit is seen as a lap less for every call.                           *)
LEMMA VisitViews ==
  ASSUME NEW c, NEW r, NEW s, Len(r) = Len(c),
         \A j \in 1..Len(c) : SameCall(r[j], c[j]) /\ Laps(r, j) = Laps(c, j) - 1
  PROVE  Views(r, s) = {[v EXCEPT !.laps = @ - 1] : v \in Views(c, s)}
<1>1. ASSUME NEW j \in 1..Len(c) PROVE View(r, s, j) = [View(c, s, j) EXCEPT !.laps = @ - 1]
  BY DEF View, SameCall, IdOf
<1> QED
  BY <1>1 DEF Views

(* What is seen in a slot belongs to it; each call is seen once.           *)
LEMMA ViewsOfSlot ==
  ASSUME NEW c, NEW s, NEW u \in Nat, GoodChain(c, s, u)
  PROVE  /\ \A v \in Views(c, s) : v.slot = s /\ \E i \in 1..Len(c) : v = View(c, s, i)
         /\ \A i, j \in 1..Len(c) : View(c, s, i) = View(c, s, j) => i = j
<1>1. \A v \in Views(c, s) : v.slot = s /\ \E i \in 1..Len(c) : v = View(c, s, i)
  BY DEF Views, View
<1>2. \A i, j \in 1..Len(c) : View(c, s, i) = View(c, s, j) => IdOf(c[i]) = IdOf(c[j])
  <2> SUFFICES ASSUME NEW i \in 1..Len(c), NEW j \in 1..Len(c), View(c, s, i) = View(c, s, j)
               PROVE  IdOf(c[i]) = IdOf(c[j])
    OBVIOUS
  <2>1. View(c, s, i).id = IdOf(c[i]) /\ View(c, s, j).id = IdOf(c[j])
    BY DEF View
  <2> QED
    BY <2>1
<1> QED
  BY <1>1, <1>2 DEF GoodChain
-----------------------------------------------------------------------------
(* The whole wheel.                                                        *)
PlacesOn(list) == UNION {{s} \X DOMAIN list[s] : s \in Slots}
Seen(list) == UNION {Views(list[s], s) : s \in Slots}

(* The places of a chain are its positions.                                *)
LEMMA PlaceIs ==
  ASSUME NEW list \in [Slots -> Seq(Call)]
  PROVE  /\ \A s \in Slots : list[s] \in Seq(Call) /\ DOMAIN list[s] = 1..Len(list[s]) /\ Len(list[s]) \in Nat
         /\ \A s, i : <<s, i>> \in PlacesOn(list) <=> s \in Slots /\ i \in 1..Len(list[s])
         /\ \A p \in PlacesOn(list) : p = <<p[1], p[2]>> /\ p[1] \in Slots /\ p[2] \in 1..Len(list[p[1]])
<1>1. \A s \in Slots : list[s] \in Seq(Call)
  OBVIOUS
<1>2. \A s \in Slots : DOMAIN list[s] = 1..Len(list[s]) /\ Len(list[s]) \in Nat
  BY <1>1, LenProperties
<1> QED
  BY <1>1, <1>2 DEF PlacesOn

(* The set Pending of CallOut is what is seen.                             *)
LEMMA SeenIs ==
  ASSUME NEW list \in [Slots -> Seq(Call)]
  PROVE  {[id |-> list[p[1]][p[2]].handle \div CYCLE,
           ob |-> list[p[1]][p[2]].ob, fun |-> list[p[1]][p[2]].fun,
           slot |-> p[1], laps |-> Laps(list[p[1]], p[2])] : p \in PlacesOn(list)} = Seen(list)
<1> DEFINE at(p) == [id |-> list[p[1]][p[2]].handle \div CYCLE,
                     ob |-> list[p[1]][p[2]].ob, fun |-> list[p[1]][p[2]].fun,
                     slot |-> p[1], laps |-> Laps(list[p[1]], p[2])]
<1>1. \A p : at(p) = View(list[p[1]], p[1], p[2])
  BY DEF View, IdOf
<1> HIDE DEF at
<1>2. ASSUME NEW p \in PlacesOn(list) PROVE at(p) \in Seen(list)
  <2>1. p[1] \in Slots /\ p[2] \in 1..Len(list[p[1]])
    BY PlaceIs
  <2> QED
    BY <1>1, <2>1 DEF Seen, Views
<1>3. ASSUME NEW v \in Seen(list) PROVE \E p \in PlacesOn(list) : v = at(p)
  <2>1. PICK s \in Slots : v \in Views(list[s], s)
    BY DEF Seen
  <2>2. PICK i \in 1..Len(list[s]) : v = View(list[s], s, i)
    BY <2>1 DEF Views
  <2>3. <<s, i>> \in PlacesOn(list)
    BY PlaceIs
  <2>4. at(<<s, i>>) = v
    BY <1>1, <2>2
  <2> QED
    BY <2>3, <2>4
<1> QED
  BY <1>2, <1>3 DEF at

(* One slot's chain replaced.                                              *)
LEMMA OneSlot ==
  ASSUME NEW list \in [Slots -> Seq(Call)], NEW s \in Slots, NEW r \in Seq(Call),
         NEW new, new = [list EXCEPT ![s] = r]
  PROVE  /\ new \in [Slots -> Seq(Call)] /\ new[s] = r
         /\ \A t \in Slots : t # s => new[t] = list[t]
OBVIOUS

(* A chain that grows by one fills one more place ...                      *)
LEMMA PlacesGrow ==
  ASSUME NEW list \in [Slots -> Seq(Call)], NEW s \in Slots, NEW r \in Seq(Call),
         Len(r) = Len(list[s]) + 1, IsFiniteSet(PlacesOn(list)),
         NEW new, new = [list EXCEPT ![s] = r]
  PROVE  IsFiniteSet(PlacesOn(new)) /\ Cardinality(PlacesOn(new)) = Cardinality(PlacesOn(list)) + 1
<1>1. new \in [Slots -> Seq(Call)] /\ new[s] = r /\ \A t \in Slots : t # s => new[t] = list[t]
  BY OneSlot
<1>2. \A t, i : <<t, i>> \in PlacesOn(new) <=> t \in Slots /\ i \in 1..Len(new[t])
  BY <1>1, PlaceIs
<1>3. \A t, i : <<t, i>> \in PlacesOn(list) <=> t \in Slots /\ i \in 1..Len(list[t])
  BY PlaceIs
<1>4. /\ \A p \in PlacesOn(new) : p = <<p[1], p[2]>>
      /\ \A p \in PlacesOn(list) : p = <<p[1], p[2]>>
  BY <1>1, PlaceIs
<1>5. Len(list[s]) \in Nat
  BY PlaceIs
<1> DEFINE q == <<s, Len(list[s]) + 1>>
<1>6. q \notin PlacesOn(list)
  BY <1>3, <1>5
<1>7. ASSUME NEW t, NEW i
      PROVE  <<t, i>> \in PlacesOn(new) <=> <<t, i>> \in PlacesOn(list) \/ <<t, i>> = q
  <2>1. CASE t = s
    <3>1. i \in 1..(Len(list[s]) + 1) <=> i \in 1..Len(list[s]) \/ i = Len(list[s]) + 1
      BY <1>5
    <3> QED
      BY <1>1, <1>2, <1>3, <2>1, <3>1
  <2>2. CASE t # s
    BY <1>1, <1>2, <1>3, <2>2
  <2> QED
    BY <2>1, <2>2
<1>8. PlacesOn(new) = PlacesOn(list) \cup {q}
  <2> HIDE DEF q
  <2>1. q = <<q[1], q[2]>>
    BY DEF q
  <2>2. ASSUME NEW p \in PlacesOn(new) PROVE p \in PlacesOn(list) \cup {q}
    <3>1. p = <<p[1], p[2]>>
      BY <1>4
    <3>2. <<p[1], p[2]>> \in PlacesOn(new)
      BY <3>1
    <3>3. <<p[1], p[2]>> \in PlacesOn(list) \/ <<p[1], p[2]>> = q
      BY <1>7, <3>2
    <3> QED
      BY <3>1, <3>3
  <2>3. ASSUME NEW p \in PlacesOn(list) \cup {q} PROVE p \in PlacesOn(new)
    <3>1. p = <<p[1], p[2]>>
      BY <1>4, <2>1
    <3>2. <<p[1], p[2]>> \in PlacesOn(list) \/ <<p[1], p[2]>> = q
      BY <3>1
    <3>3. <<p[1], p[2]>> \in PlacesOn(new)
      BY <1>7, <3>2
    <3> QED
      BY <3>1, <3>3
  <2> QED
    BY <2>2, <2>3
<1> HIDE DEF q
<1> QED
  BY <1>6, <1>8, FS_AddElement, ZenonT(30)

(* ... and one that loses an entry one less.                               *)
LEMMA PlacesShrink ==
  ASSUME NEW list \in [Slots -> Seq(Call)], NEW s \in Slots, NEW r \in Seq(Call),
         Len(r) = Len(list[s]) - 1, IsFiniteSet(PlacesOn(list)),
         NEW new, new = [list EXCEPT ![s] = r]
  PROVE  IsFiniteSet(PlacesOn(new)) /\ Cardinality(PlacesOn(list)) = Cardinality(PlacesOn(new)) + 1
<1>1. new \in [Slots -> Seq(Call)] /\ new[s] = r /\ \A t \in Slots : t # s => new[t] = list[t]
  BY OneSlot
<1>2. Len(r) \in Nat
  BY CallsOf
<1>3. list = [new EXCEPT ![s] = list[s]]
  OBVIOUS
<1>4. list[s] \in Seq(Call) /\ Len(list[s]) = Len(new[s]) + 1
  BY <1>1, <1>2, PlaceIs
<1>5. IsFiniteSet(PlacesOn(new))
  <2>1. \A t \in Slots : Len(new[t]) \in Nat /\ Len(list[t]) \in Nat /\ Len(new[t]) <= Len(list[t])
    BY <1>1, <1>4, PlaceIs
  <2>2. ASSUME NEW p \in PlacesOn(new) PROVE p \in PlacesOn(list)
    <3>1. p = <<p[1], p[2]>> /\ p[1] \in Slots /\ p[2] \in 1..Len(new[p[1]])
      BY <1>1, PlaceIs
    <3>2. p[2] \in 1..Len(list[p[1]])
      BY <2>1, <3>1
    <3>3. <<p[1], p[2]>> \in PlacesOn(list)
      BY <3>1, <3>2, PlaceIs
    <3> QED
      BY <3>1, <3>3
  <2> QED
    BY <2>2, FS_Subset
<1> QED
  BY <1>1, <1>3, <1>4, <1>5, PlacesGrow

(* Chains that keep their lengths fill the same places.                    *)
LEMMA PlacesSame ==
  ASSUME NEW list \in [Slots -> Seq(Call)], NEW new \in [Slots -> Seq(Call)],
         \A s \in Slots : Len(new[s]) = Len(list[s])
  PROVE  PlacesOn(new) = PlacesOn(list)
<1>1. \A s \in Slots : DOMAIN new[s] = DOMAIN list[s]
  BY PlaceIs
<1> QED
  BY <1>1 DEF PlacesOn

(* Keeping some entries of each chain fills as many places as are kept.    *)
KeptPlaces(list, K) == {p \in PlacesOn(list) : p[2] \in K[p[1]]}
(* The list new keeps of each slot's chain the entries at K.               *)
KeepsOnly(list, K, new) ==
  /\ list \in [Slots -> Seq(Call)] /\ new \in [Slots -> Seq(Call)] /\ K \in [Slots -> SUBSET Nat]
  /\ \A s \in Slots : K[s] \subseteq 1..Len(list[s]) /\ Len(new[s]) = Cardinality(K[s])

(* A list that keeps only the entries at K has as many places as K allows: *)
(* InOrder is a bijection from the places left to the places kept.         *)
LEMMA PlacesKept ==
  ASSUME NEW list, NEW new, NEW K, KeepsOnly(list, K, new), IsFiniteSet(PlacesOn(list))
  PROVE  /\ IsFiniteSet(PlacesOn(new))
         /\ Cardinality(PlacesOn(new)) = Cardinality(KeptPlaces(list, K))
<1> DEFINE T == PlacesOn(new)
           S == {p \in PlacesOn(list) : p[2] \in K[p[1]]}
           f == [p \in T |-> <<p[1], InOrder(K[p[1]])[p[2]]>>]
<1>0. /\ list \in [Slots -> Seq(Call)] /\ new \in [Slots -> Seq(Call)] /\ K \in [Slots -> SUBSET Nat]
      /\ \A s \in Slots : K[s] \subseteq 1..Len(list[s]) /\ Len(new[s]) = Cardinality(K[s])
  BY DEF KeepsOnly
<1>1. IsFiniteSet(S)
  BY FS_Subset
<1>2. ASSUME NEW s \in Slots
      PROVE  /\ Len(new[s]) = Cardinality(K[s]) /\ Len(new[s]) \in Nat
             /\ Lists(InOrder(K[s]), Len(new[s]), K[s])
             /\ \A m \in 1..Len(new[s]) : InOrder(K[s])[m] \in K[s]
             /\ K[s] \subseteq 1..Len(list[s]) /\ Len(list[s]) \in Nat
  <2>1. K[s] \in SUBSET (1..Len(list[s])) /\ Len(list[s]) \in Nat
    BY <1>0, PlaceIs
  <2>2. Cardinality(K[s]) \in Nat /\ Lists(InOrder(K[s]), Cardinality(K[s]), K[s])
    BY <2>1, InOrderLists
  <2> QED
    BY <1>0, <2>1, <2>2 DEF Lists
<1>3. \A p \in T : p = <<p[1], p[2]>> /\ p[1] \in Slots /\ p[2] \in 1..Len(new[p[1]])
  BY <1>0, PlaceIs
<1>4. ASSUME NEW p \in T
      PROVE  f[p] \in S /\ f[p][1] = p[1] /\ f[p][2] = InOrder(K[p[1]])[p[2]]
  <2>1. f[p] = <<p[1], InOrder(K[p[1]])[p[2]]>>
    OBVIOUS
  <2>2. InOrder(K[p[1]])[p[2]] \in K[p[1]] /\ K[p[1]] \subseteq 1..Len(list[p[1]])
    BY <1>2, <1>3
  <2>3. <<p[1], InOrder(K[p[1]])[p[2]]>> \in PlacesOn(list)
    BY <1>0, <1>3, <2>2, PlaceIs
  <2> QED
    BY <2>1, <2>2, <2>3
<1>5. f \in [T -> S]
  <2> HIDE DEF S, T
  <2> QED
    BY <1>4
<1> HIDE DEF f
<1>6. ASSUME NEW p \in T, NEW q \in T, f[p] = f[q] PROVE p = q
  <2>1. p[1] = q[1] /\ InOrder(K[p[1]])[p[2]] = InOrder(K[p[1]])[q[2]]
    <3>1. f[p][1] = p[1] /\ f[p][2] = InOrder(K[p[1]])[p[2]]
      BY <1>4
    <3>2. f[q][1] = q[1] /\ f[q][2] = InOrder(K[q[1]])[q[2]]
      BY <1>4
    <3> HIDE DEF T
    <3> QED
      BY <1>6, <3>1, <3>2
  <2>2. p[2] \in 1..Len(new[p[1]]) /\ q[2] \in 1..Len(new[p[1]])
    BY <1>3, <2>1
  <2>3. ~(p[2] < q[2]) /\ ~(q[2] < p[2])
    <3>1. PICK s \in Slots : s = p[1]
      BY <1>3
    <3>2. PICK at : at = InOrder(K[s])
      OBVIOUS
    <3>3. Lists(at, Len(new[s]), K[s])
      BY <1>2, <3>2
    <3>4. /\ p[2] < q[2] => at[p[2]] < at[q[2]]
          /\ q[2] < p[2] => at[q[2]] < at[p[2]]
      BY <2>2, <3>1, <3>3 DEF Lists
    <3>5. at[p[2]] \in Nat /\ at[p[2]] = at[q[2]]
      BY <1>0, <2>1, <2>2, <3>1, <3>2, <3>3 DEF Lists
    <3> QED
      BY <3>4, <3>5
  <2>4. p[2] = q[2]
    BY <1>2, <1>3, <2>2, <2>3
  <2> QED
    BY <1>3, <2>1, <2>4
<1>7. ASSUME NEW q \in S PROVE \E p \in T : f[p] = q
  <2>1. q = <<q[1], q[2]>> /\ q[1] \in Slots /\ q[2] \in K[q[1]]
    BY <1>0, PlaceIs
  <2>2. PICK m \in 1..Len(new[q[1]]) : InOrder(K[q[1]])[m] = q[2]
    BY <1>2, <2>1 DEF Lists
  <2>3. <<q[1], m>> \in T
    BY <1>0, <2>1, PlaceIs
  <2>4. f[<<q[1], m>>] = <<q[1], q[2]>>
    BY <2>2, <2>3 DEF f
  <2> QED
    BY <2>1, <2>3, <2>4
<1>8. f \in Injection(T, S) /\ f \in Surjection(T, S)
  <2> HIDE DEF S, T
  <2> QED
    BY <1>5, <1>6, <1>7 DEF Injection, Surjection, IsInjective
<1> HIDE DEF S, T
<1>9. IsFiniteSet(T) /\ Cardinality(T) = Cardinality(S)
  BY <1>1, <1>8, FS_Injection
<1> QED
  BY <1>9 DEF S, T, KeptPlaces

(* What is seen when one slot's chain is replaced.                         *)
LEMMA SeenOneSlot ==
  ASSUME NEW list \in [Slots -> Seq(Call)], NEW s \in Slots, NEW r \in Seq(Call),
         NEW new, new = [list EXCEPT ![s] = r]
  PROVE  /\ \A x : x \in Seen(new) <=> x \in Views(r, s) \/ \E t \in Slots : t # s /\ x \in Views(list[t], t)
         /\ \A x : x \in Seen(list) <=> x \in Views(list[s], s) \/ \E t \in Slots : t # s /\ x \in Views(list[t], t)
<1>1. new \in [Slots -> Seq(Call)] /\ new[s] = r /\ \A t \in Slots : t # s => new[t] = list[t]
  BY OneSlot
<1>2. \A x : x \in Seen(new) <=> \E t \in Slots : x \in Views(new[t], t)
  BY DEF Seen
<1>3. \A x : x \in Seen(list) <=> \E t \in Slots : x \in Views(list[t], t)
  BY DEF Seen
<1>4. ASSUME NEW x
      PROVE  x \in Seen(new) <=> x \in Views(r, s) \/ \E t \in Slots : t # s /\ x \in Views(list[t], t)
  BY <1>1, <1>2
<1>5. ASSUME NEW x
      PROVE  x \in Seen(list) <=> x \in Views(list[s], s) \/ \E t \in Slots : t # s /\ x \in Views(list[t], t)
  BY <1>3
<1> QED
  BY <1>4, <1>5

(* A slot's views name the slot.                                           *)
LEMMA ViewSlot == \A c, s : \A v \in Views(c, s) : v.slot = s
BY DEF Views, View
-----------------------------------------------------------------------------
(* The inductive invariant.                                                *)

(* Every chain is as it should be.                                         *)
ChainsGood == \A s \in Slots : GoodChain(call_list[s], s, unique)

(* call_out_time runs behind current_time, and a call is being made when   *)
(* cop says so.                                                            *)
Timely ==
  /\ pc # "lpc" => call_out_time # 0
  /\ call_out_time <= current_time
  /\ pc \in {"chain", "callback"} => call_out_time < current_time
  /\ pc = "callback" <=> cop # NoCall

(* A call with no lap left sits in the slot being visited.                 *)
Waiting == \A v \in Seen(call_list) : v.laps >= 1 \/ (pc \in {"chain", "callback"} /\ v.slot = Visited)

(* The pending, the free and the running call are all that were allocated. *)
Counted == IsFiniteSet(Places) /\ CallsConserved

ChainsInv == TypeOK /\ ChainsGood /\ Timely /\ Waiting /\ Counted

(* The facts every step starts from.                                       *)
LEMMA ChainsFacts ==
  ASSUME ChainsInv
  PROVE  /\ call_list \in [Slots -> Seq(Call)] /\ Slots = 0..(CYCLE - 1) /\ CYCLE \in Nat \ {0}
         /\ unique \in Nat /\ call_out_time \in Nat /\ current_time \in Nat \ {0}
         /\ call_list_free \in Nat /\ num_call \in Nat
         /\ Started \in Nat \ {0} /\ Started <= current_time
         /\ pc # "lpc" => Started = call_out_time
         /\ Visited \in Slots
         /\ Places = PlacesOn(call_list)
         /\ Pending = Seen(call_list)
<1>1. call_list \in [Slots -> Seq(Call)] /\ Slots = 0..(CYCLE - 1) /\ CYCLE \in Nat \ {0}
  BY CallOutAssumption DEF ChainsInv, TypeOK, Call, Slots
<1>2. /\ unique \in Nat /\ call_out_time \in Nat /\ current_time \in Nat \ {0}
      /\ call_list_free \in Nat /\ num_call \in Nat
  BY DEF ChainsInv, TypeOK
<1>3. Started \in Nat \ {0} /\ Started <= current_time /\ (pc # "lpc" => Started = call_out_time)
  BY <1>2 DEF Started, ChainsInv, Timely
<1>4. Visited \in Slots
  BY <1>1, <1>2, DivMod DEF Visited, SlotOf
<1>5. Places = PlacesOn(call_list)
  BY DEF Places, PlacesOn
<1>6. Pending = Seen(call_list)
  BY <1>1, <1>5, SeenIs DEF Pending
<1> QED
  BY <1>1, <1>2, <1>3, <1>4, <1>5, <1>6

(* ... and what is seen after it.                                          *)
LEMMA SeenNext ==
  ASSUME call_list' \in [Slots -> Seq(Call)]
  PROVE  Places' = PlacesOn(call_list') /\ Pending' = Seen(call_list')
<1>1. PICK list \in [Slots -> Seq(Call)] : list = call_list'
  OBVIOUS
<1>2. Places' = PlacesOn(list)
  BY <1>1 DEF Places, PlacesOn
<1>3. Pending' = Seen(list)
  BY <1>1, <1>2, SeenIs DEF Pending
<1> QED
  BY <1>1, <1>2, <1>3
-----------------------------------------------------------------------------
(* Seconds ahead are turns ahead, never turns behind.                      *)
LEMMA TurnsAhead == \A n \in Nat \ {0} : \A a \in Nat : a \div n \in Nat
<1> SUFFICES ASSUME NEW n \in Nat \ {0}, NEW a \in Nat PROVE a \div n \in Nat
  OBVIOUS
<1>1. PICK q \in Int : q = a \div n
  BY DivMod
<1>2. a % n \in 0..(n - 1) /\ a = n * q + (a % n)
  BY <1>1, DivMod
<1>3. q < 0 => n * 0 >= n * q + n
  BY Multiples
<1>4. n * 0 = 0 /\ n * q \in Int
  OBVIOUS
<1>5. ~(q < 0)
  BY <1>2, <1>3, <1>4
<1> QED
  BY <1>1, <1>5

(* The types, with the chains apart.                                       *)
LEMMA Typed ==
  ASSUME TypeOK, call_list' \in [Slots -> Seq(Call)],
         call_list_free' \in Nat, num_call' \in Nat, unique' \in Nat,
         call_out_time' \in Nat, current_time' \in Nat \ {0},
         destructed' \subseteq Objects, pc' \in {"lpc", "slots", "chain", "callback"},
         cop' \in Call \cup {NoCall}
  PROVE  TypeOK'
BY DEF TypeOK, Call

(* Allocating a call leaves one more in use.                               *)
LEMMA CallInUse ==
  ASSUME num_call \in Nat, call_list_free \in Nat, AllocateCall, NEW n \in Nat, NEW k \in Nat,
         num_call = call_list_free + n + k
  PROVE  num_call' = call_list_free' + (n + 1) + k
<1>1. CASE call_list_free = 0
  BY <1>1, CallOutAssumption DEF AllocateCall
<1>2. CASE call_list_free # 0
  BY <1>2 DEF AllocateCall
<1> QED
  BY <1>1, <1>2

(* One lemma per operation: it keeps the invariant, and is a step of the   *)
(* wheel of slots and laps.                                                *)

(* new_call_out(): the call enters its chain, and is seen with the laps    *)
(* the wheel gives it.                                                     *)
LEMMA NewCallStep ==
  ASSUME ChainsInv, NEW o \in Objects, NEW f \in Funs, NEW d \in Delays, new_call_out(o, f, d)
  PROVE  ChainsInv' /\ Wheel!NewCallOut(o, f, d)
<1> DEFINE due  == current_time + (IF d < 1 THEN 1 ELSE d)
           slot == SlotOf(due)
           l    == LapsUntil(due)
           e    == [handle |-> HandleOf(slot), ob |-> o, fun |-> f, delta |-> 0]
           c    == call_list[slot]
           r    == Insert(c, e, l)
           view == [id |-> unique + 1, ob |-> o, fun |-> f, slot |-> slot, laps |-> l]
<1>1. /\ call_list \in [Slots -> Seq(Call)] /\ Slots = 0..(CYCLE - 1) /\ CYCLE \in Nat \ {0}
      /\ unique \in Nat /\ call_out_time \in Nat /\ current_time \in Nat \ {0}
      /\ call_list_free \in Nat /\ num_call \in Nat
      /\ Started \in Nat \ {0} /\ Started <= current_time
      /\ pc # "lpc" => Started = call_out_time
      /\ Places = PlacesOn(call_list) /\ Pending = Seen(call_list)
  BY ChainsFacts
<1>2. due \in Nat /\ due >= Started + 1
  <2>1. d \in Int
    BY CallOutAssumption
  <2> QED
    BY <1>1, <2>1
<1>3. slot \in Slots
  <2> HIDE DEF due
  <2> QED
    BY <1>1, <1>2, DivMod DEF SlotOf
<1>4. l \in Nat /\ l >= 1
  <2> HIDE DEF due
  <2>1. PICK x \in Nat : x = due - Started - 1
    BY <1>1, <1>2
  <2>2. x \div CYCLE \in Nat
    BY <1>1, TurnsAhead
  <2>3. l = 1 + (x \div CYCLE)
    BY <2>1 DEF LapsUntil
  <2> QED
    BY <2>2, <2>3
<1>5. /\ LpcRuns /\ unique < MaxCallOuts /\ o \notin destructed
      /\ AllocateCall
      /\ pc = "callback" /\ slot = Visited => LateInserts
      /\ call_list' = [call_list EXCEPT ![slot] = r]
      /\ unique' = unique + 1
      /\ call_out_time' = Started
      /\ UNCHANGED <<current_time, destructed, pc, cop>>
  BY DEF new_call_out
<1> HIDE DEF due, l
<1>6. HandleOf(slot) = slot + CYCLE * (unique + 1)
  BY DEF HandleOf
<1>7. HandleOf(slot) \in Nat /\ HandleOf(slot) \div CYCLE = unique + 1
  BY <1>1, <1>3, <1>6, HandleRead
<1>8. e \in Call /\ e.handle = slot + CYCLE * (unique + 1) /\ IdOf(e) = unique + 1 /\ e.ob = o /\ e.fun = f
  BY <1>6, <1>7 DEF Call, IdOf
<1> HIDE DEF slot, e
<1>9. c \in Seq(Call) /\ GoodChain(c, slot, unique)
  BY <1>1, <1>3 DEF ChainsInv, ChainsGood
<1>10. r \in Seq(Call) /\ Len(r) = Len(c) + 1
  BY <1>4, <1>8, <1>9, InsertAt DEF Inserted
<1>11. GoodChain(r, slot, unique + 1)
  BY <1>1, <1>3, <1>4, <1>8, <1>9, InsertGood
<1>12. Views(r, slot) = Views(c, slot) \cup {view}
  BY <1>4, <1>8, <1>9, InsertViews
<1> HIDE DEF r
<1>13. call_list' \in [Slots -> Seq(Call)] /\ call_list'[slot] = r /\ \A t \in Slots : t # slot => call_list'[t] = call_list[t]
  BY <1>1, <1>3, <1>5, <1>10, OneSlot
<1>14. Seen(call_list') = Seen(call_list) \cup {view}
  <2> HIDE DEF view
  <2>1. /\ \A x : x \in Seen(call_list') <=> x \in Views(r, slot) \/ \E t \in Slots : t # slot /\ x \in Views(call_list[t], t)
        /\ \A x : x \in Seen(call_list) <=> x \in Views(c, slot) \/ \E t \in Slots : t # slot /\ x \in Views(call_list[t], t)
    BY <1>1, <1>3, <1>5, <1>10, SeenOneSlot
  <2> QED
    BY <1>12, <2>1
<1>15. Places' = PlacesOn(call_list') /\ Pending' = Seen(call_list')
  BY <1>13, SeenNext
<1>16. TypeOK'
  <2>1. num_call' \in Nat /\ call_list_free' \in Nat
    BY <1>1, <1>5, CallOutAssumption DEF AllocateCall
  <2>2. TypeOK /\ destructed \subseteq Objects /\ pc \in {"lpc", "slots", "chain", "callback"} /\ cop \in Call \cup {NoCall}
    BY DEF TypeOK, ChainsInv, Call
  <2>3. unique' \in Nat /\ call_out_time' \in Nat /\ current_time' \in Nat \ {0}
    BY <1>1, <1>5
  <2> QED
    BY <1>5, <1>13, <2>1, <2>2, <2>3, Typed
<1>17. ChainsGood'
  <2> SUFFICES ASSUME NEW t \in Slots PROVE GoodChain(call_list'[t], t, unique')
    BY DEF ChainsGood
  <2>1. CASE t = slot
    BY <1>5, <1>11, <1>13, <2>1
  <2>2. CASE t # slot
    <3>1. GoodChain(call_list[t], t, unique)
      BY DEF ChainsInv, ChainsGood
    <3>2. GoodChain(call_list[t], t, unique + 1)
      BY <1>1, <3>1, GoodLater
    <3> QED
      BY <1>5, <1>13, <2>2, <3>2
  <2> QED
    BY <2>1, <2>2
<1>18. Timely'
  BY <1>1, <1>5 DEF Timely, ChainsInv, LpcRuns
<1>19. Waiting'
  <2> SUFFICES ASSUME NEW v \in Seen(call_list')
               PROVE  v.laps >= 1 \/ (pc' \in {"chain", "callback"} /\ v.slot = Visited')
    BY DEF Waiting
  <2>1. CASE v = view
    <3>1. v.laps = l
      BY <2>1
    <3> QED
      BY <1>4, <3>1
  <2>2. CASE v \in Seen(call_list)
    <3>1. v.laps >= 1 \/ (pc \in {"chain", "callback"} /\ v.slot = Visited)
      BY <2>2 DEF ChainsInv, Waiting
    <3>2. pc # "lpc" => Visited' = Visited
      BY <1>1, <1>5 DEF Visited, SlotOf
    <3> QED
      BY <1>5, <3>1, <3>2
  <2> QED
    BY <1>14, <2>1, <2>2
<1>20. Counted'
  <2>0. IsFiniteSet(PlacesOn(call_list))
    BY <1>1 DEF ChainsInv, Counted
  <2>1. IsFiniteSet(PlacesOn(call_list')) /\ Cardinality(PlacesOn(call_list')) = Cardinality(PlacesOn(call_list)) + 1
    <3>1. call_list \in [Slots -> Seq(Call)] /\ r \in Seq(Call) /\ Len(r) = Len(call_list[slot]) + 1
      BY <1>1, <1>10
    <3>2. PICK list : list = call_list
      OBVIOUS
    <3>3. PICK new : new = call_list'
      OBVIOUS
    <3>4. new = [list EXCEPT ![slot] = r]
      BY <1>5, <3>2, <3>3
    <3>5. IsFiniteSet(PlacesOn(new)) /\ Cardinality(PlacesOn(new)) = Cardinality(PlacesOn(list)) + 1
      BY <1>3, <2>0, <3>1, <3>2, <3>4, PlacesGrow
    <3> QED
      BY <3>2, <3>3, <3>5
  <2>2. Cardinality(PlacesOn(call_list)) \in Nat
    BY <2>0, FS_CardinalityType
  <2>4. num_call = call_list_free + Cardinality(PlacesOn(call_list)) + (IF cop = NoCall THEN 0 ELSE 1)
    BY <1>1 DEF ChainsInv, Counted, CallsConserved
  <2>5. num_call' = call_list_free' + Cardinality(PlacesOn(call_list')) + (IF cop' = NoCall THEN 0 ELSE 1)
    <3>1. PICK N \in Nat : N = Cardinality(PlacesOn(call_list))
      BY <2>2
    <3>2. PICK B \in Nat : B = (IF cop = NoCall THEN 0 ELSE 1)
      OBVIOUS
    <3>3. num_call = call_list_free + N + B
      BY <2>4, <3>1, <3>2
    <3>4. num_call' = call_list_free' + (N + 1) + B
      <4>1. num_call \in Nat /\ call_list_free \in Nat
        BY <1>1
      <4> QED
        BY <1>5, <3>3, <4>1, CallInUse
    <3> QED
      BY <1>5, <2>1, <3>1, <3>2, <3>4
  <2> QED
    BY <1>15, <2>1, <2>5 DEF Counted, CallsConserved
<1>21. ChainsInv'
  BY <1>16, <1>17, <1>18, <1>19, <1>20 DEF ChainsInv
<1>22. Wheel!NewCallOut(o, f, d)
  <2>1. due = current_time + Wheel!AtLeast1(d) /\ slot = due % CYCLE /\ l = Wheel!Laps(due)
    BY DEF due, slot, l, Wheel!AtLeast1, Wheel!Laps, Wheel!Started, Started, LapsUntil, SlotOf
  <2>2. Pending' = Pending \cup {view}
    BY <1>1, <1>14, <1>15
  <2>3. Wheel!Visited = Visited /\ Wheel!Started = Started /\ (Wheel!LpcRuns <=> LpcRuns)
    BY DEF Wheel!Visited, Visited, SlotOf, Wheel!Started, Started, Wheel!LpcRuns, LpcRuns
  <2> QED
    BY <1>5, <2>1, <2>2, <2>3 DEF Wheel!NewCallOut
<1> QED
  BY <1>21, <1>22

(* What taking the entry i off the chain of slot s does to the wheel.      *)
LEMMA OneLeaves ==
  ASSUME ChainsInv, NEW s \in Slots, NEW i \in 1..Len(call_list[s]), NEW r,
         Len(r) = Len(call_list[s]) - 1, Keeps(call_list[s], (1..Len(call_list[s])) \ {i}, r),
         call_list' = [call_list EXCEPT ![s] = r], unique' = unique
  PROVE  /\ call_list' \in [Slots -> Seq(Call)] /\ ChainsGood'
         /\ View(call_list[s], s, i) \in Pending
         /\ Pending' = Pending \ {View(call_list[s], s, i)}
         /\ Seen(call_list') \subseteq Seen(call_list)
         /\ IsFiniteSet(Places') /\ Cardinality(Places') \in Nat
         /\ Cardinality(Places) = Cardinality(Places') + 1
<1> DEFINE c == call_list[s]
           K == (1..Len(c)) \ {i}
           v == View(c, s, i)
<1>1. /\ call_list \in [Slots -> Seq(Call)] /\ unique \in Nat
      /\ Places = PlacesOn(call_list) /\ Pending = Seen(call_list)
  BY ChainsFacts
<1>2. GoodChain(c, s, unique)
  BY DEF ChainsInv, ChainsGood
<1>3. Keeps(c, K, r) /\ K \in SUBSET (1..Len(c))
  OBVIOUS
<1>4. r \in Seq(Call)
  BY <1>3 DEF Keeps
<1>5. GoodChain(r, s, unique)
  BY <1>1, <1>2, <1>3, KeepsGood
<1>6. Views(r, s) = {View(c, s, j) : j \in K}
  BY <1>3, KeepsViews
<1>7. /\ \A j, k \in 1..Len(c) : View(c, s, j) = View(c, s, k) => j = k
      /\ \A x \in Views(c, s) : x.slot = s
  BY <1>1, <1>2, ViewsOfSlot
<1>8. call_list' \in [Slots -> Seq(Call)] /\ call_list'[s] = r /\ \A t \in Slots : t # s => call_list'[t] = call_list[t]
  BY <1>1, <1>4, OneSlot
<1>9. ChainsGood'
  BY <1>5, <1>8 DEF ChainsInv, ChainsGood
<1>10. /\ \A x : x \in Seen(call_list') <=> x \in Views(r, s) \/ \E t \in Slots : t # s /\ x \in Views(call_list[t], t)
       /\ \A x : x \in Seen(call_list) <=> x \in Views(c, s) \/ \E t \in Slots : t # s /\ x \in Views(call_list[t], t)
  BY <1>1, <1>4, SeenOneSlot
<1>11. v \in Views(c, s) /\ v.slot = s
  <2>1. v \in Views(c, s)
    BY DEF Views
  <2> QED
    BY <1>7, <2>1
<1>12. Views(r, s) = Views(c, s) \ {v}
  BY <1>6, <1>7 DEF Views
<1>13. \A t \in Slots : t # s => v \notin Views(call_list[t], t)
  BY <1>11, ViewSlot
<1> HIDE DEF v
<1>14. Seen(call_list') = Seen(call_list) \ {v}
  BY <1>10, <1>12, <1>13
<1>15. v \in Seen(call_list)
  BY <1>10, <1>11
<1>16. Places' = PlacesOn(call_list') /\ Pending' = Seen(call_list')
  BY <1>8, SeenNext
<1>17. IsFiniteSet(PlacesOn(call_list)) /\ Len(r) = Len(call_list[s]) - 1
  BY <1>1 DEF ChainsInv, Counted
<1>18. PICK list : list = call_list
  OBVIOUS
<1>19. PICK new : new = call_list'
  OBVIOUS
<1>20. new = [list EXCEPT ![s] = r]
  BY <1>18, <1>19
<1>21. IsFiniteSet(PlacesOn(new)) /\ Cardinality(PlacesOn(list)) = Cardinality(PlacesOn(new)) + 1
  <2>1. list \in [Slots -> Seq(Call)] /\ Len(r) = Len(list[s]) - 1 /\ IsFiniteSet(PlacesOn(list))
    BY <1>1, <1>17, <1>18
  <2> QED
    BY <1>4, <1>20, <2>1, PlacesShrink, ZenonT(30)
<1>22. Cardinality(PlacesOn(new)) \in Nat
  BY <1>21, FS_CardinalityType
<1> QED
  BY <1>1, <1>8, <1>9, <1>14, <1>15, <1>16, <1>18, <1>19, <1>21, <1>22 DEF v

(* Taking one call off its chain, by name or by handle.                    *)
LEMMA TakeOffStep ==
  ASSUME ChainsInv, LpcRuns, NEW s \in Slots, NEW i \in 1..Len(call_list[s]), TakeOff(s, i)
  PROVE  ChainsInv' /\ \E e \in Pending : Wheel!Remove(e)
<1> DEFINE c == call_list[s]
           r == Unlink(c, i)
           v == View(c, s, i)
<1>1. /\ call_list \in [Slots -> Seq(Call)] /\ call_list_free \in Nat /\ num_call \in Nat
      /\ Places = PlacesOn(call_list) /\ Pending = Seen(call_list)
  BY ChainsFacts
<1>2. /\ call_list' = [call_list EXCEPT ![s] = r]
      /\ call_list_free' = call_list_free + 1
      /\ UNCHANGED <<num_call, unique, call_out_time, current_time, destructed, pc, cop>>
  BY DEF TakeOff
<1>3. c \in Seq(Call)
  BY <1>1
<1>4. Len(r) = Len(c) - 1 /\ Keeps(c, (1..Len(c)) \ {i}, r)
  BY <1>3, UnlinkKeeps
<1>5. /\ call_list' \in [Slots -> Seq(Call)] /\ ChainsGood'
      /\ v \in Pending /\ Pending' = Pending \ {v}
      /\ Seen(call_list') \subseteq Seen(call_list)
      /\ IsFiniteSet(Places') /\ Cardinality(Places') \in Nat
      /\ Cardinality(Places) = Cardinality(Places') + 1
  <2> HIDE DEF r
  <2> QED
    BY <1>2, <1>4, OneLeaves
<1> HIDE DEF r, v
<1>6. TypeOK'
  <2>1. TypeOK /\ destructed \subseteq Objects /\ pc \in {"lpc", "slots", "chain", "callback"} /\ cop \in Call \cup {NoCall}
        /\ unique \in Nat /\ call_out_time \in Nat /\ current_time \in Nat \ {0}
    BY DEF TypeOK, ChainsInv, Call
  <2> QED
    BY <1>1, <1>2, <1>5, <2>1, Typed
<1>7. Timely'
  BY <1>2 DEF Timely, ChainsInv
<1>8. Waiting'
  BY <1>2, <1>5 DEF ChainsInv, Waiting, Visited
<1>9. CallsConserved'
  <2>1. PICK n \in Nat : n = Cardinality(Places')
    BY <1>5
  <2>2. num_call = call_list_free + (n + 1) + (IF cop = NoCall THEN 0 ELSE 1)
    BY <1>5, <2>1 DEF ChainsInv, Counted, CallsConserved
  <2>3. num_call' = call_list_free' + n + (IF cop' = NoCall THEN 0 ELSE 1)
    BY <1>1, <1>2, <2>2
  <2> QED
    BY <2>1, <2>3 DEF CallsConserved
<1>10. ChainsInv'
  BY <1>5, <1>6, <1>7, <1>8, <1>9 DEF ChainsInv, Counted
<1>11. Wheel!Remove(v)
  BY <1>2, <1>5 DEF Wheel!Remove, Wheel!LpcRuns, LpcRuns
<1> QED
  BY <1>5, <1>10, <1>11

(* remove_all_call_out(): what stays keeps its laps, what goes is freed.   *)
LEMMA RemoveAllStep ==
  ASSUME ChainsInv, NEW o \in Objects, remove_all_call_out(o)
  PROVE  ChainsInv' /\ Wheel!RemoveAll(o)
<1> DEFINE K == [s \in Slots |-> {i \in 1..Len(call_list[s]) : Stays(call_list[s][i], o)}]
           left == {p \in Places : Stays(call_list[p[1]][p[2]], o)}
           gone == {p \in Places : ~Stays(call_list[p[1]][p[2]], o)}
<1>1. /\ call_list \in [Slots -> Seq(Call)] /\ call_list_free \in Nat /\ num_call \in Nat
      /\ unique \in Nat /\ Places = PlacesOn(call_list) /\ Pending = Seen(call_list)
  BY ChainsFacts
<1>2. \A s \in Slots : call_list[s] \in Seq(Call) /\ DOMAIN call_list[s] = 1..Len(call_list[s]) /\ Len(call_list[s]) \in Nat
  BY <1>1, PlaceIs
<1>3. /\ LpcRuns
      /\ call_list' = [s \in Slots |-> UnlinkAllBut(call_list[s], K[s])]
      /\ call_list_free' = call_list_free + Cardinality(gone)
      /\ UNCHANGED <<num_call, unique, call_out_time, current_time, destructed, pc, cop>>
  BY <1>2 DEF remove_all_call_out
<1>4. /\ K \in [Slots -> SUBSET Nat]
      /\ \A s \in Slots : K[s] = {i \in 1..Len(call_list[s]) : Stays(call_list[s][i], o)}
      /\ \A s \in Slots : K[s] \in SUBSET (1..Len(call_list[s]))
  BY <1>2
<1> HIDE DEF K
<1>5. ASSUME NEW s \in Slots
      PROVE  /\ call_list'[s] \in Seq(Call) /\ Len(call_list'[s]) = Cardinality(K[s])
             /\ Keeps(call_list[s], K[s], call_list'[s])
  <2>1. call_list'[s] = UnlinkAllBut(call_list[s], K[s])
    BY <1>3
  <2>2. Len(UnlinkAllBut(call_list[s], K[s])) = Cardinality(K[s]) /\ Keeps(call_list[s], K[s], UnlinkAllBut(call_list[s], K[s]))
    BY <1>2, <1>4, UnlinkAllKeeps
  <2> QED
    BY <2>1, <2>2 DEF Keeps
<1>6. call_list' \in [Slots -> Seq(Call)]
  BY <1>3, <1>5
<1>7. ChainsGood'
  <2> SUFFICES ASSUME NEW s \in Slots PROVE GoodChain(call_list'[s], s, unique)
    BY <1>3 DEF ChainsGood
  <2>1. GoodChain(call_list[s], s, unique)
    BY DEF ChainsInv, ChainsGood
  <2> QED
    BY <1>1, <1>4, <1>5, <2>1, KeepsGood
<1>8. Places' = PlacesOn(call_list') /\ Pending' = Seen(call_list')
  BY <1>6, SeenNext
<1>9. ASSUME NEW s \in Slots
      PROVE  Views(call_list'[s], s) = {e \in Views(call_list[s], s) : e.ob # o /\ e.ob \notin destructed}
  <2>1. Views(call_list'[s], s) = {View(call_list[s], s, i) : i \in K[s]}
    BY <1>5, KeepsViews
  <2>2. \A i : View(call_list[s], s, i).ob = call_list[s][i].ob
    BY DEF View
  <2>3. \A i \in 1..Len(call_list[s]) : i \in K[s] <=> View(call_list[s], s, i).ob # o /\ View(call_list[s], s, i).ob \notin destructed
    BY <1>4, <2>2 DEF Stays
  <2>4. K[s] \subseteq 1..Len(call_list[s])
    BY <1>4
  <2> QED
    BY <2>1, <2>3, <2>4 DEF Views
<1>10. Seen(call_list') = {e \in Seen(call_list) : e.ob # o /\ e.ob \notin destructed}
  BY <1>9 DEF Seen
<1>11. /\ IsFiniteSet(Places') /\ Cardinality(Places') \in Nat
       /\ Cardinality(Places') = Cardinality(left)
  <2>1. IsFiniteSet(PlacesOn(call_list))
    BY <1>1 DEF ChainsInv, Counted
  <2>2. \A s \in Slots : K[s] \subseteq 1..Len(call_list[s]) /\ Len(call_list'[s]) = Cardinality(K[s])
    BY <1>4, <1>5
  <2>3. /\ IsFiniteSet(PlacesOn(call_list'))
        /\ Cardinality(PlacesOn(call_list')) = Cardinality(KeptPlaces(call_list, K))
    <3>1. PICK list \in [Slots -> Seq(Call)] : list = call_list
      BY <1>1
    <3>2. PICK new \in [Slots -> Seq(Call)] : new = call_list'
      BY <1>6
    <3>3. IsFiniteSet(PlacesOn(list)) /\ KeepsOnly(list, K, new)
      BY <1>4, <2>1, <2>2, <3>1, <3>2 DEF KeepsOnly
    <3>4. /\ IsFiniteSet(PlacesOn(new))
          /\ Cardinality(PlacesOn(new)) = Cardinality(KeptPlaces(list, K))
      BY <3>3, PlacesKept
    <3> QED
      BY <3>1, <3>2, <3>4
  <2>4. \A p \in PlacesOn(call_list) : p[2] \in K[p[1]] <=> Stays(call_list[p[1]][p[2]], o)
    BY <1>1, <1>4, PlaceIs
  <2>5. KeptPlaces(call_list, K) = left
    BY <1>1, <2>4 DEF KeptPlaces
  <2> QED
    BY <1>8, <2>3, <2>5, FS_CardinalityType
<1>12. Cardinality(Places) = Cardinality(left) + Cardinality(gone) /\ Cardinality(gone) \in Nat
  <2>1. IsFiniteSet(Places)
    BY DEF ChainsInv, Counted
  <2>2. gone \in SUBSET Places /\ left = Places \ gone /\ Places \cap gone = gone
    OBVIOUS
  <2> HIDE DEF left, gone
  <2>3. IsFiniteSet(gone)
    BY <2>1, <2>2, FS_Subset
  <2>4. Cardinality(gone) \in Nat /\ Cardinality(Places) \in Nat
    BY <2>1, <2>3, FS_CardinalityType
  <2>5. Cardinality(left) = Cardinality(Places) - Cardinality(gone)
    <3>1. Cardinality(Places \ gone) = Cardinality(Places) - Cardinality(Places \cap gone)
      BY <2>1, FS_Difference
    <3> QED
      BY <2>2, <3>1
  <2> QED
    BY <2>4, <2>5
<1> HIDE DEF left, gone
<1>13. TypeOK'
  <2>1. TypeOK /\ destructed \subseteq Objects /\ pc \in {"lpc", "slots", "chain", "callback"} /\ cop \in Call \cup {NoCall}
        /\ unique \in Nat /\ call_out_time \in Nat /\ current_time \in Nat \ {0}
    BY DEF TypeOK, ChainsInv, Call
  <2> QED
    BY <1>1, <1>3, <1>6, <1>12, <2>1, Typed
<1>14. Timely'
  BY <1>3 DEF Timely, ChainsInv
<1>15. Waiting'
  BY <1>3, <1>10 DEF ChainsInv, Waiting, Visited
<1>16. CallsConserved'
  <2>1. PICK n \in Nat : n = Cardinality(Places')
    BY <1>11
  <2>2. PICK g \in Nat : g = Cardinality(gone)
    BY <1>12
  <2>3. num_call = call_list_free + (n + g) + (IF cop = NoCall THEN 0 ELSE 1)
    BY <1>11, <1>12, <2>1, <2>2 DEF ChainsInv, Counted, CallsConserved
  <2>4. num_call' = call_list_free' + n + (IF cop' = NoCall THEN 0 ELSE 1)
    BY <1>1, <1>3, <2>2, <2>3
  <2> QED
    BY <2>1, <2>4 DEF CallsConserved
<1>17. ChainsInv'
  BY <1>7, <1>11, <1>13, <1>14, <1>15, <1>16 DEF ChainsInv, Counted
<1>18. Wheel!RemoveAll(o)
  BY <1>1, <1>3, <1>8, <1>10 DEF Wheel!RemoveAll, Wheel!LpcRuns, LpcRuns
<1> QED
  BY <1>17, <1>18

(* The first entry of a chain waits its delta; the others no less.         *)
LEMMA FirstWaitsLeast ==
  ASSUME NEW c \in Seq(Call), c # <<>>
  PROVE  /\ 1 \in 1..Len(c) /\ Laps(c, 1) = c[1].delta /\ c[1].delta \in Nat /\ Head(c) = c[1]
         /\ \A i \in 1..Len(c) : Laps(c, i) \in Nat /\ Laps(c, i) >= Laps(c, 1)
<1>1. Len(c) \in Nat \ {0} /\ 1 \in 1..Len(c)
  BY EmptySeq, LenProperties
<1>2. c[1].delta \in Nat
  BY <1>1, CallsOf
<1>3. /\ Laps(c, 0) = 0
      /\ \A i \in 0..Len(c) : Laps(c, i) \in Nat
      /\ \A i \in 1..Len(c) : Laps(c, i) = Laps(c, i - 1) + c[i].delta
      /\ \A i, j \in 0..Len(c) : i <= j => Laps(c, i) <= Laps(c, j)
  BY LapsAlong
<1>4. Laps(c, 1) = c[1].delta
  BY <1>1, <1>2, <1>3
<1>5. \A i \in 1..Len(c) : Laps(c, i) \in Nat /\ Laps(c, i) >= Laps(c, 1)
  <2> SUFFICES ASSUME NEW i \in 1..Len(c) PROVE Laps(c, i) \in Nat /\ Laps(c, i) >= Laps(c, 1)
    OBVIOUS
  <2>1. 1 \in 0..Len(c) /\ i \in 0..Len(c) /\ 1 <= i
    BY <1>1
  <2>2. Laps(c, 1) <= Laps(c, i) /\ Laps(c, i) \in Nat /\ Laps(c, 1) \in Nat
    BY <1>3, <2>1
  <2> QED
    BY <2>2
<1>6. Head(c) = c[1]
  BY HeadTailProperties
<1> QED
  BY <1>1, <1>2, <1>4, <1>5, <1>6

(* The calls the wheel finds due are those at the front of the chain.      *)
LEMMA DueInFront ==
  ASSUME NEW list \in [Slots -> Seq(Call)], NEW s \in Slots
  PROVE  LET due == {e \in Seen(list) : e.slot = s /\ e.laps = 0}
         IN  /\ due = {v \in Views(list[s], s) : v.laps = 0}
             /\ due # {} <=> list[s] # <<>> /\ Head(list[s]).delta = 0
<1> DEFINE due == {e \in Seen(list) : e.slot = s /\ e.laps = 0}
           c == list[s]
<1>1. c \in Seq(Call)
  OBVIOUS
<1>2. due = {v \in Views(c, s) : v.laps = 0}
  <2>1. \A e : e \in Seen(list) /\ e.slot = s <=> e \in Views(c, s)
    BY ViewSlot DEF Seen
  <2> QED
    BY <2>1
<1>3. ASSUME c = <<>> PROVE due = {}
  <2>1. Len(c) = 0 /\ Views(c, s) = {}
    BY <1>3 DEF Views
  <2> QED
    BY <1>2, <2>1
<1>4. ASSUME c # <<>> PROVE due # {} <=> Head(c).delta = 0
  <2>1. /\ 1 \in 1..Len(c) /\ Laps(c, 1) = c[1].delta /\ c[1].delta \in Nat /\ Head(c) = c[1]
        /\ \A i \in 1..Len(c) : Laps(c, i) \in Nat /\ Laps(c, i) >= Laps(c, 1)
    BY <1>1, <1>4, FirstWaitsLeast
  <2>2. \A i : View(c, s, i).laps = Laps(c, i)
    BY DEF View
  <2>3. ASSUME Head(c).delta = 0 PROVE due # {}
    <3>1. View(c, s, 1) \in Views(c, s) /\ View(c, s, 1).laps = 0
      BY <2>1, <2>2, <2>3 DEF Views
    <3> QED
      BY <1>2, <3>1
  <2>4. ASSUME NEW v \in due PROVE Head(c).delta = 0
    <3>1. v \in Views(c, s) /\ v.laps = 0
      BY <1>2
    <3>2. PICK i \in 1..Len(c) : v = View(c, s, i)
      BY <3>1 DEF Views
    <3>3. Laps(c, i) = 0
      BY <2>2, <3>1, <3>2
    <3>4. c[1].delta = 0
      BY <2>1, <3>3
    <3> QED
      BY <2>1, <3>4
  <2> QED
    BY <2>3, <2>4
<1> QED
  BY <1>2, <1>3, <1>4

(* The visit of the next slot: its calls lose a lap, or the clock moves on *)
(* when none is due.                                                       *)
LEMMA VisitStep ==
  ASSUME ChainsInv, VisitSlot
  PROVE  ChainsInv' /\ Wheel!VisitSlot
<1> DEFINE s == Visited
           c == call_list[s]
           r == IF c = <<>> THEN c ELSE [c EXCEPT ![1].delta = @ - 1]
<1>1. /\ call_list \in [Slots -> Seq(Call)] /\ CYCLE \in Nat \ {0}
      /\ call_list_free \in Nat /\ num_call \in Nat
      /\ unique \in Nat /\ call_out_time \in Nat /\ current_time \in Nat \ {0}
      /\ s \in Slots /\ Places = PlacesOn(call_list) /\ Pending = Seen(call_list)
  BY ChainsFacts
<1>2. c \in Seq(Call) /\ GoodChain(c, s, unique)
  BY <1>1 DEF ChainsInv, ChainsGood
<1>3. /\ pc = "slots" /\ call_out_time < current_time
      /\ IF c # <<>> /\ Head(c).delta = 1
           THEN pc' = "chain" /\ call_out_time' = call_out_time
           ELSE pc' = "slots" /\ call_out_time' = call_out_time + 1
      /\ UNCHANGED <<call_list_free, num_call, unique, current_time, destructed, cop>>
  BY DEF VisitSlot
<1>4. call_list' = [call_list EXCEPT ![s] = r]
  <2>1. CASE c = <<>>
    BY <1>1, <2>1 DEF VisitSlot
  <2>2. CASE c # <<>>
    BY <1>1, <2>2 DEF VisitSlot
  <2> QED
    BY <2>1, <2>2
<1>5. \A v \in Seen(call_list) : v.laps >= 1
  BY <1>3 DEF ChainsInv, Waiting
<1>6. c # <<>> => c[1].delta >= 1 /\ c[1].delta \in Nat /\ Head(c) = c[1]
  <2> SUFFICES ASSUME c # <<>> PROVE c[1].delta >= 1 /\ c[1].delta \in Nat /\ Head(c) = c[1]
    OBVIOUS
  <2>1. 1 \in 1..Len(c) /\ Laps(c, 1) = c[1].delta /\ c[1].delta \in Nat /\ Head(c) = c[1]
    BY <1>2, FirstWaitsLeast
  <2>2. View(c, s, 1) \in Seen(call_list)
    BY <1>1, <2>1 DEF Seen, Views
  <2>3. View(c, s, 1).laps = Laps(c, 1)
    BY DEF View
  <2> QED
    BY <1>5, <2>1, <2>2, <2>3
<1> HIDE DEF s, r
<1>7. /\ r \in Seq(Call) /\ Len(r) = Len(c) /\ (r = <<>> <=> c = <<>>)
      /\ c # <<>> => r[1].delta = c[1].delta - 1 /\ Head(r) = r[1]
      /\ \A j \in 1..Len(c) : SameCall(r[j], c[j]) /\ Laps(r, j) = Laps(c, j) - 1
  <2>1. CASE c = <<>>
    BY <1>2, <2>1 DEF r
  <2>2. CASE c # <<>>
    <3>1. r = [c EXCEPT ![1].delta = @ - 1]
      BY <2>2 DEF r
    <3>2. /\ r \in Seq(Call) /\ Len(r) = Len(c) /\ r[1].delta = c[1].delta - 1
          /\ \A j \in 1..Len(c) : SameCall(r[j], c[j]) /\ Laps(r, j) = Laps(c, j) - 1
      BY <1>2, <1>6, <2>2, <3>1, VisitTakesLap
    <3>3. Len(c) # 0
      BY <1>2, <2>2, EmptySeq, LenProperties
    <3>4. r # <<>>
      BY <3>2, <3>3
    <3> QED
      BY <2>2, <3>2, <3>4, HeadTailProperties
  <2> QED
    BY <2>1, <2>2
<1>8. GoodChain(r, s, unique)
  BY <1>1, <1>2, <1>7, VisitGood
<1>9. Views(r, s) = {[v EXCEPT !.laps = @ - 1] : v \in Views(c, s)}
  BY <1>7, VisitViews
<1>10. call_list' \in [Slots -> Seq(Call)] /\ call_list'[s] = r /\ \A t \in Slots : t # s => call_list'[t] = call_list[t]
  BY <1>1, <1>4, <1>7, OneSlot
<1>11. Places' = PlacesOn(call_list') /\ Pending' = Seen(call_list')
  BY <1>10, SeenNext
<1>12. Places' = Places
  <2>1. \A t \in Slots : Len(call_list'[t]) = Len(call_list[t])
    BY <1>7, <1>10
  <2>2. PlacesOn(call_list') = PlacesOn(call_list)
    BY <1>1, <1>10, <2>1, PlacesSame
  <2> QED
    BY <1>1, <1>11, <2>2
<1> DEFINE after == {IF e.slot = s THEN [e EXCEPT !.laps = @ - 1] ELSE e : e \in Seen(call_list)}
<1>13. Seen(call_list') = after
  <2>1. /\ \A x : x \in Seen(call_list') <=> x \in Views(r, s) \/ \E t \in Slots : t # s /\ x \in Views(call_list[t], t)
        /\ \A x : x \in Seen(call_list) <=> x \in Views(c, s) \/ \E t \in Slots : t # s /\ x \in Views(call_list[t], t)
    <3>1. call_list \in [Slots -> Seq(Call)] /\ s \in Slots /\ r \in Seq(Call)
      BY <1>1, <1>7
    <3>2. PICK new : new = call_list'
      OBVIOUS
    <3>3. new = [call_list EXCEPT ![s] = r]
      BY <1>4, <3>2
    <3>4. /\ \A x : x \in Seen(new) <=> x \in Views(r, s) \/ \E t \in Slots : t # s /\ x \in Views(call_list[t], t)
          /\ \A x : x \in Seen(call_list) <=> x \in Views(c, s) \/ \E t \in Slots : t # s /\ x \in Views(call_list[t], t)
      BY <3>1, <3>3, SeenOneSlot
    <3> QED
      BY <3>2, <3>4
  <2>2. ASSUME NEW x \in Seen(call_list') PROVE x \in after
    <3>1. CASE x \in Views(r, s)
      <4>1. PICK v \in Views(c, s) : x = [v EXCEPT !.laps = @ - 1]
        BY <1>9, <3>1
      <4>2. v \in Seen(call_list) /\ v.slot = s
        BY <2>1, ViewSlot
      <4> QED
        BY <4>1, <4>2
    <3>2. CASE \E t \in Slots : t # s /\ x \in Views(call_list[t], t)
      <4>1. x \in Seen(call_list) /\ x.slot # s
        BY <2>1, <3>2, ViewSlot
      <4> QED
        BY <4>1
    <3> QED
      BY <2>1, <3>1, <3>2
  <2>3. ASSUME NEW x \in after PROVE x \in Seen(call_list')
    <3>1. PICK e \in Seen(call_list) : x = IF e.slot = s THEN [e EXCEPT !.laps = @ - 1] ELSE e
      OBVIOUS
    <3>2. CASE e \in Views(c, s)
      <4>1. e.slot = s
        BY <3>2, ViewSlot
      <4>2. x \in Views(r, s)
        BY <1>9, <3>1, <3>2, <4>1
      <4> QED
        BY <2>1, <4>2
    <3>3. CASE \E t \in Slots : t # s /\ e \in Views(call_list[t], t)
      <4>1. e.slot # s
        BY <3>3, ViewSlot
      <4> QED
        BY <2>1, <3>1, <3>3, <4>1
    <3> QED
      BY <2>1, <3>2, <3>3
  <2> QED
    BY <2>2, <2>3
<1> HIDE DEF after
<1>14. {e \in after : e.slot = s /\ e.laps = 0} # {} <=> c # <<>> /\ Head(c).delta = 1
  <2>1. {e \in Seen(call_list') : e.slot = s /\ e.laps = 0} # {} <=> r # <<>> /\ Head(r).delta = 0
    BY <1>1, <1>10, DueInFront
  <2>2. r # <<>> /\ Head(r).delta = 0 <=> c # <<>> /\ Head(c).delta = 1
    BY <1>6, <1>7
  <2> QED
    BY <1>13, <2>1, <2>2
<1>15. TypeOK'
  <2>1. TypeOK /\ destructed \subseteq Objects /\ cop \in Call \cup {NoCall}
    BY DEF TypeOK, ChainsInv, Call
  <2>2. call_out_time' \in Nat /\ pc' \in {"lpc", "slots", "chain", "callback"}
    BY <1>1, <1>3
  <2> QED
    BY <1>1, <1>3, <1>10, <2>1, <2>2, Typed
<1>16. ChainsGood'
  BY <1>3, <1>8, <1>10 DEF ChainsInv, ChainsGood
<1>17. Timely'
  BY <1>1, <1>3 DEF Timely, ChainsInv
<1>18. Waiting'
  <2> SUFFICES ASSUME NEW v \in Seen(call_list')
               PROVE  v.laps >= 1 \/ (pc' \in {"chain", "callback"} /\ v.slot = Visited')
    BY DEF Waiting
  <2>1. PICK e \in Seen(call_list) : v = IF e.slot = s THEN [e EXCEPT !.laps = @ - 1] ELSE e
    BY <1>13 DEF after
  <2>2. CASE e.slot # s
    BY <1>5, <2>1, <2>2
  <2>3. CASE pc' = "chain" /\ e.slot = s
    <3>1. call_out_time' = call_out_time
      BY <1>3, <2>3
    <3>2. Visited' = s
      BY <3>1 DEF Visited, SlotOf, s
    <3>3. v.slot = s
      <4>1. PICK t \in Slots : e \in Views(call_list[t], t)
        BY DEF Seen
      <4>2. PICK i : e = View(call_list[t], t, i)
        BY <4>1 DEF Views
      <4> QED
        BY <2>1, <2>3, <4>2 DEF View
    <3> QED
      BY <2>3, <3>2, <3>3
  <2>4. CASE pc' # "chain" /\ e.slot = s
    <3>1. ~(c # <<>> /\ Head(c).delta = 1)
      BY <1>3, <2>4
    <3>2. {x \in after : x.slot = s /\ x.laps = 0} = {}
      BY <1>14, <3>1
    <3>3. PICK i \in 1..Len(c) : e = View(c, s, i)
      <4>1. PICK t \in Slots : e \in Views(call_list[t], t)
        BY DEF Seen
      <4>2. t = s
        BY <2>4, <4>1, ViewSlot
      <4> QED
        BY <4>1, <4>2 DEF Views
    <3>4. v.slot = s /\ v.laps = Laps(c, i) - 1 /\ e.laps = Laps(c, i)
      BY <2>1, <2>4, <3>3 DEF View
    <3>5. Laps(c, i) \in Nat /\ Laps(c, i) >= 1
      BY <1>2, <1>5, <3>4, CallsOf, LapsAlong
    <3>6. v \in after
      BY <1>13
    <3>7. v.laps # 0
      BY <3>2, <3>4, <3>6
    <3> QED
      BY <3>4, <3>5, <3>7
  <2> QED
    BY <2>2, <2>3, <2>4
<1>19. Counted'
  BY <1>3, <1>12 DEF ChainsInv, Counted, CallsConserved
<1>20. ChainsInv'
  BY <1>15, <1>16, <1>17, <1>18, <1>19 DEF ChainsInv
<1>21. Wheel!VisitSlot
  <2>1. Wheel!Visited = s
    BY DEF Wheel!Visited, Visited, SlotOf, s
  <2>2. Wheel!AfterVisit = after
    BY <1>1, <2>1 DEF Wheel!AfterVisit, after
  <2>3. Wheel!Due(after) = {e \in after : e.slot = s /\ e.laps = 0}
    BY <2>1 DEF Wheel!Due
  <2>4. Pending' = after
    BY <1>11, <1>13
  <2> QED
    BY <1>3, <1>14, <2>2, <2>3, <2>4 DEF Wheel!VisitSlot
<1> QED
  BY <1>20, <1>21

(* call_out() takes the head of the chain: the newest of the calls due.    *)
LEMMA TakeFirstStep ==
  ASSUME ChainsInv, TakeFirst
  PROVE  ChainsInv' /\ \E e \in Pending : Wheel!TakeFirst(e)
<1> DEFINE s == Visited
           c == call_list[s]
           v == View(c, s, 1)
<1>1. /\ call_list \in [Slots -> Seq(Call)] /\ CYCLE \in Nat \ {0}
      /\ call_list_free \in Nat /\ num_call \in Nat
      /\ unique \in Nat /\ call_out_time \in Nat /\ current_time \in Nat \ {0}
      /\ s \in Slots /\ Places = PlacesOn(call_list) /\ Pending = Seen(call_list)
  BY ChainsFacts
<1>2. c \in Seq(Call) /\ GoodChain(c, s, unique)
  BY <1>1 DEF ChainsInv, ChainsGood
<1>3. /\ pc = "chain" /\ c # <<>> /\ Head(c).delta = 0
      /\ call_list' = [call_list EXCEPT ![s] = Tail(c)]
      /\ IF Dropped(Head(c))
           THEN pc' = pc /\ cop' = cop /\ call_list_free' = call_list_free + 1
           ELSE pc' = "callback" /\ cop' = Head(c) /\ call_list_free' = call_list_free
      /\ UNCHANGED <<num_call, unique, call_out_time, current_time, destructed>>
  BY DEF TakeFirst, HeadIsDue
<1>4. /\ 1 \in 1..Len(c) /\ Laps(c, 1) = c[1].delta /\ Head(c) = c[1]
      /\ \A i \in 1..Len(c) : Laps(c, i) \in Nat /\ Laps(c, i) >= Laps(c, 1)
  BY <1>2, <1>3, FirstWaitsLeast
<1>5. Len(Tail(c)) = Len(c) - 1 /\ Keeps(c, (1..Len(c)) \ {1}, Tail(c))
  BY <1>2, <1>3, <1>4, TailKeeps
<1> HIDE DEF s
<1>6. /\ call_list' \in [Slots -> Seq(Call)] /\ ChainsGood'
      /\ v \in Pending /\ Pending' = Pending \ {v}
      /\ Seen(call_list') \subseteq Seen(call_list)
      /\ IsFiniteSet(Places') /\ Cardinality(Places') \in Nat
      /\ Cardinality(Places) = Cardinality(Places') + 1
  <2>1. PICK r : r = Tail(c)
    OBVIOUS
  <2>2. /\ Len(r) = Len(call_list[s]) - 1 /\ Keeps(call_list[s], (1..Len(call_list[s])) \ {1}, r)
        /\ call_list' = [call_list EXCEPT ![s] = r] /\ unique' = unique
    BY <1>3, <1>5, <2>1
  <2> QED
    BY <1>1, <1>4, <2>2, OneLeaves
<1>7. v.slot = s /\ v.laps = 0 /\ v.id = IdOf(c[1]) /\ v.ob = c[1].ob /\ v.fun = c[1].fun
  BY <1>3, <1>4 DEF View
<1>8. ASSUME NEW x \in Seen(call_list), x.slot = s, x.laps = 0 PROVE x.id <= v.id
  <2>1. PICK t \in Slots : x \in Views(call_list[t], t)
    BY DEF Seen
  <2>2. t = s
    BY <1>8, <2>1, ViewSlot
  <2>3. PICK j \in 1..Len(c) : x = View(c, s, j)
    BY <2>1, <2>2 DEF Views
  <2>4. x.id = IdOf(c[j]) /\ Laps(c, j) = 0
    BY <1>8, <2>3 DEF View
  <2>5. j = 1 \/ 1 < j
    BY <1>2, CallsOf
  <2>6. IdOf(c[1]) \in Nat /\ (1 < j => IdOf(c[1]) > IdOf(c[j]))
    BY <1>2, <1>3, <1>4, <2>4 DEF GoodChain
  <2>7. IdOf(c[j]) \in Nat
    BY <1>2 DEF GoodChain
  <2> QED
    BY <1>7, <2>4, <2>5, <2>6, <2>7
<1> HIDE DEF v
<1>9. c[1] \in Call /\ c[1] # NoCall
  <2>1. c[1] \in Call
    BY <1>2, <1>4, CallsOf
  <2> QED
    BY <2>1, CallOutAssumption DEF Call
<1>10. TypeOK'
  <2>1. TypeOK /\ destructed \subseteq Objects /\ cop \in Call \cup {NoCall}
    BY DEF TypeOK, ChainsInv, Call
  <2>2. /\ pc' \in {"lpc", "slots", "chain", "callback"} /\ call_list_free' \in Nat
        /\ cop' \in Call \cup {NoCall}
    BY <1>1, <1>3, <1>4, <1>9, <2>1
  <2> QED
    BY <1>1, <1>3, <1>6, <2>1, <2>2, Typed
<1>11. cop = NoCall /\ call_out_time # 0 /\ call_out_time < current_time
  BY <1>3 DEF ChainsInv, Timely
<1>12. Timely'
  BY <1>1, <1>3, <1>4, <1>9, <1>11 DEF Timely
<1>13. Waiting'
  <2>1. pc' \in {"chain", "callback"} /\ Visited' = Visited
    BY <1>3 DEF Visited, SlotOf
  <2> QED
    BY <1>3, <1>6, <2>1 DEF ChainsInv, Waiting
<1>14. CallsConserved'
  <2>1. PICK n \in Nat : n = Cardinality(Places')
    BY <1>6
  <2>2. num_call = call_list_free + (n + 1) + 0
    BY <1>6, <1>11, <2>1 DEF ChainsInv, Counted, CallsConserved
  <2>3. CASE Dropped(Head(c))
    <3>1. num_call' = call_list_free' + n + 0
      BY <1>1, <1>3, <2>2, <2>3
    <3> QED
      BY <1>3, <1>11, <2>1, <2>3, <3>1 DEF CallsConserved
  <2>4. CASE ~Dropped(Head(c))
    <3>1. num_call' = call_list_free' + n + 1
      BY <1>1, <1>3, <2>2, <2>4
    <3> QED
      BY <1>3, <1>4, <1>9, <2>1, <2>4, <3>1 DEF CallsConserved
  <2> QED
    BY <2>3, <2>4
<1>15. ChainsInv'
  BY <1>6, <1>10, <1>12, <1>13, <1>14 DEF ChainsInv, Counted
<1>16. Wheel!TakeFirst(v)
  <2>1. Wheel!Visited = s
    BY DEF Wheel!Visited, Visited, SlotOf, s
  <2>2. v \in Wheel!Due(Pending) /\ \A x \in Wheel!Due(Pending) : x.id <= v.id
    BY <1>1, <1>6, <1>7, <1>8, <2>1 DEF Wheel!Due
  <2>3. Wheel!Dropped(v) <=> Dropped(Head(c))
    BY <1>4, <1>7 DEF Wheel!Dropped, Dropped
  <2>4. CASE Dropped(Head(c))
    BY <1>3, <1>6, <2>2, <2>3, <2>4 DEF Wheel!TakeFirst
  <2>5. CASE ~Dropped(Head(c))
    <3>1. (IF cop' = NoCall THEN NoCall ELSE [id |-> cop'.handle \div CYCLE, ob |-> cop'.ob, fun |-> cop'.fun])
            = [id |-> v.id, ob |-> v.ob, fun |-> v.fun]
      BY <1>3, <1>4, <1>7, <1>9, <2>5 DEF IdOf
    <3> QED
      BY <1>3, <1>6, <2>2, <2>3, <2>5, <3>1 DEF Wheel!TakeFirst
  <2> QED
    BY <2>4, <2>5
<1> QED
  BY <1>6, <1>15, <1>16

(* Steps that leave the chains alone.                                      *)
LEMMA QuietStep ==
  ASSUME ChainsInv, call_list' = call_list, unique' = unique
  PROVE  /\ call_list' \in [Slots -> Seq(Call)] /\ ChainsGood'
         /\ Pending' = Pending /\ Places' = Places /\ Seen(call_list') = Seen(call_list)
<1>1. call_list \in [Slots -> Seq(Call)] /\ Places = PlacesOn(call_list) /\ Pending = Seen(call_list)
  BY ChainsFacts
<1>2. Places' = PlacesOn(call_list') /\ Pending' = Seen(call_list')
  BY <1>1, SeenNext
<1>3. ChainsGood'
  BY DEF ChainsInv, ChainsGood
<1> QED
  BY <1>1, <1>2, <1>3

(* The steps that leave the chains alone.                                  *)
LEMMA OtherSteps ==
  ASSUME ChainsInv
  PROVE  /\ TimePasses => ChainsInv' /\ Wheel!TimePasses
         /\ CallOutBegin => ChainsInv' /\ Wheel!CallOutBegin
         /\ CallbackReturns => ChainsInv' /\ Wheel!CallbackReturns
         /\ LeaveSlot => ChainsInv' /\ Wheel!LeaveSlot
         /\ CallOutEnd => ChainsInv' /\ Wheel!CallOutEnd
         /\ \A o \in Objects : Destruct(o) => ChainsInv' /\ Wheel!Destruct(o)
         /\ UNCHANGED vars => ChainsInv' /\ UNCHANGED Wheel!vars
<1>1. /\ call_list \in [Slots -> Seq(Call)] /\ CYCLE \in Nat \ {0}
      /\ call_list_free \in Nat /\ num_call \in Nat
      /\ unique \in Nat /\ call_out_time \in Nat /\ current_time \in Nat \ {0}
      /\ Visited \in Slots /\ Places = PlacesOn(call_list) /\ Pending = Seen(call_list)
      /\ Started \in Nat \ {0} /\ Started <= current_time
      /\ pc # "lpc" => Started = call_out_time
  BY ChainsFacts
<1>2. /\ TypeOK /\ destructed \subseteq Objects /\ cop \in Call \cup {NoCall}
      /\ pc \in {"lpc", "slots", "chain", "callback"}
  BY DEF TypeOK, ChainsInv, Call
<1>3. /\ Timely /\ Waiting /\ IsFiniteSet(Places)
      /\ num_call = call_list_free + Cardinality(Places) + (IF cop = NoCall THEN 0 ELSE 1)
  BY DEF ChainsInv, Counted, CallsConserved
<1>4. Wheel!Started = Started /\ Wheel!Visited = Visited /\ (Wheel!LpcRuns <=> LpcRuns)
  BY DEF Wheel!Visited, Visited, SlotOf, Wheel!Started, Started, Wheel!LpcRuns, LpcRuns
<1>5. Wheel!Due(Pending) # {} <=> HeadIsDue
  <2>1. {e \in Seen(call_list) : e.slot = Visited /\ e.laps = 0} # {}
          <=> call_list[Visited] # <<>> /\ Head(call_list[Visited]).delta = 0
    BY <1>1, DueInFront
  <2> QED
    BY <1>1, <1>4, <2>1 DEF Wheel!Due, HeadIsDue
<1>6. ASSUME call_list' = call_list, unique' = unique, num_call' = num_call, call_list_free' = call_list_free,
             cop' = cop, destructed' \subseteq Objects,
             call_out_time' \in Nat, current_time' \in Nat \ {0}, pc' \in {"lpc", "slots", "chain", "callback"},
             Timely', Waiting'
      PROVE  ChainsInv' /\ Pending' = Pending
  <2>1. /\ call_list' \in [Slots -> Seq(Call)] /\ ChainsGood'
        /\ Pending' = Pending /\ Places' = Places
    BY <1>6, QuietStep
  <2>2. TypeOK'
    BY <1>1, <1>2, <1>6, <2>1, Typed
  <2>3. Counted'
    BY <1>3, <1>6, <2>1 DEF Counted, CallsConserved
  <2> QED
    BY <1>6, <2>1, <2>2, <2>3 DEF ChainsInv
<1>7. ASSUME TimePasses PROVE ChainsInv' /\ Wheel!TimePasses
  <2>1. PICK d \in Steps : current_time + d <= MaxTime /\ current_time' = current_time + d
    BY <1>7 DEF TimePasses
  <2>2. current_time' \in Nat \ {0} /\ current_time <= current_time'
    BY <1>1, <2>1, CallOutAssumption
  <2>3. /\ pc = "lpc" /\ UNCHANGED <<call_list, call_list_free, num_call, unique, call_out_time, destructed, pc, cop>>
    BY <1>7 DEF TimePasses
  <2>4. Timely'
    BY <1>1, <1>3, <2>2, <2>3 DEF Timely
  <2>5. Waiting'
    BY <1>3, <2>3 DEF Waiting, Visited
  <2>6. ChainsInv' /\ Pending' = Pending
    BY <1>1, <1>2, <1>6, <2>2, <2>3, <2>4, <2>5
  <2> QED
    BY <2>1, <2>3, <2>6 DEF Wheel!TimePasses
<1>8. ASSUME CallOutBegin PROVE ChainsInv' /\ Wheel!CallOutBegin
  <2>1. /\ pc = "lpc" /\ pc' = "slots" /\ call_out_time' = Started
        /\ UNCHANGED <<call_list, call_list_free, num_call, unique, current_time, destructed, cop>>
    BY <1>8 DEF CallOutBegin
  <2>2. Timely'
    BY <1>1, <1>3, <2>1 DEF Timely
  <2>3. Waiting'
    BY <1>3, <2>1 DEF Waiting
  <2>4. ChainsInv' /\ Pending' = Pending
    BY <1>1, <1>2, <1>6, <2>1, <2>2, <2>3
  <2> QED
    BY <1>4, <2>1, <2>4 DEF Wheel!CallOutBegin
<1>9. ASSUME CallbackReturns PROVE ChainsInv' /\ Wheel!CallbackReturns
  <2>1. /\ pc = "callback" /\ pc' = "chain" /\ cop' = NoCall /\ call_list_free' = call_list_free + 1
        /\ UNCHANGED <<call_list, num_call, unique, call_out_time, current_time, destructed>>
    BY <1>9 DEF CallbackReturns
  <2>2. /\ call_list' \in [Slots -> Seq(Call)] /\ ChainsGood'
        /\ Pending' = Pending /\ Places' = Places /\ Seen(call_list') = Seen(call_list)
    BY <2>1, QuietStep
  <2>3. TypeOK'
    BY <1>1, <1>2, <2>1, <2>2, Typed
  <2>4. cop # NoCall /\ Timely'
    BY <1>3, <2>1 DEF Timely
  <2>5. Waiting'
    BY <1>3, <2>1 DEF Waiting, Visited
  <2>6. Counted'
    <3>1. PICK n \in Nat : n = Cardinality(Places)
      BY <1>3, FS_CardinalityType
    <3>2. num_call = call_list_free + n + 1
      BY <1>3, <2>4, <3>1
    <3>3. num_call' = call_list_free' + n + 0
      BY <1>1, <2>1, <3>2
    <3> QED
      BY <1>3, <2>1, <2>2, <3>1, <3>3 DEF Counted, CallsConserved
  <2> QED
    BY <2>1, <2>2, <2>3, <2>4, <2>5, <2>6 DEF ChainsInv, Wheel!CallbackReturns
<1>10. ASSUME LeaveSlot PROVE ChainsInv' /\ Wheel!LeaveSlot
  <2>1. /\ pc = "chain" /\ ~HeadIsDue /\ pc' = "slots" /\ call_out_time' = call_out_time + 1
        /\ UNCHANGED <<call_list, call_list_free, num_call, unique, current_time, destructed, cop>>
    BY <1>10 DEF LeaveSlot
  <2>2. Timely' /\ call_out_time' \in Nat
    BY <1>1, <1>3, <2>1 DEF Timely
  <2>3. Wheel!Due(Pending) = {}
    BY <1>5, <2>1
  <2>4. Waiting'
    <3> SUFFICES ASSUME NEW v \in Seen(call_list') PROVE v.laps >= 1
      BY DEF Waiting
    <3>1. v \in Seen(call_list)
      BY <2>1
    <3>2. v.laps >= 1 \/ v.slot = Visited
      BY <1>3, <3>1 DEF Waiting
    <3>3. ~(v.slot = Visited /\ v.laps = 0)
      BY <1>1, <1>4, <2>3, <3>1 DEF Wheel!Due
    <3>4. v.laps \in Nat
      <4>1. PICK t \in Slots : v \in Views(call_list[t], t)
        BY <3>1 DEF Seen
      <4>2. PICK i \in 1..Len(call_list[t]) : v = View(call_list[t], t, i)
        BY <4>1 DEF Views
      <4>3. call_list[t] \in Seq(Call)
        BY <1>1
      <4>4. Laps(call_list[t], i) \in Nat
        BY <4>3, CallsOf, LapsAlong
      <4> QED
        BY <4>2, <4>4 DEF View
    <3> QED
      BY <3>2, <3>3, <3>4
  <2>5. ChainsInv' /\ Pending' = Pending
    BY <1>1, <1>2, <1>6, <2>1, <2>2, <2>4
  <2> QED
    BY <2>1, <2>3, <2>5 DEF Wheel!LeaveSlot
<1>11. ASSUME CallOutEnd PROVE ChainsInv' /\ Wheel!CallOutEnd
  <2>1. /\ pc = "slots" /\ call_out_time = current_time /\ pc' = "lpc"
        /\ UNCHANGED <<call_list, call_list_free, num_call, unique, call_out_time, current_time, destructed, cop>>
    BY <1>11 DEF CallOutEnd
  <2>2. Timely'
    BY <1>1, <1>3, <2>1 DEF Timely
  <2>3. Waiting'
    BY <1>3, <2>1 DEF Waiting
  <2>4. ChainsInv' /\ Pending' = Pending
    BY <1>1, <1>2, <1>6, <2>1, <2>2, <2>3
  <2> QED
    BY <2>1, <2>4 DEF Wheel!CallOutEnd
<1>12. ASSUME NEW o \in Objects, Destruct(o) PROVE ChainsInv' /\ Wheel!Destruct(o)
  <2>1. /\ LpcRuns /\ destructed' = destructed \cup {o}
        /\ UNCHANGED <<call_list, call_list_free, num_call, unique, call_out_time, current_time, pc, cop>>
    BY <1>12 DEF Destruct
  <2>2. Timely' /\ Waiting'
    BY <1>3, <2>1 DEF Timely, Waiting, Visited
  <2>3. ChainsInv' /\ Pending' = Pending
    BY <1>1, <1>2, <1>6, <2>1, <2>2
  <2> QED
    BY <1>4, <2>1, <2>3 DEF Wheel!Destruct
<1>13. ASSUME UNCHANGED vars PROVE ChainsInv' /\ UNCHANGED Wheel!vars
  <2>1. UNCHANGED <<call_list, call_list_free, num_call, unique, call_out_time, current_time, destructed, pc, cop>>
    BY <1>13 DEF vars
  <2>2. Timely' /\ Waiting'
    BY <1>3, <2>1 DEF Timely, Waiting, Visited
  <2>3. ChainsInv' /\ Pending' = Pending
    BY <1>1, <1>2, <1>6, <2>1, <2>2
  <2> QED
    BY <2>1, <2>3 DEF Wheel!vars
<1> QED
  BY <1>7, <1>8, <1>9, <1>10, <1>11, <1>12, <1>13
-----------------------------------------------------------------------------
(* The driver starts with an empty wheel.                                  *)
LEMMA ChainsInit == init => ChainsInv /\ Wheel!Init
<1> SUFFICES ASSUME init PROVE ChainsInv /\ Wheel!Init
  OBVIOUS
<1>1. /\ call_list = [s \in Slots |-> <<>>] /\ call_list_free = 0 /\ num_call = 0
      /\ unique = 0 /\ call_out_time = 0 /\ destructed = {}
      /\ pc = "lpc" /\ cop = NoCall /\ current_time \in StartTimes
  BY DEF init
<1>2. <<>> \in Seq(Call) /\ Len(<<>>) = 0
  OBVIOUS
<1>3. call_list \in [Slots -> Seq(Call)] /\ \A s \in Slots : call_list[s] = <<>>
  BY <1>1, <1>2
<1>4. PlacesOn(call_list) = {} /\ Seen(call_list) = {}
  <2>1. \A s \in Slots : Views(call_list[s], s) = {}
    BY <1>2, <1>3 DEF Views
  <2>2. \A s \in Slots : DOMAIN call_list[s] = {}
    BY <1>3
  <2> QED
    BY <2>1, <2>2 DEF PlacesOn, Seen
<1>5. Places = {} /\ Pending = {}
  <2>1. Places = PlacesOn(call_list)
    BY DEF Places, PlacesOn
  <2>2. Pending = Seen(call_list)
    BY <1>3, <2>1, SeenIs DEF Pending
  <2> QED
    BY <1>4, <2>1, <2>2
<1>6. TypeOK
  BY <1>1, <1>3, CallOutAssumption DEF TypeOK, Call
<1>7. ChainsGood
  BY <1>2, <1>3 DEF ChainsGood, GoodChain
<1>8. Timely /\ Waiting
  <2>1. current_time \in Nat \ {0}
    BY <1>1, CallOutAssumption
  <2> QED
    BY <1>1, <1>4, <2>1 DEF Timely, Waiting
<1>9. Counted
  BY <1>1, <1>5, FS_EmptySet DEF Counted, CallsConserved
<1>10. Wheel!Init
  BY <1>1, <1>5 DEF Wheel!Init
<1> QED
  BY <1>6, <1>7, <1>8, <1>9, <1>10 DEF ChainsInv

(* Every step keeps the invariant and is one of the wheel, or none of it.  *)
LEMMA ChainsStep == ChainsInv /\ [next]_vars => ChainsInv' /\ [Wheel!Next]_Wheel!vars
<1> SUFFICES ASSUME ChainsInv, [next]_vars PROVE ChainsInv' /\ (Wheel!Next \/ UNCHANGED Wheel!vars)
  OBVIOUS
<1>1. call_list \in [Slots -> Seq(Call)] /\ CYCLE \in Nat \ {0} /\ Slots = 0..(CYCLE - 1) /\ Places = PlacesOn(call_list)
  BY ChainsFacts
<1>2. \A s \in Slots : DOMAIN call_list[s] = 1..Len(call_list[s])
  BY <1>1, PlaceIs
<1>3. ASSUME LpcRuns, NEW s \in Slots, NEW i \in DOMAIN call_list[s], TakeOff(s, i)
      PROVE  ChainsInv' /\ Wheel!Next
  <2>1. i \in 1..Len(call_list[s])
    BY <1>2
  <2>2. ChainsInv' /\ \E e \in Pending : Wheel!Remove(e)
    BY <1>3, <2>1, TakeOffStep
  <2> QED
    BY <2>2 DEF Wheel!Next
<1>4. ASSUME NEW o \in Objects, NEW f \in Funs, NEW d \in Delays, new_call_out(o, f, d)
      PROVE  ChainsInv' /\ Wheel!Next
  <2>1. ChainsInv' /\ Wheel!NewCallOut(o, f, d)
    BY <1>4, NewCallStep
  <2> QED
    BY <2>1 DEF Wheel!Next
<1>5. ASSUME NEW o \in Objects, NEW f \in Funs, remove_call_out(o, f)
      PROVE  ChainsInv' /\ Wheel!Next
  <2>1. LpcRuns /\ \E s \in Slots : \E i \in Matches(s, o, f) : TakeOff(s, i)
    BY <1>5 DEF remove_call_out
  <2>5. PICK s \in Slots : \E i \in Matches(s, o, f) : TakeOff(s, i)
    BY <2>1
  <2>2. PICK i \in Matches(s, o, f) : TakeOff(s, i)
    BY <2>5
  <2>3. i \in DOMAIN call_list[s]
    BY DEF Matches
  <2> QED
    BY <1>3, <2>1, <2>2, <2>3
<1>6. ASSUME NEW h \in Handles, remove_call_out_by_handle(h)
      PROVE  ChainsInv' /\ Wheel!Next
  <2>1. PICK p \in Places : h = call_list[p[1]][p[2]].handle
    BY DEF Handles
  <2>2. p[1] \in Slots /\ p[2] \in 1..Len(call_list[p[1]]) /\ call_list[p[1]] \in Seq(Call)
    BY <1>1, PlaceIs
  <2>3. h \in Nat
    BY <2>1, <2>2, CallsOf
  <2>4. SlotOf(h) \in Slots
    BY <1>1, <2>3, DivMod DEF SlotOf
  <2>5. LpcRuns /\ \E i \in HasHandle(h) : TakeOff(SlotOf(h), i)
    BY <1>6 DEF remove_call_out_by_handle
  <2>6. PICK i \in HasHandle(h) : TakeOff(SlotOf(h), i)
    BY <2>5
  <2>7. i \in DOMAIN call_list[SlotOf(h)]
    BY DEF HasHandle
  <2> QED
    BY <1>3, <2>4, <2>5, <2>6, <2>7
<1>7. ASSUME NEW o \in Objects, remove_all_call_out(o) PROVE ChainsInv' /\ Wheel!Next
  <2>1. ChainsInv' /\ Wheel!RemoveAll(o)
    BY <1>7, RemoveAllStep
  <2> QED
    BY <2>1 DEF Wheel!Next
<1>8. ASSUME NEW o \in Objects, Destruct(o) PROVE ChainsInv' /\ Wheel!Next
  <2>1. ChainsInv' /\ Wheel!Destruct(o)
    BY <1>8, OtherSteps
  <2> QED
    BY <2>1 DEF Wheel!Next
<1>9. ASSUME VisitSlot PROVE ChainsInv' /\ Wheel!Next
  BY <1>9, VisitStep DEF Wheel!Next
<1>10. ASSUME TakeFirst PROVE ChainsInv' /\ Wheel!Next
  BY <1>10, TakeFirstStep DEF Wheel!Next
<1>11. ASSUME TimePasses \/ CallOutBegin \/ CallbackReturns \/ LeaveSlot \/ CallOutEnd
       PROVE  ChainsInv' /\ Wheel!Next
  BY <1>11, OtherSteps DEF Wheel!Next
<1>12. ASSUME UNCHANGED vars PROVE ChainsInv' /\ UNCHANGED Wheel!vars
  BY <1>12, OtherSteps
<1> QED
  BY <1>4, <1>5, <1>6, <1>7, <1>8, <1>9, <1>10, <1>11, <1>12 DEF next

(* However calls are started, removed and run, the chains stay in order:   *)
(* this is the invariant the theorems below rest on.                       *)
THEOREM ChainsInvariant == Spec => []ChainsInv
<1>1. init => ChainsInv
  BY ChainsInit
<1>2. ChainsInv /\ [next]_vars => ChainsInv'
  BY ChainsStep
<1> QED
  BY <1>1, <1>2, PTL DEF Spec

(* No pending_call_t is lost or freed twice by call_out.c.                 *)
THEOREM NoCallLeaks == Spec => []CallsConserved
<1>1. ChainsInv => CallsConserved
  BY DEF ChainsInv, Counted
<1> QED
  BY <1>1, ChainsInvariant, PTL

(* Every step of the delta chains is a step of the wheel of slots and      *)
(* laps: insertion in the middle, unlinking and visits give each call the  *)
(* laps it should have, and the calls run in the wheel's order.            *)
THEOREM ChainsImplementWheel == Spec => WheelImplemented
<1>1. init => Wheel!Init
  BY ChainsInit
<1>2. ChainsInv /\ [next]_vars => [Wheel!Next]_Wheel!vars
  BY ChainsStep
<1> QED
  BY <1>1, <1>2, ChainsInvariant, PTL DEF Spec, WheelImplemented, Wheel!Spec

(* time_left() counts to the next visit of the slot as FirstVisit does.    *)
LEMMA NextVisit ==
  ASSUME NEW n \in Nat \ {0}, NEW t \in Nat, NEW s \in 0..(n - 1)
  PROVE  /\ t % n \in 0..(n - 1)
         /\ ((s - t - 1) % n) = s - (t % n) - 1 + (IF s > t % n THEN 0 ELSE n)
<1>1. PICK q \in Int : q = t \div n
  BY DivMod
<1>2. PICK m \in 0..(n - 1) : m = t % n
  BY DivMod
<1>3. t = n * q + m
  BY <1>1, <1>2, DivMod
<1>4. n * (0 - q) = 0 - n * q /\ n * (0 - q - 1) = 0 - n * q - n /\ n * q \in Int
  OBVIOUS
<1>5. CASE s > m
  <2>1. s - m - 1 \in 0..(n - 1) /\ s - m - 1 \in Int
    BY <1>5
  <2>2. s - t - 1 = n * (0 - q) + (s - m - 1) /\ s - t - 1 \in Int /\ 0 - q \in Int
    BY <1>3, <1>4
  <2>3. ((s - t - 1) % n) = s - m - 1
    BY <2>1, <2>2, DivModIs
  <2> QED
    BY <1>2, <1>5, <2>3
<1>6. CASE ~(s > m)
  <2>1. s - m - 1 + n \in 0..(n - 1) /\ s - m - 1 + n \in Int
    BY <1>6
  <2>2. s - t - 1 = n * (0 - q - 1) + (s - m - 1 + n) /\ s - t - 1 \in Int /\ 0 - q - 1 \in Int
    BY <1>3, <1>4
  <2>3. ((s - t - 1) % n) = s - m - 1 + n
    BY <2>1, <2>2, DivModIs
  <2> QED
    BY <1>2, <1>6, <2>3
<1> QED
  BY <1>5, <1>6

(* Numbers that differ by slot or by count are different handles.          *)
LEMMA HandlesOneToOne == ChainsInv => HandlesFindTheirCall
<1> SUFFICES ASSUME ChainsInv, NEW s \in Slots, NEW t \in Slots,
                    NEW i \in DOMAIN call_list[s], NEW j \in DOMAIN call_list[t]
             PROVE  /\ SlotOf(call_list[s][i].handle) = s
                    /\ call_list[s][i].handle = call_list[t][j].handle => s = t /\ i = j
  BY DEF HandlesFindTheirCall
<1>1. call_list \in [Slots -> Seq(Call)]
  BY ChainsFacts
<1>2. i \in 1..Len(call_list[s]) /\ j \in 1..Len(call_list[t])
  BY <1>1, PlaceIs
<1>3. GoodChain(call_list[s], s, unique) /\ GoodChain(call_list[t], t, unique)
  BY DEF ChainsInv, ChainsGood
<1>4. call_list[s][i].handle % CYCLE = s /\ call_list[t][j].handle % CYCLE = t
  BY <1>2, <1>3 DEF GoodChain
<1>5. ASSUME call_list[s][i].handle = call_list[t][j].handle PROVE s = t /\ i = j
  <2>1. s = t
    BY <1>4, <1>5
  <2>2. IdOf(call_list[s][i]) = IdOf(call_list[s][j])
    BY <1>5, <2>1 DEF IdOf
  <2>3. i = j
    BY <1>2, <1>3, <2>1, <2>2 DEF GoodChain
  <2> QED
    BY <2>1, <2>3
<1> QED
  BY <1>4, <1>5 DEF SlotOf

(* What find_call_out() tells is the time until the call runs.             *)
LEMMA TimeLeftRight == ChainsInv => TimeLeftExact
<1> SUFFICES ASSUME ChainsInv, pc = "lpc", call_out_time # 0,
                    NEW s \in Slots, NEW i \in DOMAIN call_list[s]
             PROVE  find_call_out_by_handle(call_list[s][i].handle) + current_time
                      = Wheel!DueAt([slot |-> s, laps |-> Laps(call_list[s], i)])
  BY DEF TimeLeftExact
<1> DEFINE h == call_list[s][i].handle
           l == Laps(call_list[s], i)
           m == call_out_time % CYCLE
<1>1. /\ call_list \in [Slots -> Seq(Call)] /\ CYCLE \in Nat \ {0} /\ Slots = 0..(CYCLE - 1)
      /\ call_out_time \in Nat /\ current_time \in Nat \ {0}
  BY ChainsFacts
<1>2. i \in 1..Len(call_list[s]) /\ call_list[s] \in Seq(Call)
  BY <1>1, PlaceIs
<1>3. l \in Nat
  BY <1>2, CallsOf, LapsAlong
<1>4. SlotOf(h) = s /\ \A j \in DOMAIN call_list[s] : call_list[s][j].handle = h => j = i
  BY HandlesOneToOne DEF HandlesFindTheirCall
<1>5. HasHandle(h) = {i}
  BY <1>4 DEF HasHandle
<1>6. find_call_out_by_handle(h) = TimeLeft(s, l)
  <2>1. (CHOOSE j \in {i} : TRUE) = i
    OBVIOUS
  <2> QED
    BY <1>4, <1>5, <2>1 DEF find_call_out_by_handle
<1>7. m \in 0..(CYCLE - 1) /\ ((s - call_out_time - 1) % CYCLE) = s - m - 1 + (IF s > m THEN 0 ELSE CYCLE)
  BY <1>1, NextVisit
<1>8. Wheel!DueAt([slot |-> s, laps |-> l]) = call_out_time + 1 + ((s - call_out_time - 1) % CYCLE) + CYCLE * (l - 1)
  BY DEF Wheel!DueAt, Wheel!FirstVisit, Wheel!Started, Wheel!BeingVisited
<1>9. TimeLeft(s, l) = (IF s > m THEN l - 1 ELSE l) * CYCLE + (s - m) + call_out_time - current_time
  BY DEF TimeLeft, SlotOf
<1> HIDE DEF l, m, h
<1>10. (l - 1) * CYCLE = CYCLE * (l - 1) /\ l * CYCLE = CYCLE * (l - 1) + CYCLE /\ CYCLE * (l - 1) \in Int
  BY <1>1, <1>3
<1>11. TimeLeft(s, l) + current_time = call_out_time + 1 + (s - m - 1 + (IF s > m THEN 0 ELSE CYCLE)) + CYCLE * (l - 1)
  <2>1. CASE s > m
    BY <1>1, <1>3, <1>7, <1>9, <1>10, <2>1
  <2>2. CASE ~(s > m)
    BY <1>1, <1>3, <1>7, <1>9, <1>10, <2>2
  <2> QED
    BY <2>1, <2>2
<1> QED
  BY <1>6, <1>7, <1>8, <1>11 DEF h, l

(* What call_out.c tells about a call is true, however many calls were     *)
(* started before and in whatever order they left: the handle leads to the *)
(* call alone, and find_call_out() gives the time until it runs.           *)
THEOREM ChainsAlwaysSound == Spec => []ChainsSound
<1>1. ChainsInv => ChainsSound
  BY HandlesOneToOne, TimeLeftRight DEF ChainsInv, ChainsSound
<1> QED
  BY <1>1, ChainsInvariant, PTL

-----------------------------------------------------------------------------
(* From the wheel to the timers.                                           *)

(* What is proved of CallOutWheel, of the wheel the chains hold.           *)
Proved == INSTANCE CallOutProofs WITH
  wheel <- Pending,
  cop   <- IF cop = NoCall THEN NoCall
           ELSE [id |-> cop.handle \div CYCLE, ob |-> cop.ob, fun |-> cop.fun]

(* It is the wheel the chains implement ...                                *)
LEMMA SameWheel ==
  /\ Wheel!Init <=> Proved!Init
  /\ [Wheel!Next]_Wheel!vars <=> [Proved!Next]_Proved!vars
<1>1. Wheel!Init <=> Proved!Init
  BY DEF Wheel!Init, Proved!Init
<1>2. Wheel!vars = Proved!vars /\ Wheel!vars' = Proved!vars'
  BY DEF Wheel!vars, Proved!vars
<1>3. Wheel!Next <=> Proved!Next
  <2>1. \A o, f, d : Wheel!NewCallOut(o, f, d) <=> Proved!NewCallOut(o, f, d)
    BY DEF
        Wheel!NewCallOut, Proved!NewCallOut, Wheel!LpcRuns, Proved!LpcRuns, Wheel!AtLeast1,
        Proved!AtLeast1, Wheel!Laps, Proved!Laps, Wheel!Visited, Proved!Visited, Wheel!Started,
        Proved!Started
  <2>2. \A e : (Wheel!Remove(e) <=> Proved!Remove(e)) /\ (Wheel!TakeFirst(e) <=> Proved!TakeFirst(e))
    BY DEF
        Wheel!Remove, Proved!Remove, Wheel!TakeFirst, Proved!TakeFirst, Wheel!LpcRuns,
        Proved!LpcRuns, Wheel!Due, Proved!Due, Wheel!Visited, Proved!Visited, Wheel!Dropped,
        Proved!Dropped
  <2>3. \A o : (Wheel!RemoveAll(o) <=> Proved!RemoveAll(o)) /\ (Wheel!Destruct(o) <=> Proved!Destruct(o))
    BY DEF
        Wheel!RemoveAll, Proved!RemoveAll, Wheel!Destruct, Proved!Destruct, Wheel!LpcRuns,
        Proved!LpcRuns
  <2>4. /\ Wheel!TimePasses <=> Proved!TimePasses
        /\ Wheel!CallOutBegin <=> Proved!CallOutBegin
        /\ Wheel!CallbackReturns <=> Proved!CallbackReturns
        /\ Wheel!CallOutEnd <=> Proved!CallOutEnd
    BY DEF
        Wheel!TimePasses, Proved!TimePasses, Wheel!CallOutBegin, Proved!CallOutBegin,
        Wheel!CallbackReturns, Proved!CallbackReturns, Wheel!CallOutEnd, Proved!CallOutEnd,
        Wheel!Started, Proved!Started
  <2>5. Wheel!VisitSlot <=> Proved!VisitSlot
    BY DEF
        Wheel!VisitSlot, Proved!VisitSlot, Wheel!AfterVisit, Proved!AfterVisit, Wheel!Due,
        Proved!Due, Wheel!Visited, Proved!Visited
  <2>6. Wheel!LeaveSlot <=> Proved!LeaveSlot
    BY DEF Wheel!LeaveSlot, Proved!LeaveSlot, Wheel!Due, Proved!Due, Wheel!Visited, Proved!Visited
  <2> QED BY <2>1, <2>2, <2>3, <2>4, <2>5, <2>6 DEF Wheel!Next, Proved!Next
<1> QED BY <1>1, <1>2, <1>3

(* ... and it keeps the same promise.                                      *)
LEMMA SameTimers ==
  /\ Wheel!Timers!Init <=> Proved!Timers!Init
  /\ [Wheel!Timers!Next]_Wheel!Timers!vars <=> [Proved!Timers!Next]_Proved!Timers!vars
<1> USE DEF
           Wheel!DueAt, Proved!DueAt, Wheel!FirstVisit, Proved!FirstVisit, Wheel!BeingVisited,
           Proved!BeingVisited, Wheel!Visited, Proved!Visited, Wheel!Started, Proved!Started,
           Wheel!AtLeast1, Proved!AtLeast1
<1>1. Wheel!Timers!Init <=> Proved!Timers!Init
  BY DEF Wheel!Timers!Init, Proved!Timers!Init
<1>2. Wheel!Timers!vars = Proved!Timers!vars /\ Wheel!Timers!vars' = Proved!Timers!vars'
  BY DEF Wheel!Timers!vars, Proved!Timers!vars
<1>3. Wheel!Timers!Next <=> Proved!Timers!Next
  <2>1. \A o, f, d : Wheel!Timers!Schedule(o, f, d) <=> Proved!Timers!Schedule(o, f, d)
    BY DEF Wheel!Timers!Schedule, Proved!Timers!Schedule
  <2>2. \A c : Wheel!Timers!Cancel(c) <=> Proved!Timers!Cancel(c)
    BY DEF Wheel!Timers!Cancel, Proved!Timers!Cancel
  <2>3. \A c : Wheel!Timers!Fire(c) <=> Proved!Timers!Fire(c)
    BY DEF
        Wheel!Timers!Fire, Proved!Timers!Fire, Wheel!Timers!Next1, Proved!Timers!Next1,
        Wheel!Timers!Dropped, Proved!Timers!Dropped
  <2>4. \A c : Wheel!Timers!Drop(c) <=> Proved!Timers!Drop(c)
    BY DEF
        Wheel!Timers!Drop, Proved!Timers!Drop, Wheel!Timers!Next1, Proved!Timers!Next1,
        Wheel!Timers!Dropped, Proved!Timers!Dropped
  <2>5. \A o : Wheel!Timers!CancelAll(o) <=> Proved!Timers!CancelAll(o)
    BY DEF Wheel!Timers!CancelAll, Proved!Timers!CancelAll
  <2>6. \A o : Wheel!Timers!Destruct(o) <=> Proved!Timers!Destruct(o)
    BY DEF Wheel!Timers!Destruct, Proved!Timers!Destruct
  <2>7. Wheel!Timers!Return <=> Proved!Timers!Return
    BY DEF Wheel!Timers!Return, Proved!Timers!Return
  <2>8. Wheel!Timers!Tick <=> Proved!Timers!Tick
    BY DEF Wheel!Timers!Tick, Proved!Timers!Tick
  <2>9. Wheel!Timers!Pass <=> Proved!Timers!Pass
    BY DEF Wheel!Timers!Pass, Proved!Timers!Pass
  <2> QED
    BY <2>1, <2>2, <2>3, <2>4, <2>5, <2>6, <2>7, <2>8, <2>9 DEF
        Wheel!Timers!Next, Proved!Timers!Next
<1> QED
  BY <1>1, <1>2, <1>3

(* call_out.c as it stands, delta chains and all, runs every delayed call  *)
(* in the second it was asked for, the newest first within a second, never *)
(* twice, and loses none, as long as no call out starts another one into   *)
(* the slot being visited: the chains implement the wheel and the wheel    *)
(* the timers.                                                             *)
THEOREM TimersKept == ASSUME ~LateInserts PROVE Spec => TimersImplemented
<1>1. Proved!WheelAssumption
  BY CallOutAssumption DEF Proved!WheelAssumption
<1>2. Proved!Spec => []Proved!WheelInv
  BY <1>1, Proved!WheelInvariant, PTL
<1>3. Proved!Init => Proved!Timers!Init
  BY <1>1, Proved!TimersInit
<1>4. Proved!WheelInv /\ [Proved!Next]_Proved!vars => [Proved!Timers!Next]_Proved!Timers!vars
  BY <1>1, Proved!TimersStep
<1> QED
  BY ChainsImplementWheel, <1>2, <1>3, <1>4, SameWheel, SameTimers, PTL
  DEF WheelImplemented, TimersImplemented, Wheel!Spec, Proved!Spec,
      Wheel!TimersImplemented, Wheel!Timers!Spec
=============================================================================
