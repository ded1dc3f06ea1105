------------------------------- MODULE Lemmas -------------------------------
(***************************************************************************)
(* Facts about numbers that the proofs about the driver's parts share:     *)
(* division with remainder, for the indices that run around a buffer or a  *)
(* wheel, and induction over a set of natural numbers.                     *)
(***************************************************************************)
EXTENDS Integers, WellFoundedInduction, TLAPS

(* Division with remainder.                                                *)
LEMMA DivMod ==
  \A a \in Int, n \in Nat \ {0} :
    /\ (a % n) \in 0..(n - 1)
    /\ (a \div n) \in Int
    /\ a = n * (a \div n) + (a % n)
OBVIOUS

(* Multiples of n are at least n apart.                                    *)
LEMMA Multiples == \A n \in Nat \ {0}, p, q \in Int : q > p => n * q >= n * p + n
OBVIOUS

(* Quotient and remainder are determined by the number.                    *)
LEMMA DivModUnique ==
  \A n \in Nat \ {0} : \A p, q \in Int : \A r, t \in 0..(n - 1) :
    n * p + r = n * q + t => p = q /\ r = t
<1> SUFFICES ASSUME NEW n \in Nat \ {0}, NEW p \in Int, NEW q \in Int,
                    NEW r \in 0..(n - 1), NEW t \in 0..(n - 1),
                    n * p + r = n * q + t
             PROVE  p = q /\ r = t
  OBVIOUS
<1>1. n * p \in Int /\ n * q \in Int
  OBVIOUS
<1>2. ~(p > q)
  BY Multiples, <1>1
<1>3. ~(q > p)
  BY Multiples, <1>1
<1>4. QED
  BY <1>2, <1>3

(* A quotient and a remainder that fit are the ones computed.              *)
LEMMA DivModIs ==
  \A a \in Int, n \in Nat \ {0}, q \in Int, r \in Int :
    r \in 0..(n - 1) /\ a = n * q + r => (a % n) = r /\ (a \div n) = q
BY DivMod, DivModUnique

(* An index that has not reached the end stays where it is.                *)
LEMMA ModSmall == \A n \in Nat \ {0} : \A a \in 0..(n - 1) : (a % n) = a
<1> SUFFICES ASSUME NEW n \in Nat \ {0}, NEW a \in 0..(n - 1) PROVE (a % n) = a
  OBVIOUS
<1>1. a = n * 0 + a /\ a \in Int /\ 0 \in Int
  OBVIOUS
<1> QED
  BY <1>1, DivModIs

(* Wrapping around before a step is wrapping around after it.              *)
LEMMA ModShift == \A n \in Nat \ {0} : \A a, b \in Int : (((a % n) + b) % n) = ((a + b) % n)
<1> SUFFICES ASSUME NEW n \in Nat \ {0}, NEW a \in Int, NEW b \in Int
             PROVE  (((a % n) + b) % n) = ((a + b) % n)
  OBVIOUS
<1> DEFINE q == a \div n
           r == a % n
           p == (r + b) \div n
           t == (r + b) % n
<1>1. q \in Int /\ r \in 0..(n - 1) /\ a = n * q + r
  BY DivMod
<1>2. r + b \in Int
  BY <1>1
<1>3. p \in Int /\ t \in 0..(n - 1) /\ r + b = n * p + t
  BY <1>2, DivMod
<1> HIDE DEF q, r, p, t
<1>4. a + b = n * (q + p) + t /\ q + p \in Int /\ a + b \in Int /\ t \in Int
  BY <1>1, <1>3
<1>5. ((a + b) % n) = t
  BY <1>3, <1>4, DivModIs
<1> QED
  BY <1>5 DEF t, r

(* Positions less than a turn apart are different.                         *)
LEMMA ModDistinct ==
  \A n \in Nat \ {0} : \A a, b \in Int : a < b /\ b < a + n => (a % n) # (b % n)
<1> SUFFICES ASSUME NEW n \in Nat \ {0}, NEW a \in Int, NEW b \in Int, a < b, b < a + n,
                    (a % n) = (b % n)
             PROVE  FALSE
  OBVIOUS
<1> DEFINE q == a \div n
           p == b \div n
           r == a % n
<1>1. q \in Int /\ p \in Int /\ r \in 0..(n - 1) /\ a = n * q + r /\ b = n * p + r
  BY DivMod
<1> HIDE DEF q, p, r
<1>2. n * q \in Int /\ n * p \in Int
  BY <1>1
<1>3. ~(p > q)
  BY <1>1, <1>2, Multiples
<1>4. ~(q > p)
  BY <1>1, <1>2, Multiples
<1> QED
  BY <1>1, <1>3, <1>4
-----------------------------------------------------------------------------
(* Induction: a set with 0 in it and with the successor of each of its     *)
(* numbers holds them all.                                                 *)
LEMMA NatInd ==
  ASSUME NEW S, 0 \in S, \A n \in Nat : n \in S => n + 1 \in S
  PROVE  Nat \subseteq S
<1> SUFFICES ASSUME Nat \ S # {} PROVE FALSE
  OBVIOUS
<1> DEFINE R == {p \in Nat \X Nat : p[1] < p[2]}
<1>1. IsWellFoundedOn(R, Nat)
  <2>1. R = OpToRel(<, Nat)
    BY DEF OpToRel
  <2> QED
    BY <2>1, NatLessThanWellFounded
<1> HIDE DEF R
<1>2. PICK x \in Nat \ S : \A y \in Nat \ S : ~(<<y, x>> \in R)
  BY <1>1, WFMin
<1>3. x # 0 /\ x - 1 \in Nat
  BY <1>2
<1>4. x - 1 \in Nat \ S
  BY <1>2, <1>3
<1>5. <<x - 1, x>> \in R
  BY <1>3 DEF R
<1> QED
  BY <1>2, <1>4, <1>5

(* A set of natural numbers that is not empty has a least one.             *)
LEMMA LeastNat ==
  ASSUME NEW S, S \subseteq Nat, S # {}
  PROVE  \E x \in S : \A y \in S : x <= y
<1> DEFINE R == {p \in Nat \X Nat : p[1] < p[2]}
<1>1. IsWellFoundedOn(R, Nat)
  <2>1. R = OpToRel(<, Nat)
    BY DEF OpToRel
  <2> QED
    BY <2>1, NatLessThanWellFounded
<1>2. \A x, y \in Nat : y < x => <<y, x>> \in R
  OBVIOUS
<1> HIDE DEF R
<1>3. PICK x \in S : \A y \in S : ~(<<y, x>> \in R)
  BY <1>1, WFMin
<1>4. \A y \in S : ~(y < x)
  BY <1>2, <1>3
<1> QED
  BY <1>3, <1>4
=============================================================================
