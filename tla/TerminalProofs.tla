--------------------------- MODULE TerminalProofs ---------------------------
(***************************************************************************)
(* Proofs about the two buffers of a connection.  The output buffer, for   *)
(* every size of the ring, all messages and everything send() may do: the  *)
(* ring implements the queue of OutputQueue, and what the client sees is   *)
(* whole lines.  The input buffer, for every size of the buffer and        *)
(* everything that may be typed: it does not overflow, CMD_IN_BUF is right,*)
(* no character gets lost, and the lines are handed over as typed.         *)
(***************************************************************************)
EXTENDS OutputBuffer, InputBuffer, Lemmas, SequenceTheorems, FunctionTheorems,
        FiniteSetTheorems, TLAPS

(* What add_message() relies on between its checks and the byte it writes: *)
(* there is a byte, and, after a flush too, room for it.                   *)
WriteReadied ==
  /\ pc \in {"room", "put"} \/ (pc = "flush" /\ back \in {"room", "put"}) => rest # <<>>
  /\ pc = "put" \/ (pc = "flush" /\ back = "put") => message_length # SIZE

RingInv == TypeOK /\ RingConsistent /\ WriteReadied

(* The sizes and bytes the proofs use.                                     *)
LEMMA SizeFacts ==
  /\ SIZE \in Nat \ {0} /\ SIZE \in Int /\ SIZE >= 2
  /\ NL # CR /\ \A c \in Text : c # NL /\ c # CR
BY BufferAssumption

-----------------------------------------------------------------------------
(* The content of a ring: its n bytes from place c on.                     *)
Place(c, i) == (c + i - 1) % SIZE
ContentOf(buf, c, n) == [i \in 1..n |-> buf[Place(c, i)]]

(* A function on 1..n is a sequence of length n.                           *)
LEMMA FunctionIsSeq ==
  ASSUME NEW S, NEW n \in Nat, NEW f \in [1..n -> S]
  PROVE  f \in Seq(S) /\ Len(f) = n
BY SeqDef, LenProperties

(* Every place is in the ring.                                             *)
LEMMA PlaceInRing == \A c, i \in Int : Place(c, i) \in Index
<1> SUFFICES ASSUME NEW c \in Int, NEW i \in Int PROVE Place(c, i) \in Index
  OBVIOUS
<1>1. c + i - 1 \in Int
  OBVIOUS
<1> QED
  BY <1>1, DivMod, SizeFacts DEF Place, Index

(* The content is a sequence of n bytes.                                   *)
LEMMA ContentIsSeq ==
  ASSUME NEW buf \in [Index -> Byte], NEW c \in Int, NEW n \in Nat
  PROVE  /\ ContentOf(buf, c, n) \in Seq(Byte) /\ Len(ContentOf(buf, c, n)) = n
         /\ \A i \in 1..n : ContentOf(buf, c, n)[i] = buf[Place(c, i)]
<1>1. \A i \in 1..n : buf[Place(c, i)] \in Byte
  BY PlaceInRing
<1>2. ContentOf(buf, c, n) \in [1..n -> Byte]
  BY <1>1 DEF ContentOf
<1>3. \A i \in 1..n : ContentOf(buf, c, n)[i] = buf[Place(c, i)]
  BY DEF ContentOf
<1> QED
  BY <1>2, <1>3, FunctionIsSeq

(* The same for the content of message_buf.                                *)
LEMMA ContentProperties ==
  ASSUME TypeOK
  PROVE  /\ Content = ContentOf(message_buf, message_consumer, message_length)
         /\ Content \in Seq(Byte) /\ Len(Content) = message_length
         /\ message_length \in Nat /\ message_consumer \in Int /\ message_length <= SIZE
<1>1. Content = ContentOf(message_buf, message_consumer, message_length)
  BY DEF Content, ContentOf, Place
<1>2. message_length \in Nat /\ message_consumer \in Int /\ message_length <= SIZE
  BY SizeFacts DEF TypeOK, Index
<1> QED
  BY <1>1, <1>2, ContentIsSeq DEF TypeOK

(* What flush_message() hands to send() is content: it stops at the        *)
(* producer or at the end of the buffer.                                   *)
LEMMA SegmentIsContent ==
  ASSUME TypeOK, RingConsistent, message_length # 0
  PROVE  /\ Segment \in 1..message_length
         /\ message_consumer + Segment <= SIZE
<1> DEFINE q == (message_consumer + message_length) \div SIZE
<1>1. /\ message_length \in 1..SIZE /\ message_consumer \in 0..(SIZE - 1)
      /\ message_producer \in 0..(SIZE - 1) /\ SIZE \in Nat \ {0}
  BY SizeFacts DEF TypeOK, Index
<1>2. message_consumer + message_length \in Int
  BY <1>1
<1>3. q \in Int /\ message_consumer + message_length = SIZE * q + message_producer
  BY <1>1, <1>2, DivMod DEF RingConsistent
<1> HIDE DEF q
<1>4. SIZE * q \in Int
  BY <1>1, <1>3
<1>5. ~(q < 0)
  <2> SUFFICES ASSUME q < 0 PROVE FALSE
    OBVIOUS
  <2>1. SIZE * 0 >= SIZE * q + SIZE
    BY <1>1, <1>3, Multiples
  <2>2. SIZE * 0 = 0
    BY <1>1
  <2> QED
    BY <1>1, <1>3, <1>4, <2>1, <2>2
<1>6. ~(q > 1)
  <2> SUFFICES ASSUME q > 1 PROVE FALSE
    OBVIOUS
  <2>1. SIZE * q >= SIZE * 1 + SIZE
    BY <1>1, <1>3, Multiples
  <2>2. SIZE * 1 = SIZE
    BY <1>1
  <2> QED
    BY <1>1, <1>3, <1>4, <2>1, <2>2
<1>7. CASE q = 0
  <2>1. message_consumer + message_length = message_producer
    BY <1>1, <1>3, <1>7
  <2> QED
    BY <1>1, <2>1 DEF Segment
<1>8. CASE q = 1
  <2>1. message_consumer + message_length = SIZE + message_producer
    BY <1>1, <1>3, <1>8
  <2> QED
    BY <1>1, <2>1 DEF Segment
<1> QED
  BY <1>3, <1>5, <1>6, <1>7, <1>8

(* A byte written behind the content is added at its end, and the bytes    *)
(* before it keep their places, as long as the ring is not full.           *)
LEMMA ByteAdded ==
  ASSUME NEW buf \in [Index -> Byte], NEW c \in Index, NEW n \in 0..(SIZE - 1), NEW b \in Byte,
         NEW p \in Index, p = (c + n) % SIZE,
         NEW new \in [Index -> Byte], new[p] = b, \A j \in Index : j # p => new[j] = buf[j]
  PROVE  /\ (p + 1) % SIZE = (c + (n + 1)) % SIZE
         /\ (p + 1) % SIZE \in Index
         /\ ContentOf(new, c, n + 1) = Append(ContentOf(buf, c, n), b)
<1> DEFINE old == ContentOf(buf, c, n)
           longer == ContentOf(new, c, n + 1)
<1>1. n \in Nat /\ n < SIZE /\ c \in Int /\ SIZE \in Nat \ {0} /\ c + n \in Int
  BY SizeFacts DEF Index
<1>2. p \in Index
  BY <1>1, DivMod DEF Index
<1>3. (p + 1) % SIZE = (c + (n + 1)) % SIZE
  <2> DEFINE a == c + n
  <2>1. a \in Int /\ a + 1 = c + (n + 1)
    BY <1>1
  <2> HIDE DEF a
  <2>2. PICK one \in Int : one = 1
    OBVIOUS
  <2>3. ((a % SIZE) + one) % SIZE = (a + one) % SIZE
    BY <1>1, <2>1, ModShift
  <2> QED
    BY <2>1, <2>2, <2>3 DEF a
<1>4. Place(c, n + 1) = p
  <2>1. c + (n + 1) - 1 = c + n
    BY <1>1
  <2> QED
    BY <2>1 DEF Place
<1>5. \A i \in 1..n : Place(c, i) # p /\ Place(c, i) \in Index
  <2> SUFFICES ASSUME NEW i \in 1..n PROVE Place(c, i) # p /\ Place(c, i) \in Index
    OBVIOUS
  <2>1. c + i - 1 \in Int /\ c + i - 1 < c + n /\ c + n < c + i - 1 + SIZE
    BY <1>1
  <2> QED
    BY <1>1, <2>1, ModDistinct, DivMod DEF Place, Index
<1>6. \A i \in 1..n : new[Place(c, i)] = buf[Place(c, i)]
  BY <1>5
<1>7. old \in Seq(Byte) /\ Len(old) = n /\ \A i \in 1..n : old[i] = buf[Place(c, i)]
  BY <1>1, ContentIsSeq
<1>8. /\ longer \in Seq(Byte) /\ Len(longer) = n + 1
      /\ \A i \in 1..(n + 1) : longer[i] = new[Place(c, i)]
  BY <1>1, <1>6, ContentIsSeq
<1> HIDE DEF old, longer
<1>9. /\ Append(old, b) \in Seq(Byte) /\ Len(Append(old, b)) = n + 1
      /\ \A i \in 1..n : Append(old, b)[i] = old[i]
      /\ Append(old, b)[n + 1] = b
  BY <1>7, AppendProperties
<1>10. \A i \in 1..(n + 1) : longer[i] = Append(old, b)[i]
  <2> SUFFICES ASSUME NEW i \in 1..(n + 1) PROVE longer[i] = Append(old, b)[i]
    OBVIOUS
  <2>1. i \in 1..n \/ i = n + 1
    BY <1>1
  <2>2. CASE i \in 1..n
    BY <1>6, <1>7, <1>8, <1>9, <2>2
  <2>3. CASE i = n + 1
    BY <1>4, <1>6, <1>8, <1>9, <2>3
  <2> QED
    BY <2>1, <2>2, <2>3
<1>11. longer = Append(old, b)
  BY <1>8, <1>9, <1>10, SeqEqual
<1>12. (p + 1) % SIZE \in Index
  BY <1>1, <1>2, DivMod DEF Index
<1> QED
  BY <1>2, <1>3, <1>6, <1>11, <1>12 DEF old, longer

(* Two bytes added one by one are two bytes added.                         *)
LEMMA TwoAdded ==
  ASSUME NEW S, NEW s \in Seq(S), NEW a \in S, NEW b \in S
  PROVE  Append(Append(s, a), b) = s \o <<a, b>>
<1> DEFINE n == Len(s)
           t == <<a, b>>
           u == Append(s, a)
           v == Append(u, b)
           w == s \o t
<1>1. t \in Seq(S) /\ Len(t) = 2 /\ t[1] = a /\ t[2] = b
  OBVIOUS
<1> HIDE DEF t
<1>2. n \in Nat
  BY LenProperties
<1>3. u \in Seq(S) /\ Len(u) = n + 1 /\ (\A i \in 1..n : u[i] = s[i]) /\ u[n + 1] = a
  BY AppendProperties
<1> HIDE DEF u
<1>4. v \in Seq(S) /\ Len(v) = n + 2 /\ (\A i \in 1..(n + 1) : v[i] = u[i]) /\ v[n + 2] = b
  <2>1. v \in Seq(S) /\ Len(v) = Len(u) + 1 /\ (\A i \in 1..Len(u) : v[i] = u[i]) /\ v[Len(u) + 1] = b
    BY <1>3, AppendProperties
  <2>2. n + 1 + 1 = n + 2
    BY <1>2
  <2> QED
    BY <1>3, <2>1, <2>2
<1>5. /\ w \in Seq(S) /\ Len(w) = n + 2
      /\ \A i \in 1..(n + 2) : w[i] = IF i <= n THEN s[i] ELSE t[i - n]
  <2>1. /\ w \in Seq(S) /\ Len(w) = n + Len(t)
        /\ \A i \in 1..(n + Len(t)) : w[i] = IF i <= n THEN s[i] ELSE t[i - n]
    BY <1>1, ConcatProperties
  <2> QED
    BY <1>1, <2>1
<1> HIDE DEF v, w
<1>6. ASSUME NEW i \in 1..(n + 2) PROVE v[i] = w[i]
  <2>1. CASE i \in 1..n
    BY <1>2, <1>3, <1>4, <1>5, <2>1
  <2>2. CASE i = n + 1
    BY <1>1, <1>2, <1>3, <1>4, <1>5, <2>2
  <2>3. CASE i = n + 2
    BY <1>1, <1>2, <1>4, <1>5, <2>3
  <2>4. i \in 1..n \/ i = n + 1 \/ i = n + 2
    BY <1>2
  <2> QED
    BY <2>1, <2>2, <2>3, <2>4
<1>7. v = w
  BY <1>4, <1>5, <1>6, SeqEqual
<1> QED
  BY <1>7 DEF u, v, w, t

(* What send() takes is the oldest part of the content, and the rest of it *)
(* stays.                                                                  *)
LEMMA BytesTaken ==
  ASSUME NEW buf \in [Index -> Byte], NEW c \in Index, NEW n \in 0..SIZE, NEW k \in 1..n,
         c + k <= SIZE
  PROVE  LET old == ContentOf(buf, c, n)
             taken == [i \in 1..k |-> buf[c + i - 1]]
         IN  /\ taken = SubSeq(old, 1, k)
             /\ ContentOf(buf, (c + k) % SIZE, n - k) = SubSeq(old, k + 1, Len(old))
             /\ (c + k) % SIZE \in Index
             /\ (((c + k) % SIZE) + (n - k)) % SIZE = (c + n) % SIZE
<1> DEFINE old == ContentOf(buf, c, n)
           taken == [i \in 1..k |-> buf[c + i - 1]]
           rem == ContentOf(buf, (c + k) % SIZE, n - k)
<1>1. n \in Nat /\ k \in Nat /\ n - k \in Nat /\ c \in Int /\ c >= 0 /\ SIZE \in Nat \ {0}
  BY SizeFacts DEF Index
<1>2. (c + k) % SIZE \in Index /\ (c + k) % SIZE \in Int
  BY <1>1, DivMod DEF Index
<1>3. /\ old \in Seq(Byte) /\ Len(old) = n
      /\ \A i \in 1..n : old[i] = buf[Place(c, i)] /\ old[i] \in Byte
  BY <1>1, ContentIsSeq, ElementOfSeq
<1>4. /\ rem \in Seq(Byte) /\ Len(rem) = n - k
      /\ \A i \in 1..(n - k) : rem[i] = buf[Place((c + k) % SIZE, i)]
  BY <1>1, <1>2, ContentIsSeq
<1>5. \A i \in 1..k : taken[i] = old[i] /\ i \in 1..n
  <2> SUFFICES ASSUME NEW i \in 1..k PROVE taken[i] = old[i] /\ i \in 1..n
    OBVIOUS
  <2>1. c + i - 1 \in 0..(SIZE - 1) /\ i \in 1..n
    BY <1>1
  <2>2. (c + i - 1) % SIZE = c + i - 1
    BY <1>1, <2>1, ModSmall
  <2> QED
    BY <1>3, <2>1, <2>2 DEF Place
<1>6. \A i \in 1..(n - k) : rem[i] = old[k + i]
  <2> SUFFICES ASSUME NEW i \in 1..(n - k) PROVE rem[i] = old[k + i]
    OBVIOUS
  <2>1. c + k \in Int /\ i - 1 \in Int /\ k + i \in 1..n
    BY <1>1
  <2>2. (((c + k) % SIZE) + (i - 1)) % SIZE = (c + k + (i - 1)) % SIZE
    BY <1>1, <2>1, ModShift
  <2>3. ((c + k) % SIZE) + (i - 1) = ((c + k) % SIZE) + i - 1 /\ c + k + (i - 1) = c + (k + i) - 1
    BY <1>1, <1>2
  <2>4. Place((c + k) % SIZE, i) = Place(c, k + i)
    BY <2>2, <2>3 DEF Place
  <2> QED
    BY <1>3, <1>4, <2>1, <2>4
<1> HIDE DEF old, rem
<1>7. taken = SubSeq(old, 1, k)
  <2>1. /\ SubSeq(old, 1, k) \in Seq(Byte)
        /\ Len(SubSeq(old, 1, k)) = IF 1 <= k THEN k - 1 + 1 ELSE 0
        /\ \A i \in 1..(k - 1 + 1) : SubSeq(old, 1, k)[i] = old[1 + i - 1]
    <3>1. \A i \in 1..k : old[i] \in Byte
      BY <1>3, <1>5
    <3> QED
      BY <1>1, <1>3, <3>1, SubSeqProperties
  <2>2. Len(SubSeq(old, 1, k)) = k /\ \A i \in 1..k : SubSeq(old, 1, k)[i] = old[i]
    BY <1>1, <2>1
  <2>3. taken \in [1..k -> Byte]
    BY <1>3, <1>5
  <2>4. \A i \in 1..k : taken[i] = SubSeq(old, 1, k)[i]
    BY <1>5, <2>2
  <2> HIDE DEF taken
  <2>5. taken \in Seq(Byte) /\ Len(taken) = k
    BY <1>1, <2>3, FunctionIsSeq
  <2> QED
    BY <2>1, <2>2, <2>4, <2>5, SeqEqual
<1>8. rem = SubSeq(old, k + 1, Len(old))
  <2>1. /\ SubSeq(old, k + 1, n) \in Seq(Byte)
        /\ Len(SubSeq(old, k + 1, n)) = IF k + 1 <= n THEN n - (k + 1) + 1 ELSE 0
        /\ \A i \in 1..(n - (k + 1) + 1) : SubSeq(old, k + 1, n)[i] = old[k + 1 + i - 1]
    <3>1. \A i \in (k + 1)..n : old[i] \in Byte
      BY <1>1, <1>3
    <3> QED
      BY <1>1, <1>3, <3>1, SubSeqProperties
  <2>2. /\ Len(SubSeq(old, k + 1, n)) = n - k
        /\ \A i \in 1..(n - k) : SubSeq(old, k + 1, n)[i] = old[k + i]
    <3>1. n - (k + 1) + 1 = n - k /\ \A i \in 1..(n - k) : k + 1 + i - 1 = k + i
      BY <1>1
    <3> QED
      BY <1>1, <2>1, <3>1
  <2> QED
    BY <1>3, <1>4, <1>6, <2>1, <2>2, SeqEqual
<1>9. (((c + k) % SIZE) + (n - k)) % SIZE = (c + n) % SIZE
  <2>1. c + k \in Int /\ n - k \in Int /\ c + k + (n - k) = c + n
    BY <1>1
  <2> QED
    BY <1>1, <2>1, ModShift
<1> QED
  BY <1>2, <1>7, <1>8, <1>9 DEF old, rem
-----------------------------------------------------------------------------
(* The steps of the buffer and the steps of the queue.                     *)

(* The byte at the head of the rest of the message.                        *)
LEMMA RestFacts ==
  ASSUME TypeOK, rest # <<>>
  PROVE  Head(rest) \in Text \cup {NL} /\ Tail(rest) \in Seq(Text \cup {NL})
BY HeadTailProperties DEF TypeOK

(* Put writes what there is room for, or nothing.                          *)
LEMMA PutAdds ==
  ASSUME RingInv, Put
  PROVE  \/ NeedsTwo /\ MessageDone /\ UNCHANGED ring
         \/ /\ Head(rest) \in Text \cup {NL} /\ Tail(rest) \in Seq(Text \cup {NL})
            /\ rest' = Tail(rest) /\ pc' = "char" /\ back' = back
            /\ message_buf' \in [Index -> Byte] /\ message_producer' \in Index
            /\ message_consumer' = message_consumer
            /\ message_length' \in 0..SIZE
            /\ message_producer' = (message_consumer + message_length') % SIZE
            /\ Content' = IF Head(rest) = NL THEN Content \o <<CR, NL>> ELSE Append(Content, Head(rest))
<1> DEFINE c == message_consumer
           n == message_length
           p == message_producer
           h == Head(rest)
<1>1. /\ c \in Index /\ c \in Int /\ n \in 0..SIZE /\ n \in Nat /\ p \in Index /\ p \in Int
      /\ message_buf \in [Index -> Byte] /\ p = (c + n) % SIZE /\ SIZE \in Nat \ {0}
  BY SizeFacts DEF RingInv, TypeOK, RingConsistent, Index
<1>2. rest # <<>> /\ n # SIZE
  BY DEF RingInv, WriteReadied, Put
<1>3. h \in Text \cup {NL} /\ Tail(rest) \in Seq(Text \cup {NL}) /\ h \in Byte /\ CR \in Byte /\ NL \in Byte
  BY <1>2, RestFacts DEF RingInv, Byte
<1>4. n \in 0..(SIZE - 1)
  BY <1>1, <1>2
<1>5. /\ Content = ContentOf(message_buf, c, n)
      /\ Content' = ContentOf(message_buf', message_consumer', message_length')
  BY DEF Content, ContentOf, Place
<1>6. CASE NeedsTwo
  BY <1>6 DEF Put
<1>9. Put /\ ~NeedsTwo =>
        /\ h = NL => /\ message_buf' = [message_buf EXCEPT ![p] = CR, ![(p + 1) % SIZE] = NL]
                     /\ message_producer' = (((p + 1) % SIZE) + 1) % SIZE /\ message_length' = n + 2
        /\ h # NL => /\ message_buf' = [message_buf EXCEPT ![p] = h]
                     /\ message_producer' = (p + 1) % SIZE /\ message_length' = n + 1
        /\ rest' = Tail(rest) /\ pc' = "char" /\ message_consumer' = c /\ back' = back
  BY DEF Put, Mod
<1>10. ~NeedsTwo /\ h = NL => n # SIZE - 1
  BY DEF NeedsTwo
<1> HIDE DEF c, n, p, h
<1>7. CASE ~NeedsTwo /\ h # NL
  <2>1. /\ message_buf' = [message_buf EXCEPT ![p] = h]
        /\ message_producer' = (p + 1) % SIZE /\ message_length' = n + 1
        /\ rest' = Tail(rest) /\ pc' = "char" /\ message_consumer' = c /\ back' = back
    BY <1>7, <1>9
  <2>2. /\ message_buf' \in [Index -> Byte]
        /\ (p + 1) % SIZE = (c + (n + 1)) % SIZE
        /\ ContentOf(message_buf', c, n + 1) = Append(ContentOf(message_buf, c, n), h)
        /\ (p + 1) % SIZE \in Index
    <3>1. /\ message_buf' \in [Index -> Byte] /\ message_buf'[p] = h
          /\ \A j \in Index : j # p => message_buf'[j] = message_buf[j]
      BY <1>1, <1>3, <2>1
    <3> QED
      BY <1>1, <1>3, <1>4, <3>1, ByteAdded, SMTT(60)
  <2>3. n + 1 \in 0..SIZE
    BY <1>1, <1>4
  <2> QED
    BY <1>3, <1>5, <1>7, <2>1, <2>2, <2>3 DEF h, c
<1>8. CASE ~NeedsTwo /\ h = NL
  <2> DEFINE p2 == (p + 1) % SIZE
             buf1 == [message_buf EXCEPT ![p] = CR]
  <2>1. /\ message_buf' = [buf1 EXCEPT ![p2] = NL]
        /\ message_producer' = (p2 + 1) % SIZE /\ message_length' = n + 2
        /\ rest' = Tail(rest) /\ pc' = "char" /\ message_consumer' = c /\ back' = back
    BY <1>8, <1>9
  <2>2. n + 1 \in 0..(SIZE - 1) /\ n + 1 + 1 = n + 2 /\ n + 2 \in 0..SIZE
    BY <1>1, <1>2, <1>8, <1>10
  <2>3. /\ buf1 \in [Index -> Byte] /\ p2 = (c + (n + 1)) % SIZE /\ p2 \in Index
        /\ ContentOf(buf1, c, n + 1) = Append(ContentOf(message_buf, c, n), CR)
    <3>1. /\ buf1 \in [Index -> Byte] /\ buf1[p] = CR
          /\ \A j \in Index : j # p => buf1[j] = message_buf[j]
      BY <1>1, <1>3
    <3> HIDE DEF buf1
    <3> QED
      BY <1>1, <1>3, <1>4, <3>1, ByteAdded, SMTT(30)
  <2> HIDE DEF buf1, p2
  <2>4. /\ message_buf' \in [Index -> Byte]
        /\ (p2 + 1) % SIZE = (c + (n + 1 + 1)) % SIZE
        /\ ContentOf(message_buf', c, n + 1 + 1) = Append(ContentOf(buf1, c, n + 1), NL)
        /\ (p2 + 1) % SIZE \in Index
    <3>1. /\ message_buf' \in [Index -> Byte] /\ message_buf'[p2] = NL
          /\ \A j \in Index : j # p2 => message_buf'[j] = buf1[j]
      BY <1>3, <2>1, <2>3
    <3> DEFINE m == n + 1
    <3>2. m \in 0..(SIZE - 1) /\ p2 = (c + m) % SIZE
      BY <2>2, <2>3
    <3> HIDE DEF m
    <3>4. /\ buf1 \in [Index -> Byte] /\ c \in Index /\ NL \in Byte /\ p2 \in Index
      BY <1>1, <1>3, <2>3
    <3>3. /\ (p2 + 1) % SIZE = (c + (m + 1)) % SIZE /\ (p2 + 1) % SIZE \in Index
          /\ ContentOf(message_buf', c, m + 1) = Append(ContentOf(buf1, c, m), NL)
      BY <3>1, <3>2, <3>4, ByteAdded
    <3> QED
      BY <3>1, <3>3 DEF m
  <2>6. Content' = Append(Append(Content, CR), NL)
    BY <1>5, <2>1, <2>2, <2>3, <2>4
  <2>7. Append(Append(Content, CR), NL) = Content \o <<CR, NL>>
    <3>1. Content \in Seq(Byte)
      BY ContentProperties DEF RingInv
    <3> QED
      BY <1>3, <3>1, TwoAdded
  <2> QED
    BY <1>3, <1>8, <2>1, <2>2, <2>4, <2>6, <2>7 DEF h, c
<1> QED
  BY <1>6, <1>7, <1>8

(* Each successful send() takes the head of the queue.                     *)
LEMMA SendTakesHead ==
  ASSUME RingInv, NEW k \in 1..Segment, SendTakes(k)
  PROVE  /\ k \in 1..message_length
         /\ sent' = sent \o SubSeq(Content, 1, k)
         /\ Content' = SubSeq(Content, k + 1, Len(Content))
         /\ message_consumer' \in Index /\ message_length' \in 0..SIZE
         /\ message_length' <= message_length
         /\ message_producer' = (message_consumer' + message_length') % SIZE
<1> DEFINE c == message_consumer
           n == message_length
<1>1. /\ c \in Index /\ c \in Int /\ n \in 0..SIZE /\ n \in Nat /\ n # 0
      /\ message_buf \in [Index -> Byte] /\ SIZE \in Nat
  BY SizeFacts DEF RingInv, TypeOK, Index, SendTakes
<1>2. Segment \in 1..n /\ c + Segment <= SIZE
  BY <1>1, SegmentIsContent DEF RingInv
<1>3. k \in 1..n /\ c + k <= SIZE
  BY <1>1, <1>2
<1>4. /\ Content = ContentOf(message_buf, c, n)
      /\ Content' = ContentOf(message_buf', message_consumer', message_length')
  BY DEF Content, ContentOf, Place
<1>5. /\ sent' = sent \o [i \in 1..k |-> message_buf[c + i - 1]]
      /\ message_consumer' = (c + k) % SIZE /\ message_length' = n - k
      /\ message_buf' = message_buf /\ message_producer' = message_producer
  BY DEF SendTakes, Mod
<1>6. /\ [i \in 1..k |-> message_buf[c + i - 1]] = SubSeq(ContentOf(message_buf, c, n), 1, k)
      /\ ContentOf(message_buf, (c + k) % SIZE, n - k)
           = SubSeq(ContentOf(message_buf, c, n), k + 1, Len(ContentOf(message_buf, c, n)))
      /\ (c + k) % SIZE \in Index
      /\ (((c + k) % SIZE) + (n - k)) % SIZE = (c + n) % SIZE
  BY <1>1, <1>3, BytesTaken
<1>7. message_producer = (c + n) % SIZE
  BY DEF RingInv, RingConsistent
<1>8. n - k \in 0..SIZE /\ n - k <= n
  BY <1>1, <1>3
<1> QED
  BY <1>3, <1>4, <1>5, <1>6, <1>7, <1>8
-----------------------------------------------------------------------------
(* The inductive invariant.                                                *)

(* The invariant holds for a new connection.                               *)
LEMMA RingInit == Init => RingInv
<1> SUFFICES ASSUME Init PROVE RingInv
  OBVIOUS
<1>1. 0 \in Index /\ 0 \in 0..SIZE /\ SIZE # 0
  BY SizeFacts DEF Index
<1>2. message_buf \in [Index -> Byte]
  BY DEF Init, Byte
<1>3. rest \in Seq(Text \cup {NL}) /\ sent \in Seq(Byte)
  BY EmptySeq DEF Init
<1>4. TypeOK
  BY <1>1, <1>2, <1>3 DEF Init, TypeOK
<1>5. RingConsistent
  <2>1. 0 \in 0..(SIZE - 1) /\ 0 + 0 = 0
    BY SizeFacts
  <2> QED
    BY <2>1, ModSmall, SizeFacts DEF Init, RingConsistent
<1> QED
  BY <1>1, <1>4, <1>5 DEF Init, RingInv, WriteReadied

(* Steps that leave the ring alone.                                        *)
LEMMA RingKept ==
  ASSUME RingInv, UNCHANGED ring
  PROVE  /\ message_buf' \in [Index -> Byte] /\ message_producer' \in Index
         /\ message_consumer' \in Index /\ message_length' \in 0..SIZE
         /\ RingConsistent' /\ Content' = Content /\ message_length' = message_length
<1>1. UNCHANGED <<message_buf, message_producer, message_consumer, message_length>>
  BY DEF ring
<1> QED
  BY <1>1 DEF RingInv, TypeOK, RingConsistent, Content

(* Leaving the loop of add_message().                                      *)
LEMMA MessageDoneReadied ==
  ASSUME RingInv, MessageDone
  PROVE  /\ rest' \in Seq(Text \cup {NL}) /\ pc' \in {"idle", "flush"}
         /\ back' \in {"idle", "room", "put"} /\ WriteReadied'
BY EmptySeq DEF RingInv, TypeOK, MessageDone, WriteReadied

(* Every step of add_message(), of flush_message() and of the network      *)
(* keeps it.                                                               *)
LEMMA RingStep == RingInv /\ [Next]_vars => RingInv'
<1> SUFFICES ASSUME RingInv, [Next]_vars PROVE RingInv'
  OBVIOUS
<1> USE DEF RingInv
<1>1. ASSUME NEW m \in Messages, add_message(m) \/ add_vmessage(m) PROVE RingInv'
  <2>1. /\ UNCHANGED ring /\ net_dead' = net_dead /\ back' = back /\ sent' = sent
        /\ rest' = m /\ formatted' \in BOOLEAN /\ pc' = "char" /\ calls' = calls + 1
    BY <1>1 DEF add_message, add_vmessage, Message
  <2>2. m \in Seq(Text \cup {NL})
    BY BufferAssumption
  <2>3. calls' \in Nat
    BY <2>1 DEF TypeOK
  <2> QED
    BY <2>1, <2>2, <2>3, RingKept DEF TypeOK, WriteReadied
<1>2. CASE NextByte
  <2>1. UNCHANGED ring /\ UNCHANGED <<net_dead, formatted, calls, sent>> /\ pc = "char"
    BY <1>2 DEF NextByte
  <2>2. CASE rest = <<>> /\ MessageDone
    BY <2>1, <2>2, RingKept, MessageDoneReadied DEF TypeOK
  <2>3. CASE rest # <<>> /\ message_length = SIZE /\ pc' = "flush" /\ back' = "room" /\ rest' = rest
    BY <2>1, <2>3, RingKept DEF TypeOK, WriteReadied
  <2>4. CASE rest # <<>> /\ message_length # SIZE /\ pc' = "room" /\ back' = back /\ rest' = rest
    BY <2>1, <2>4, RingKept DEF TypeOK, WriteReadied
  <2> QED
    BY <1>2, <2>2, <2>3, <2>4 DEF NextByte
<1>3. CASE MakeRoom
  <2>1. UNCHANGED ring /\ UNCHANGED <<net_dead, formatted, calls, sent>> /\ pc = "room"
    BY <1>3 DEF MakeRoom
  <2>2. CASE message_length = SIZE /\ MessageDone
    BY <2>1, <2>2, RingKept, MessageDoneReadied DEF TypeOK
  <2>3. CASE message_length # SIZE /\ pc' = "flush" /\ back' = "put" /\ rest' = rest
    BY <2>1, <2>3, RingKept DEF TypeOK, WriteReadied
  <2>4. CASE message_length # SIZE /\ pc' = "put" /\ back' = back /\ rest' = rest
    BY <2>1, <2>4, RingKept DEF TypeOK, WriteReadied
  <2> QED
    BY <1>3, <2>2, <2>3, <2>4 DEF MakeRoom
<1>4. CASE Put
  <2>1. UNCHANGED <<net_dead, formatted, calls, sent>>
    BY <1>4 DEF Put
  <2>2. CASE MessageDone /\ UNCHANGED ring
    BY <2>1, <2>2, RingKept, MessageDoneReadied DEF TypeOK
  <2>3. CASE /\ Tail(rest) \in Seq(Text \cup {NL})
             /\ rest' = Tail(rest) /\ pc' = "char" /\ back' = back
             /\ message_buf' \in [Index -> Byte] /\ message_producer' \in Index
             /\ message_consumer' = message_consumer
             /\ message_length' \in 0..SIZE
             /\ message_producer' = (message_consumer + message_length') % SIZE
    BY <2>1, <2>3 DEF TypeOK, RingConsistent, WriteReadied
  <2> QED
    BY <1>4, <2>2, <2>3, PutAdds
<1>5. CASE WriteReady
  BY <1>5, RingKept DEF WriteReady, TypeOK, WriteReadied
<1>6. CASE Send
  <2>1. PICK k \in 1..Segment : SendTakes(k)
    BY <1>6 DEF Send
  <2>2. /\ UNCHANGED <<message_buf, message_producer, net_dead, rest, pc, back, formatted, calls>>
        /\ message_length # 0 /\ pc = "flush"
    BY <2>1 DEF SendTakes
  <2>3. /\ k \in 1..message_length /\ sent' = sent \o SubSeq(Content, 1, k)
        /\ message_consumer' \in Index /\ message_length' \in 0..SIZE
        /\ message_producer' = (message_consumer' + message_length') % SIZE
        /\ message_length' <= message_length
    BY <2>1, SendTakesHead
  <2>4. sent' \in Seq(Byte)
    <3>1. Content \in Seq(Byte) /\ Len(Content) = message_length /\ message_length \in Nat
      BY ContentProperties
    <3>2. SubSeq(Content, 1, k) \in Seq(Byte)
      <4> \A i \in 1..k : Content[i] \in Byte
        BY <2>3, <3>1, ElementOfSeq
      <4> QED
        BY <2>3, <3>1, SubSeqProperties
    <3> QED
      BY <2>3, <3>2, ConcatProperties DEF TypeOK
  <2>5. message_length # SIZE => message_length' # SIZE
    BY <2>2, <2>3, SizeFacts DEF TypeOK
  <2>6. TypeOK'
    BY <2>2, <2>3, <2>4 DEF TypeOK
  <2>7. WriteReadied'
    BY <2>2, <2>5 DEF WriteReadied
  <2> QED
    BY <2>3, <2>6, <2>7 DEF RingConsistent
<1>7. CASE FlushReturns
  BY <1>7, RingKept DEF FlushReturns, TypeOK, WriteReadied
<1>8. CASE SendFails
  BY <1>8, RingKept, EmptySeq DEF SendFails, TypeOK, WriteReadied
<1>9. CASE UNCHANGED vars
  <2>1. UNCHANGED ring /\ UNCHANGED <<net_dead, rest, pc, back, formatted, calls, sent>>
    BY <1>9 DEF vars, ring
  <2> QED
    BY <2>1, RingKept DEF TypeOK, WriteReadied
<1> QED
  BY <1>1, <1>2, <1>3, <1>4, <1>5, <1>6, <1>7, <1>8, <1>9 DEF Next

(* So it always holds: add_message() finds the room it counted on.         *)
LEMMA RingAlways == Spec => []RingInv
<1>1. Init => RingInv
  BY RingInit
<1>2. RingInv /\ [Next]_vars => RingInv'
  BY RingStep
<1> QED
  BY <1>1, <1>2, PTL DEF Spec
-----------------------------------------------------------------------------
(* Every step adds a byte or a line end to the queue, takes the head of it *)
(* or leaves it alone.                                                     *)
LEMMA StepOfQueue ==
  ASSUME RingInv, [Next]_vars
  PROVE  \/ \E c \in Text \cup {NL} :
              /\ Content' = IF c = NL THEN Content \o <<CR, NL>> ELSE Append(Content, c)
              /\ sent' = sent
         \/ \E k \in 1..Len(Content) :
              /\ sent' = sent \o SubSeq(Content, 1, k)
              /\ Content' = SubSeq(Content, k + 1, Len(Content))
         \/ UNCHANGED <<Content, sent>>
<1>1. ASSUME NEW m \in Messages, add_message(m) \/ add_vmessage(m) PROVE UNCHANGED <<Content, sent>>
  BY <1>1, RingKept DEF add_message, add_vmessage, Message
<1>2. CASE NextByte
  BY <1>2, RingKept DEF NextByte
<1>3. CASE MakeRoom
  BY <1>3, RingKept DEF MakeRoom
<1>4. CASE Put
  <2>1. sent' = sent
    BY <1>4 DEF Put
  <2>2. CASE UNCHANGED ring
    BY <2>1, <2>2, RingKept
  <2>3. CASE /\ Head(rest) \in Text \cup {NL}
             /\ Content' = IF Head(rest) = NL THEN Content \o <<CR, NL>>
                                              ELSE Append(Content, Head(rest))
    BY <2>1, <2>3
  <2> QED
    BY <1>4, <2>2, <2>3, PutAdds
<1>5. CASE WriteReady
  BY <1>5, RingKept DEF WriteReady
<1>6. CASE Send
  <2>1. PICK k \in 1..Segment : SendTakes(k)
    BY <1>6 DEF Send
  <2>2. k \in 1..Len(Content)
    BY <2>1, SendTakesHead, ContentProperties DEF RingInv
  <2> QED
    BY <2>1, <2>2, SendTakesHead
<1>7. CASE FlushReturns
  BY <1>7, RingKept DEF FlushReturns
<1>8. CASE SendFails
  BY <1>8, RingKept DEF SendFails
<1>9. CASE UNCHANGED vars
  <2>1. UNCHANGED ring /\ sent' = sent
    BY <1>9 DEF vars, ring
  <2> QED
    BY <2>1, RingKept
<1> QED
  BY <1>1, <1>2, <1>3, <1>4, <1>5, <1>6, <1>7, <1>8, <1>9 DEF Next

(* The ring buffer with its wrapping indices and its full-buffer checks    *)
(* implements the first-in first-out queue: bytes leave in the order they  *)
(* came, none is lost or repeated, and none is accepted beyond the size.   *)
THEOREM RingIsQueue == Spec => QueueImplemented
<1>1. Init => Queue!Init
  <2> SUFFICES ASSUME Init PROVE Queue!Init
    OBVIOUS
  <2>1. RingInv
    BY RingInit
  <2>2. Content \in Seq(Byte) /\ Len(Content) = 0
    BY <2>1, ContentProperties DEF Init, RingInv
  <2>3. Content = <<>>
    BY <2>2, EmptySeq
  <2> QED
    BY <2>3 DEF Init, Queue!Init
<1>2. RingInv /\ [Next]_vars => [Queue!Next]_(Queue!vars)
  <2> SUFFICES ASSUME RingInv, [Next]_vars PROVE [Queue!Next]_(Queue!vars)
    OBVIOUS
  <2>1. Len(Content') <= SIZE
    <3>1. RingInv'
      BY RingStep
    <3>2. /\ message_buf' \in [Index -> Byte] /\ message_consumer' \in Int
          /\ message_length' \in Nat /\ message_length' <= SIZE
      BY <3>1, SizeFacts DEF RingInv, TypeOK, Index
    <3>3. Content' = ContentOf(message_buf', message_consumer', message_length')
      BY DEF Content, ContentOf, Place
    <3> QED
      BY <3>2, <3>3, ContentIsSeq
  <2>2. ASSUME NEW c \in Text \cup {NL},
               Content' = IF c = NL THEN Content \o <<CR, NL>> ELSE Append(Content, c),
               sent' = sent
        PROVE  Queue!Next
    BY <2>1, <2>2 DEF Queue!Next, Queue!Enqueue
  <2>3. ASSUME NEW k \in 1..Len(Content),
               sent' = sent \o SubSeq(Content, 1, k),
               Content' = SubSeq(Content, k + 1, Len(Content))
        PROVE  Queue!Next
    BY <2>3 DEF Queue!Next, Queue!Send
  <2> QED
    BY <2>2, <2>3, StepOfQueue DEF Queue!vars
<1> QED
  BY <1>1, <1>2, RingAlways, PTL DEF Spec, Queue!Spec, QueueImplemented
-----------------------------------------------------------------------------
(* Line ends.                                                              *)

(* In the byte stream s a carriage return and a line feed come together.   *)
LinesWhole(s) ==
  \A i \in 1..Len(s) :
    /\ s[i] = CR => i < Len(s) /\ s[i + 1] = NL
    /\ s[i] = NL => i > 1 /\ s[i - 1] = CR

(* An ordinary byte behind whole lines leaves them whole.                  *)
LEMMA TextKeepsLines ==
  ASSUME NEW s \in Seq(Byte), LinesWhole(s), NEW c \in Text
  PROVE  LinesWhole(Append(s, c))
<1> DEFINE n == Len(s)
           t == Append(s, c)
<1>1. c \in Byte /\ c # NL /\ c # CR /\ n \in Nat
  BY SizeFacts, LenProperties DEF Byte
<1>2. t \in Seq(Byte) /\ Len(t) = n + 1 /\ (\A i \in 1..n : t[i] = s[i]) /\ t[n + 1] = c
  BY <1>1, AppendProperties
<1> HIDE DEF t
<1>3. ASSUME NEW i \in 1..(n + 1)
      PROVE  /\ t[i] = CR => i < n + 1 /\ t[i + 1] = NL
             /\ t[i] = NL => i > 1 /\ t[i - 1] = CR
  <2>1. CASE i = n + 1
    BY <1>1, <1>2, <2>1
  <2>2. CASE i \in 1..n
    <3>1. t[i] = s[i]
      BY <1>2, <2>2
    <3>2. ASSUME t[i] = CR PROVE i < n + 1 /\ t[i + 1] = NL
      <4>1. i < n /\ s[i + 1] = NL
        BY <2>2, <3>1, <3>2 DEF LinesWhole
      <4>2. i + 1 \in 1..n
        BY <1>1, <2>2, <4>1
      <4> QED
        BY <1>1, <1>2, <4>1, <4>2
    <3>3. ASSUME t[i] = NL PROVE i > 1 /\ t[i - 1] = CR
      <4>1. i > 1 /\ s[i - 1] = CR
        BY <2>2, <3>1, <3>3 DEF LinesWhole
      <4>2. i - 1 \in 1..n
        BY <1>1, <2>2, <4>1
      <4> QED
        BY <1>2, <4>1, <4>2
    <3> QED
      BY <3>2, <3>3
  <2> QED
    BY <1>1, <2>1, <2>2
<1> QED
  BY <1>2, <1>3 DEF LinesWhole, t

(* So does a carriage return with its line feed.                           *)
LEMMA LineEndKeepsLines ==
  ASSUME NEW s \in Seq(Byte), LinesWhole(s)
  PROVE  LinesWhole(s \o <<CR, NL>>)
<1> DEFINE n == Len(s)
           e == <<CR, NL>>
           t == s \o e
<1>1. e \in Seq(Byte) /\ Len(e) = 2 /\ e[1] = CR /\ e[2] = NL
  BY DEF Byte
<1> HIDE DEF e
<1>2. n \in Nat /\ CR # NL
  BY SizeFacts, LenProperties
<1>3. /\ t \in Seq(Byte) /\ Len(t) = n + 2
      /\ \A i \in 1..(n + 2) : t[i] = IF i <= n THEN s[i] ELSE e[i - n]
  <2>1. /\ t \in Seq(Byte) /\ Len(t) = n + Len(e)
        /\ \A i \in 1..(n + Len(e)) : t[i] = IF i <= n THEN s[i] ELSE e[i - n]
    BY <1>1, ConcatProperties
  <2> QED
    BY <1>1, <2>1
<1> HIDE DEF t
<1>4. (\A i \in 1..n : t[i] = s[i]) /\ t[n + 1] = CR /\ t[n + 2] = NL
  BY <1>1, <1>2, <1>3, SMTT(30)
<1>5. ASSUME NEW i \in 1..(n + 2)
      PROVE  /\ t[i] = CR => i < n + 2 /\ t[i + 1] = NL
             /\ t[i] = NL => i > 1 /\ t[i - 1] = CR
  <2>1. CASE i = n + 1
    <3> i + 1 = n + 2 /\ i < n + 2
      BY <1>2, <2>1
    <3> QED
      BY <1>2, <1>4, <2>1
  <2>2. CASE i = n + 2
    <3> i - 1 = n + 1 /\ i > 1
      BY <1>2, <2>2
    <3> QED
      BY <1>2, <1>4, <2>2
  <2>3. CASE i \in 1..n
    <3>1. t[i] = s[i]
      BY <1>4, <2>3
    <3>2. ASSUME t[i] = CR PROVE i < n + 2 /\ t[i + 1] = NL
      <4>1. i < n /\ s[i + 1] = NL
        BY <2>3, <3>1, <3>2 DEF LinesWhole
      <4>2. i + 1 \in 1..n
        BY <1>2, <2>3, <4>1
      <4> QED
        BY <1>2, <1>4, <4>1, <4>2
    <3>3. ASSUME t[i] = NL PROVE i > 1 /\ t[i - 1] = CR
      <4>1. i > 1 /\ s[i - 1] = CR
        BY <2>3, <3>1, <3>3 DEF LinesWhole
      <4>2. i - 1 \in 1..n
        BY <1>2, <2>3, <4>1
      <4> QED
        BY <1>4, <4>1, <4>2
    <3> QED
      BY <3>2, <3>3
  <2>4. i \in 1..n \/ i = n + 1 \/ i = n + 2
    BY <1>2
  <2> QED
    BY <2>1, <2>2, <2>3, <2>4
<1> QED
  BY <1>3, <1>5 DEF LinesWhole, t, e

(* However the ring wraps, send() splits the output and messages are cut   *)
(* off, the client sees whole line ends, and the ring's indices agree.     *)
THEOREM OutputAlwaysWhole == Spec => []OutputWhole
<1> DEFINE Whole == LinesWhole(sent \o Content)
<1>1. Init => Whole
  <2> SUFFICES ASSUME Init PROVE Whole
    OBVIOUS
  <2>1. Content \in Seq(Byte) /\ Len(Content) = 0 /\ sent \in Seq(Byte) /\ Len(sent) = 0
    BY RingInit, ContentProperties, EmptySeq DEF Init, RingInv
  <2>2. Len(sent \o Content) = 0
    BY <2>1, ConcatProperties
  <2> QED
    BY <2>2 DEF LinesWhole
<1>2. RingInv /\ Whole /\ [Next]_vars => Whole'
  <2> SUFFICES ASSUME RingInv, Whole, [Next]_vars PROVE Whole'
    OBVIOUS
  <2>1. Content \in Seq(Byte) /\ sent \in Seq(Byte) /\ CR \in Byte /\ NL \in Byte
    BY ContentProperties DEF RingInv, TypeOK, Byte
  <2>2. sent \o Content \in Seq(Byte)
    BY <2>1, ConcatProperties
  <2>3. ASSUME NEW c \in Text \cup {NL}, sent' = sent,
               Content' = IF c = NL THEN Content \o <<CR, NL>> ELSE Append(Content, c)
        PROVE  Whole'
    <3>1. CASE c = NL
      <4>1. sent' \o Content' = sent \o (Content \o <<CR, NL>>)
        BY <2>3, <3>1
      <4>2. <<CR, NL>> \in Seq(Byte)
        BY <2>1
      <4>3. sent \o (Content \o <<CR, NL>>) = (sent \o Content) \o <<CR, NL>>
        BY <2>1, <4>2, ConcatAssociative
      <4> QED
        BY <2>2, <4>1, <4>3, LineEndKeepsLines
    <3>2. CASE c # NL
      <4>1. c \in Text /\ c \in Byte
        BY <3>2 DEF Byte
      <4>2. Content' = Content \o <<c>> /\ <<c>> \in Seq(Byte)
        BY <2>1, <2>3, <3>2, <4>1, AppendIsConcat
      <4>3. sent \o (Content \o <<c>>) = (sent \o Content) \o <<c>>
        BY <2>1, <4>2, ConcatAssociative
      <4>4. (sent \o Content) \o <<c>> = Append(sent \o Content, c)
        BY <2>2, <4>1, AppendIsConcat
      <4> QED
        BY <2>2, <2>3, <4>1, <4>2, <4>3, <4>4, TextKeepsLines
    <3> QED
      BY <3>1, <3>2
  <2>4. ASSUME NEW k \in 1..Len(Content),
               sent' = sent \o SubSeq(Content, 1, k),
               Content' = SubSeq(Content, k + 1, Len(Content))
        PROVE  Whole'
    <3> DEFINE a == SubSeq(Content, 1, k)
               b == SubSeq(Content, k + 1, Len(Content))
    <3>0. Len(Content) \in Nat /\ \A i \in 1..Len(Content) : Content[i] \in Byte
      BY <2>1, LenProperties, ElementOfSeq
    <3>1. a \in Seq(Byte) /\ b \in Seq(Byte)
      <4>1. (\A i \in 1..k : Content[i] \in Byte) /\ \A i \in (k + 1)..Len(Content) : Content[i] \in Byte
        BY <3>0
      <4> QED
        BY <2>1, <3>0, <4>1, SubSeqProperties
    <3>2. a \o b = SubSeq(Content, 1, Len(Content))
      BY <2>1, <3>0, ConcatAdjacentSubSeq
    <3>3. SubSeq(Content, 1, Len(Content)) = Content
      BY <2>1, SubSeqFull
    <3> HIDE DEF a, b
    <3>4. (sent \o a) \o b = sent \o (a \o b)
      BY <2>1, <3>1, ConcatAssociative, SMTT(60)
    <3> QED
      BY <2>4, <3>2, <3>3, <3>4 DEF a, b
  <2>5. ASSUME UNCHANGED <<Content, sent>> PROVE Whole'
    BY <2>5
  <2> QED
    BY <2>3, <2>4, <2>5, StepOfQueue
<1>3. RingInv /\ Whole => OutputWhole
  BY DEF RingInv, OutputWhole, LineEndsWhole, LinesWhole
<1> QED
  BY <1>1, <1>2, <1>3, RingAlways, PTL DEF Spec
-----------------------------------------------------------------------------
(* Bytes a read may find.                                                  *)
ReadByte == Chars \cup {LF, DEL, IAC}

(* What the assumption says of this session.                               *)
LEMMA SessionFacts ==
  ASSUME session \in Sessions
  PROVE  /\ session.type \in {"telnet", "ascii"} /\ session.getChars \in BOOLEAN
         /\ session.snoopErrors \in BOOLEAN
         /\ \A read \in session.reads : read \in Seq(ReadByte)
<1>1. session.reads \subseteq Seq(ReadByte)
  BY InputAssumption DEF ReadByte
<1> QED
  BY <1>1, InputAssumption
-----------------------------------------------------------------------------
(* Sequences joined one after the other.                                   *)
Joining(f, g, n) == f = [i \in 0..n |-> IF i = 0 THEN <<>> ELSE f[i - 1] \o g[i]]

(* They can be joined.                                                     *)
LEMMA Joined ==
  ASSUME NEW g, NEW n \in Nat
  PROVE  \E f : Joining(f, g, n)
<1> DEFINE S == {k \in Nat : \E f : Joining(f, g, k)}
<1>1. 0 \in S
  <2>1. PICK f : f = [i \in 0..0 |-> <<>>]
    OBVIOUS
  <2>2. f = [i \in 0..0 |-> IF i = 0 THEN <<>> ELSE f[i - 1] \o g[i]]
    BY <2>1
  <2> QED
    BY <2>2 DEF Joining
<1>2. ASSUME NEW k \in Nat, k \in S PROVE k + 1 \in S
  <2>1. PICK f : Joining(f, g, k)
    BY <1>2
  <2>2. PICK x : x = f[k] \o g[k + 1]
    OBVIOUS
  <2>3. PICK h : h = [i \in 0..(k + 1) |-> IF i = k + 1 THEN x ELSE f[i]]
    OBVIOUS
  <2>4. h[k] = f[k] /\ h[k + 1] = x
    BY <2>3
  <2>5. ASSUME NEW i \in 0..(k + 1)
        PROVE  h[i] = IF i = 0 THEN <<>> ELSE h[i - 1] \o g[i]
    <3>1. CASE i = k + 1
      <4>1. i # 0 /\ i - 1 = k
        BY <3>1
      <4> QED
        BY <2>2, <2>4, <3>1, <4>1
    <3>2. CASE i # k + 1
      <4>1. i \in 0..k /\ (i # 0 => i - 1 \in 0..k /\ i - 1 # k + 1 /\ i - 1 \in 0..(k + 1))
        BY <3>2
      <4>2. h[i] = f[i] /\ (i # 0 => h[i - 1] = f[i - 1])
        BY <2>3, <3>2, <4>1
      <4>3. f[i] = IF i = 0 THEN <<>> ELSE f[i - 1] \o g[i]
        BY <2>1, <4>1 DEF Joining
      <4> QED
        BY <4>2, <4>3
    <3> QED
      BY <3>1, <3>2
  <2>6. h = [i \in 0..(k + 1) |-> h[i]]
    BY <2>3
  <2>7. h = [i \in 0..(k + 1) |-> IF i = 0 THEN <<>> ELSE h[i - 1] \o g[i]]
    BY <2>5, <2>6
  <2> QED
    BY <2>7 DEF Joining
<1> HIDE DEF S
<1>3. n \in S
  BY <1>1, <1>2, NatInd
<1> QED
  BY <1>3 DEF S

(* copy_chars() joins what it makes of each byte.                          *)
Copying(f, read) ==
  /\ f[0] = <<>> /\ \A i \in 1..Len(read) : f[i] = f[i - 1] \o Copied(read[i])
  /\ copy_chars(read) = f[Len(read)]

(* So the function copy_chars() is defined by exists.                      *)
LEMMA CopyIs == ASSUME NEW T, NEW read \in Seq(T) PROVE \E f : Copying(f, read)
<1> DEFINE n == Len(read)
           g == [i \in 1..n |-> Copied(read[i])]
<1>1. n \in Nat
  BY LenProperties
<1> HIDE DEF n
<1>3. PICK f : f = CHOOSE h : h = [i \in 0..n |-> IF i = 0 THEN <<>> ELSE h[i - 1] \o Copied(read[i])]
  OBVIOUS
<1>4. copy_chars(read) = f[n]
  BY <1>3, Zenon DEF copy_chars, n
<1>5. f = [i \in 0..n |-> IF i = 0 THEN <<>> ELSE f[i - 1] \o Copied(read[i])]
  <2>1. PICK h : h = [i \in 0..n |-> IF i = 0 THEN <<>> ELSE h[i - 1] \o g[i]]
    <3> HIDE DEF g
    <3> QED
      BY <1>1, Joined DEF Joining
  <2>2. \A i \in 0..n : i # 0 => g[i] = Copied(read[i])
    BY <1>1
  <2>3. h = [i \in 0..n |-> IF i = 0 THEN <<>> ELSE h[i - 1] \o Copied(read[i])]
    <3> HIDE DEF g
    <3> QED
      BY <2>1, <2>2
  <2> QED
    BY <1>3, <2>3, Zenon
<1>6. f[0] = <<>> /\ \A i \in 1..n : f[i] = f[i - 1] \o Copied(read[i])
  <2>1. \A i \in 1..n : i \in 0..n /\ i # 0
    BY <1>1
  <2>2. 0 \in 0..n
    BY <1>1
  <2> QED
    BY <1>5, <2>1, <2>2
<1> QED
  BY <1>4, <1>6 DEF Copying, n

(* What a byte becomes.                                                    *)
LEMMA CopiedIs ==
  ASSUME NEW b \in ReadByte
  PROVE  /\ Copied(b) \in Seq(InputByte) /\ Len(Copied(b)) <= 3 /\ Len(Copied(b)) \in Nat
         /\ \/ Copied(b) = <<>> /\ b \notin Chars
            \/ Copied(b) = <<LF>> /\ b \notin Chars
            \/ Copied(b) = <<SP, BS, NUL>> /\ b \notin Chars
            \/ Copied(b) = <<b>> /\ b \in Chars \cup {DEL}
<1>1. PICK t : t = Copied(b)
  OBVIOUS
<1>2. \/ t = <<>> /\ b \notin Chars
      \/ t = <<LF>> /\ b \notin Chars
      \/ t = <<SP, BS, NUL>> /\ b \notin Chars
      \/ t = <<b>> /\ b \in Chars \cup {DEL}
  BY <1>1, InputAssumption DEF Copied, ReadByte
<1>3. t \in Seq(InputByte) /\ Len(t) <= 3 /\ Len(t) \in Nat
  <2>1. LF \in InputByte /\ SP \in InputByte /\ BS \in InputByte /\ NUL \in InputByte
        /\ (b \in Chars \cup {DEL} => b \in InputByte)
    BY DEF InputByte
  <2>2. CASE t = <<>>
    BY <2>2
  <2>3. CASE t = <<LF>>
    BY <2>1, <2>3
  <2>4. CASE t = <<SP, BS, NUL>>
    BY <2>1, <2>4
  <2>5. CASE t = <<b>> /\ b \in Chars \cup {DEL}
    BY <2>1, <2>5
  <2> QED
    BY <1>2, <2>2, <2>3, <2>4, <2>5
<1> QED
  BY <1>1, <1>2, <1>3

(* What copy_chars() makes of a read is at most three times as long: the   *)
(* reason for the division by 3 in get_user_data().                        *)
LEMMA CopyFits ==
  ASSUME NEW read \in Seq(ReadByte), NEW f, Copying(f, read)
  PROVE  \A k \in 0..Len(read) : f[k] \in Seq(InputByte) /\ Len(f[k]) <= 3 * k
<1> DEFINE n == Len(read)
           S == {k \in Nat : k <= n => f[k] \in Seq(InputByte) /\ Len(f[k]) <= 3 * k}
<1>1. n \in Nat /\ \A i \in 1..n : read[i] \in ReadByte
  BY LenProperties
<1>2. 0 \in S
  <2>1. f[0] \in Seq(InputByte) /\ Len(f[0]) <= 0 /\ 3 * 0 = 0
    BY EmptySeq DEF Copying
  <2> QED
    BY <2>1
<1> HIDE DEF n
<1>3. ASSUME NEW k \in Nat, k \in S PROVE k + 1 \in S
  <2> SUFFICES ASSUME k + 1 <= n
               PROVE  f[k + 1] \in Seq(InputByte) /\ Len(f[k + 1]) <= 3 * (k + 1)
    OBVIOUS
  <2>1. f[k] \in Seq(InputByte) /\ Len(f[k]) <= 3 * k /\ Len(f[k]) \in Nat
    BY <1>1, <1>3, LenProperties
  <2>2. k + 1 \in 1..n /\ (k + 1) - 1 = k
    BY <1>1
  <2>3. PICK c : c = Copied(read[k + 1])
    OBVIOUS
  <2>4. f[k + 1] = f[k] \o c
    BY <2>2, <2>3 DEF Copying, n
  <2>5. c \in Seq(InputByte) /\ Len(c) <= 3 /\ Len(c) \in Nat
    BY <1>1, <2>2, <2>3, CopiedIs
  <2>6. f[k + 1] \in Seq(InputByte) /\ Len(f[k + 1]) = Len(f[k]) + Len(c)
    BY <2>1, <2>4, <2>5, ConcatProperties
  <2>7. \A p, q \in Nat : p <= 3 * k /\ q <= 3 => p + q <= 3 * (k + 1)
    OBVIOUS
  <2> QED
    BY <2>1, <2>5, <2>6, <2>7
<1> HIDE DEF S
<1>4. Nat \subseteq S
  BY <1>2, <1>3, NatInd
<1> QED
  BY <1>1, <1>4 DEF S, n
-----------------------------------------------------------------------------
(* The first NUL is found, or the end.                                     *)
LEMMA FirstNulIs ==
  ASSUME NEW t \in Seq(InputByte), NEW i \in 1..(Len(t) + 1)
  PROVE  LET j == FirstNul(t, i) IN
         /\ j \in i..(Len(t) + 1) /\ (j <= Len(t) => t[j] = NUL)
         /\ \A k \in i..(j - 1) : t[k] # NUL
<1> DEFINE S == {j \in i..(Len(t) + 1) : j <= Len(t) => t[j] = NUL}
<1>1. Len(t) \in Nat
  BY LenProperties
<1>2. S \subseteq Nat /\ Len(t) + 1 \in S
  BY <1>1
<1>3. PICK j \in S : \A k \in S : j <= k
  <2> HIDE DEF S
  <2> QED
    BY <1>2, LeastNat
<1>4. \A k \in i..(j - 1) : t[k] # NUL
  <2> SUFFICES ASSUME NEW k \in i..(j - 1), t[k] = NUL PROVE FALSE
    OBVIOUS
  <2>1. k \in S /\ k < j
    BY <1>1, <1>3
  <2> QED
    BY <1>3, <2>1
<1>5. \E y \in i..(Len(t) + 1) :
         (y <= Len(t) => t[y] = NUL) /\ \A k \in i..(y - 1) : t[k] # NUL
  BY <1>3, <1>4
<1> QED
  BY <1>5, Zenon DEF FirstNul

(* The first byte that is no NUL is found, or the end.                     *)
LEMMA SkipNulsIs ==
  ASSUME NEW t \in Seq(InputByte), NEW i \in 1..(Len(t) + 1)
  PROVE  LET j == SkipNuls(t, i) IN
         /\ j \in i..(Len(t) + 1) /\ (j <= Len(t) => t[j] # NUL)
         /\ \A k \in i..(j - 1) : t[k] = NUL
<1> DEFINE S == {j \in i..(Len(t) + 1) : j <= Len(t) => t[j] # NUL}
<1>1. Len(t) \in Nat
  BY LenProperties
<1>2. S \subseteq Nat /\ Len(t) + 1 \in S
  BY <1>1
<1>3. PICK j \in S : \A k \in S : j <= k
  <2> HIDE DEF S
  <2> QED
    BY <1>2, LeastNat
<1>4. \A k \in i..(j - 1) : t[k] = NUL
  <2> SUFFICES ASSUME NEW k \in i..(j - 1), t[k] # NUL PROVE FALSE
    OBVIOUS
  <2>1. k \in S /\ k < j
    BY <1>1, <1>3
  <2> QED
    BY <1>3, <2>1
<1>5. \E y \in i..(Len(t) + 1) :
         (y <= Len(t) => t[y] # NUL) /\ \A k \in i..(y - 1) : t[k] = NUL
  BY <1>3, <1>4
<1> QED
  BY <1>5, Zenon DEF SkipNuls

(* cmd_in_buf() looks for what Ends holds.                                 *)
EndsOf(t, start) == {i \in (start + 2)..Len(t) : t[i] = NUL /\ t[i - 1] # NUL}

(* In line mode a command is found exactly if one ends in the buffer.      *)
LEMMA CommandFound ==
  ASSUME NEW t \in Seq(InputByte), NEW start \in 0..Len(t), ~SINGLE_CHAR
  PROVE  cmd_in_buf(t, start) <=> EndsOf(t, start) # {}
<1> DEFINE i == SkipNuls(t, start + 1)
           j == FirstNul(t, i)
<1>1. Len(t) \in Nat /\ start \in Nat /\ start + 1 \in 1..(Len(t) + 1)
  BY LenProperties
<1>2. /\ i \in (start + 1)..(Len(t) + 1) /\ (i <= Len(t) => t[i] # NUL)
      /\ \A k \in (start + 1)..(i - 1) : t[k] = NUL
  BY <1>1, SkipNulsIs
<1>3. i \in 1..(Len(t) + 1)
  BY <1>1, <1>2
<1>4. /\ j \in i..(Len(t) + 1) /\ (j <= Len(t) => t[j] = NUL)
      /\ \A k \in i..(j - 1) : t[k] # NUL
  <2> HIDE DEF i
  <2> QED
    BY <1>3, FirstNulIs
<1>5. cmd_in_buf(t, start) <=> i <= Len(t) /\ j <= Len(t)
  BY DEF cmd_in_buf
<1> HIDE DEF i, j
<1>6. ASSUME i <= Len(t), j <= Len(t) PROVE EndsOf(t, start) # {}
  <2>1. j # i /\ j - 1 \in i..(j - 1) /\ j \in (start + 2)..Len(t)
    BY <1>1, <1>2, <1>4, <1>6
  <2>2. j \in EndsOf(t, start)
    BY <1>4, <1>6, <2>1 DEF EndsOf
  <2> QED
    BY <2>2
<1>7. ASSUME NEW e \in EndsOf(t, start) PROVE i <= Len(t) /\ j <= Len(t)
  <2>1. e \in (start + 2)..Len(t) /\ t[e] = NUL /\ t[e - 1] # NUL
    BY DEF EndsOf
  <2>2. i <= e - 1
    <3>1. e - 1 \in (start + 1)..(i - 1) \/ i <= e - 1
      BY <1>1, <1>2, <2>1
    <3> QED
      BY <1>2, <2>1, <3>1
  <2>3. j <= e
    <3>1. e \in i..(j - 1) \/ j <= e
      BY <1>1, <1>2, <1>4, <2>1, <2>2
    <3> QED
      BY <1>4, <2>1, <3>1
  <2> QED
    BY <1>1, <1>2, <1>4, <2>1, <2>2, <2>3
<1> QED
  BY <1>5, <1>6, <1>7

(* A part of the buffer.                                                   *)
LEMMA PartIs ==
  ASSUME NEW T, NEW t \in Seq(T), NEW i \in 1..(Len(t) + 1)
  PROVE  /\ SubSeq(t, i, Len(t)) \in Seq(T) /\ Len(SubSeq(t, i, Len(t))) = Len(t) - i + 1
         /\ \A k \in 1..(Len(t) - i + 1) : SubSeq(t, i, Len(t))[k] = t[i + k - 1]
<1>1. Len(t) \in Nat /\ Len(t) \in (i - 1)..Len(t)
  BY LenProperties
<1> QED
  BY <1>1, SubSeqProperties

-----------------------------------------------------------------------------
(* Whatever room is made: what may be read fits, at three bytes each, with *)
(* a NUL behind it.                                                        *)
LEMMA SpaceIs ==
  ASSUME NEW end \in Int
  PROVE  Space(end) \in Int /\ 3 * Space(end) <= MAX_TEXT - end - 1
<1>1. MAX_TEXT - end - 1 \in Int /\ 3 \in Nat \ {0}
  BY InputAssumption
<1>2. PICK a \in Int : a = MAX_TEXT - end - 1
  BY <1>1
<1>3. (a % 3) \in 0..2 /\ (a \div 3) \in Int /\ a = 3 * (a \div 3) + (a % 3)
  BY DivMod
<1> QED
  BY <1>2, <1>3 DEF Space

(* get_user_data() asks for no more than it has room for, at three bytes a *)
(* byte and a NUL behind them, whichever way it made the room.             *)
LEMMA RoomFits ==
  ASSUME InBounds
  PROVE  /\ Room.text \in Seq(InputByte) /\ Room.start \in 0..Len(Room.text)
         /\ Room.space \in Int /\ Len(Room.text) + 3 * Room.space <= MAX_TEXT - 1
<1> DEFINE moved == SubSeq(text, text_start + 1, text_end)
<1>1. /\ text \in Seq(InputByte) /\ Len(text) \in Nat /\ Len(text) <= MAX_TEXT - 1
      /\ text_start \in 0..Len(text) /\ MAX_TEXT \in Nat
  BY InputAssumption, LenProperties DEF InBounds, text_end
<1>2. moved \in Seq(InputByte) /\ Len(moved) \in Nat
  <2>1. text_start + 1 \in 1..(Len(text) + 1)
    BY <1>1
  <2> QED
    BY <1>1, <2>1, PartIs, LenProperties DEF text_end
<1>3. /\ Space(text_end) \in Int /\ 3 * Space(text_end) <= MAX_TEXT - Len(text) - 1
      /\ Space(Len(moved)) \in Int /\ 3 * Space(Len(moved)) <= MAX_TEXT - Len(moved) - 1
  <2> HIDE DEF moved
  <2> QED
    BY <1>1, <1>2, SpaceIs DEF text_end
<1>4. MAX_TEXT \div 3 \in Int /\ 3 * (MAX_TEXT \div 3) <= MAX_TEXT - 1
  <2>1. PICK a \in Int : a = MAX_TEXT
    BY <1>1
  <2>2. (a % 3) \in 0..2 /\ (a \div 3) \in Int /\ a = 3 * (a \div 3) + (a % 3)
    BY DivMod
  <2>3. (a % 3) # 0
    BY <2>1, InputAssumption
  <2> QED
    BY <2>1, <2>2, <2>3
<1>5. PICK a, b, c : /\ a = [text |-> text, start |-> text_start, space |-> Space(text_end)]
                     /\ b = [text |-> moved, start |-> 0, space |-> Space(Len(moved))]
                     /\ c = [text |-> <<>>, start |-> 0, space |-> MAX_TEXT \div 3]
  OBVIOUS
<1>6. Room \in {a, b, c}
  BY <1>5 DEF Room
<1> HIDE DEF moved
<1>7. CASE Room = a
  BY <1>1, <1>3, <1>5, <1>7 DEF text_end
<1>8. CASE Room = b
  BY <1>1, <1>2, <1>3, <1>5, <1>8
<1>9. CASE Room = c
  <2>1. <<>> \in Seq(InputByte) /\ Len(<<>>) = 0
    BY EmptySeq
  <2> QED
    BY <1>1, <1>4, <1>5, <1>9, <2>1
<1> QED
  BY <1>6, <1>7, <1>8, <1>9

-----------------------------------------------------------------------------
(* How many of the bytes of C are in the places a to b.                    *)
Held(t, a, b, C) == Cardinality({i \in a..b : t[i] \in C})

(* The number of places is a number.                                       *)
LEMMA HeldFinite ==
  ASSUME NEW t, NEW a \in Int, NEW b \in Int, NEW C
  PROVE  IsFiniteSet({i \in a..b : t[i] \in C}) /\ Held(t, a, b, C) \in Nat
<1>1. IsFiniteSet(a..b)
  BY FS_Interval
<1>2. {i \in a..b : t[i] \in C} \in SUBSET (a..b)
  OBVIOUS
<1>3. IsFiniteSet({i \in a..b : t[i] \in C})
  BY <1>1, <1>2, FS_Subset
<1> QED
  BY <1>3, FS_CardinalityType DEF Held

(* Without a byte of C there are none.                                     *)
LEMMA HeldNone ==
  ASSUME NEW t, NEW a, NEW b, NEW C, \A i \in a..b : t[i] \notin C
  PROVE  Held(t, a, b, C) = 0
<1>1. {i \in a..b : t[i] \in C} = {}
  OBVIOUS
<1> QED
  BY <1>1, FS_EmptySet DEF Held

(* A single place.                                                         *)
LEMMA HeldOne ==
  ASSUME NEW t, NEW a \in Int, NEW C
  PROVE  Held(t, a, a, C) = IF t[a] \in C THEN 1 ELSE 0
<1>1. a..a = {a}
  OBVIOUS
<1>2. CASE t[a] \in C
  <2>1. {i \in a..a : t[i] \in C} = {a}
    BY <1>1, <1>2
  <2> QED
    BY <1>2, <2>1, FS_Singleton DEF Held
<1>3. CASE t[a] \notin C
  <2>1. \A i \in a..a : t[i] \notin C
    BY <1>1, <1>3
  <2> QED
    BY <1>3, <2>1, HeldNone
<1> QED
  BY <1>2, <1>3

(* Places to the left and to the right of a point add up.                  *)
LEMMA HeldSplit ==
  ASSUME NEW t, NEW a \in Int, NEW b \in Int, NEW c \in Int, NEW C, a <= b + 1, b <= c
  PROVE  Held(t, a, c, C) = Held(t, a, b, C) + Held(t, b + 1, c, C)
<1> DEFINE S == {i \in a..b : t[i] \in C}
           T == {i \in (b + 1)..c : t[i] \in C}
<1>1. {i \in a..c : t[i] \in C} = S \cup T
  OBVIOUS
<1>2. S \cap T = {}
  OBVIOUS
<1>3. IsFiniteSet(S) /\ IsFiniteSet(T) /\ Held(t, a, b, C) \in Nat /\ Held(t, b + 1, c, C) \in Nat
  BY HeldFinite
<1>4. Held(t, a, b, C) = Cardinality(S) /\ Held(t, b + 1, c, C) = Cardinality(T)
  BY DEF Held
<1>5. Held(t, a, c, C) = Cardinality(S \cup T)
  BY <1>1 DEF Held
<1> HIDE DEF S, T
<1>6. Cardinality(S \cup T) = Cardinality(S) + Cardinality(T) - Cardinality({})
  BY <1>2, <1>3, FS_Union
<1> QED
  BY <1>3, <1>4, <1>5, <1>6, FS_EmptySet

(* The same bytes in other places are as many.                             *)
LEMMA HeldMoved ==
  ASSUME NEW t, NEW u, NEW a \in Int, NEW b \in Int, NEW x \in Int, NEW y \in Int, NEW C,
         y = b + (x - a), \A i \in a..b : u[i + (x - a)] = t[i]
  PROVE  Held(u, x, y, C) = Held(t, a, b, C)
<1> DEFINE d == x - a
           S == {i \in a..b : t[i] \in C}
           T == {i \in x..y : u[i] \in C}
           F == [i \in S |-> i + d]
<1>1. \A i \in S : i \in Int /\ i + d \in T
  OBVIOUS
<1>2. F \in [S -> T] /\ \A i, j \in S : F[i] = F[j] => i = j
  BY <1>1
<1>3. ASSUME NEW j \in T PROVE \E i \in S : F[i] = j
  <2>1. j - d \in a..b /\ (j - d) + d = j
    OBVIOUS
  <2>2. j - d \in S
    BY <2>1
  <2> QED
    BY <2>1, <2>2
<1>4. IsFiniteSet(S)
  <2>1. IsFiniteSet(a..b) /\ S \in SUBSET (a..b)
    BY FS_Interval
  <2> HIDE DEF S
  <2> QED
    BY <2>1, FS_Subset
<1>5. Held(u, x, y, C) = Cardinality(T) /\ Held(t, a, b, C) = Cardinality(S)
  BY DEF Held
<1> HIDE DEF S, T, F
<1>6. F \in Bijection(S, T)
  BY <1>2, <1>3, Fun_IsBij
<1>7. ExistsBijection(S, T)
  BY <1>6, Fun_ExistsBij
<1> QED
  BY <1>4, <1>5, <1>7, FS_Bijection

(* Equal bytes, equal counts.                                              *)
LEMMA HeldSame ==
  ASSUME NEW t, NEW u, NEW a \in Int, NEW b \in Int, NEW C, \A i \in a..b : u[i] = t[i]
  PROVE  Held(u, a, b, C) = Held(t, a, b, C)
<1>1. {i \in a..b : u[i] \in C} = {i \in a..b : t[i] \in C}
  OBVIOUS
<1> QED
  BY <1>1 DEF Held

(* Count() in these terms.                                                 *)
LEMMA CountIs ==
  ASSUME NEW T, NEW s \in Seq(T), NEW start \in Nat, NEW C
  PROVE  Count(s, start, C) = Held(s, start + 1, Len(s), C) /\ Count(s, start, C) \in Nat
<1>1. Len(s) \in Nat /\ DOMAIN s = 1..Len(s)
  BY LenProperties
<1>2. {i \in DOMAIN s : i > start /\ s[i] \in C} = {i \in (start + 1)..Len(s) : s[i] \in C}
  BY <1>1
<1>3. Count(s, start, C) = Held(s, start + 1, Len(s), C)
  BY <1>2 DEF Count, Held
<1>4. Held(s, start + 1, Len(s), C) \in Nat
  <2>1. start + 1 \in Int /\ Len(s) \in Int
    BY <1>1
  <2> QED
    BY <2>1, HeldFinite, Zenon
<1> QED
  BY <1>3, <1>4

(* An empty buffer holds none.                                             *)
LEMMA CountEmpty == ASSUME NEW C PROVE Count(<<>>, 0, C) = 0
<1>1. {i \in DOMAIN <<>> : i > 0 /\ <<>>[i] \in C} = {}
  OBVIOUS
<1> QED
  BY <1>1, FS_EmptySet DEF Count

(* What is appended adds its own.                                          *)
LEMMA CountConcat ==
  ASSUME NEW T, NEW s \in Seq(T), NEW r \in Seq(T), NEW start \in 0..Len(s), NEW C
  PROVE  Count(s \o r, start, C) = Count(s, start, C) + Count(r, 0, C)
<1>1. /\ Len(s) \in Nat /\ Len(r) \in Nat /\ start \in Nat /\ s \o r \in Seq(T)
      /\ Len(s \o r) = Len(s) + Len(r)
      /\ \A i \in 1..(Len(s) + Len(r)) : (s \o r)[i] = IF i <= Len(s) THEN s[i] ELSE r[i - Len(s)]
  BY ConcatProperties, LenProperties
<1>2. PICK n \in Nat, k \in Nat, q \in Seq(T) : n = Len(s) /\ k = Len(r) /\ q = s \o r
  BY <1>1
<1>3. Count(q, start, C) = Held(q, start + 1, n + k, C)
  <2>1. Count(q, start, C) = Held(q, start + 1, Len(q), C)
    BY <1>1, <1>2, CountIs
  <2> QED
    BY <1>1, <1>2, <2>1
<1>4. Held(q, start + 1, n + k, C) = Held(q, start + 1, n, C) + Held(q, n + 1, n + k, C)
  <2>1. PICK x \in Int, y \in Int : x = start + 1 /\ y = n + k
    BY <1>1, <1>2
  <2>2. n \in Int /\ x <= n + 1 /\ n <= y
    BY <1>1, <1>2, <2>1
  <2>3. Held(q, x, y, C) = Held(q, x, n, C) + Held(q, n + 1, y, C)
    BY <2>1, <2>2, HeldSplit
  <2> QED
    BY <2>1, <2>3
<1>5. Held(q, start + 1, n, C) = Held(s, start + 1, n, C)
  <2>1. \A i \in (start + 1)..n : q[i] = s[i]
    BY <1>1, <1>2
  <2> QED
    BY <1>1, <2>1, HeldSame
<1>6. Held(q, n + 1, n + k, C) = Held(r, 1, k, C)
  <2>1. \A i \in 1..k : q[i + ((n + 1) - 1)] = r[i]
    BY <1>1, <1>2
  <2>2. n + 1 \in Int /\ k \in Int /\ 1 \in Int /\ n + k \in Int /\ n + k = k + ((n + 1) - 1)
    BY <1>2
  <2> QED
    BY <2>1, <2>2, HeldMoved
<1>7. 0 + 1 = 1
  OBVIOUS
<1>8. Count(s, start, C) = Held(s, start + 1, n, C) /\ Count(r, 0, C) = Held(r, 0 + 1, k, C)
  BY <1>1, <1>2, CountIs
<1> QED
  BY <1>2, <1>3, <1>4, <1>5, <1>6, <1>7, <1>8

(* What is left of the front counts for nothing.                           *)
LEMMA CountSkip ==
  ASSUME NEW T, NEW s \in Seq(T), NEW a \in 0..Len(s), NEW b \in a..Len(s), NEW C,
         \A i \in (a + 1)..b : s[i] \notin C
  PROVE  Count(s, a, C) = Count(s, b, C)
<1>1. Len(s) \in Nat /\ a \in Nat /\ b \in Nat
  BY LenProperties
<1>2. Count(s, a, C) = Held(s, a + 1, Len(s), C) /\ Count(s, b, C) = Held(s, b + 1, Len(s), C)
  BY <1>1, CountIs
<1>3. Held(s, a + 1, Len(s), C) = Held(s, a + 1, b, C) + Held(s, b + 1, Len(s), C)
  BY <1>1, HeldSplit
<1>4. Held(s, a + 1, b, C) = 0
  BY HeldNone
<1>5. Held(s, b + 1, Len(s), C) \in Nat
  <2>1. b + 1 \in Int /\ Len(s) \in Int
    BY <1>1
  <2> QED
    BY <2>1, HeldFinite, Zenon
<1> QED
  BY <1>2, <1>3, <1>4, <1>5

(* Cutting a piece off: what it holds and what is left add up.             *)
LEMMA CountPart ==
  ASSUME NEW T, NEW s \in Seq(T), NEW a \in 0..Len(s), NEW b \in a..Len(s), NEW C
  PROVE  /\ SubSeq(s, a + 1, b) \in Seq(T) /\ Len(SubSeq(s, a + 1, b)) = b - a
         /\ \A i \in 1..(b - a) : SubSeq(s, a + 1, b)[i] = s[a + i]
         /\ Count(s, a, C) = Count(SubSeq(s, a + 1, b), 0, C) + Count(s, b, C)
<1>1. Len(s) \in Nat /\ a \in Nat /\ b \in Nat /\ a <= b /\ b <= Len(s)
  BY LenProperties
<1>2. a + 1 \in 1..(Len(s) + 1) /\ b \in (a + 1) - 1..Len(s)
  BY <1>1
<1>3. PICK r : r = SubSeq(s, a + 1, b)
  OBVIOUS
<1>4. /\ r \in Seq(T) /\ Len(r) = b - (a + 1) + 1
      /\ \A i \in 1..(b - (a + 1) + 1) : r[i] = s[(a + 1) + i - 1]
  BY <1>2, <1>3, SubSeqProperties
<1>5. Len(r) = b - a /\ \A i \in 1..(b - a) : r[i] = s[a + i]
  BY <1>1, <1>4
<1>6. Count(s, a, C) = Held(s, a + 1, Len(s), C) /\ Count(s, b, C) = Held(s, b + 1, Len(s), C)
  BY <1>1, CountIs
<1>7. Held(s, a + 1, Len(s), C) = Held(s, a + 1, b, C) + Held(s, b + 1, Len(s), C)
  BY <1>1, HeldSplit
<1>8. Count(r, 0, C) = Held(r, 0 + 1, b - a, C)
  BY <1>4, <1>5, CountIs
<1>9. Held(s, a + 1, b, C) = Held(r, 1, b - a, C)
  <2>1. \A i \in 1..(b - a) : s[i + ((a + 1) - 1)] = r[i]
    BY <1>1, <1>5
  <2>2. b - a \in Int /\ a + 1 \in Int /\ b \in Int /\ 1 \in Int /\ b = (b - a) + ((a + 1) - 1)
    BY <1>1
  <2> QED
    BY <2>1, <2>2, HeldMoved
<1>10. 0 + 1 = 1
  OBVIOUS
<1> QED
  BY <1>3, <1>4, <1>5, <1>6, <1>7, <1>8, <1>9, <1>10
-----------------------------------------------------------------------------
(* Without erase characters a backspace is always that of a line end, with *)
(* the blank it takes back before it.                                      *)
Neat(t, start) ==
  \A p \in (start + 1)..Len(t) :
    t[p] # DEL /\ (t[p] = BS => p - 1 > start /\ t[p - 1] = SP)

(* Neat text appended to neat text is neat.                                *)
LEMMA NeatConcat ==
  ASSUME NEW s \in Seq(InputByte), NEW r \in Seq(InputByte), NEW start \in 0..Len(s),
         Neat(s, start), Neat(r, 0)
  PROVE  Neat(s \o r, start)
<1>1. /\ Len(s) \in Nat /\ Len(r) \in Nat /\ start \in Nat
      /\ Len(s \o r) = Len(s) + Len(r)
      /\ \A i \in 1..(Len(s) + Len(r)) : (s \o r)[i] = IF i <= Len(s) THEN s[i] ELSE r[i - Len(s)]
  BY ConcatProperties, LenProperties
<1>2. PICK n, k, q : n \in Nat /\ k \in Nat /\ n = Len(s) /\ k = Len(r) /\ q = s \o r
  BY <1>1
<1> SUFFICES ASSUME NEW p \in (start + 1)..(n + k)
             PROVE  q[p] # DEL /\ (q[p] = BS => p - 1 > start /\ q[p - 1] = SP)
  BY <1>1, <1>2 DEF Neat
<1>3. CASE p <= n
  <2>1. q[p] = s[p] /\ (p - 1 > start => q[p - 1] = s[p - 1])
    BY <1>1, <1>2, <1>3
  <2>2. s[p] # DEL /\ (s[p] = BS => p - 1 > start /\ s[p - 1] = SP)
    BY <1>1, <1>2, <1>3 DEF Neat
  <2> QED
    BY <2>1, <2>2
<1>4. CASE p > n
  <2>1. PICK j \in 1..k : p = j + n
    <3>1. p - n \in 1..k /\ p = (p - n) + n
      BY <1>1, <1>2, <1>4
    <3> QED
      BY <3>1, Zenon
  <2>2. q[p] = r[j] /\ (j - 1 > 0 => q[p - 1] = r[j - 1])
    <3>1. \A i \in 1..(n + k) : i > n => q[i] = r[i - n]
      BY <1>1, <1>2
    <3>2. p \in 1..(n + k) /\ p - n = j
      BY <1>2, <1>4, <2>1
    <3>3. j - 1 > 0 => p - 1 \in 1..(n + k) /\ p - 1 > n /\ (p - 1) - n = j - 1
      BY <1>2, <2>1
    <3> QED
      BY <1>4, <3>1, <3>2, <3>3
  <2>3. r[j] # DEL /\ (r[j] = BS => j - 1 > 0 /\ r[j - 1] = SP)
    BY <1>2, <2>1 DEF Neat
  <2> QED
    BY <1>1, <1>2, <2>1, <2>2, <2>3
<1> QED
  BY <1>1, <1>2, <1>3, <1>4

(* So is a piece from the front.                                           *)
LEMMA NeatPart ==
  ASSUME NEW s \in Seq(InputByte), NEW a \in 0..Len(s), NEW b \in a..Len(s), Neat(s, a)
  PROVE  Neat(SubSeq(s, a + 1, b), 0)
<1>1. Len(s) \in Nat /\ a \in Nat /\ b \in Nat /\ a <= b /\ b <= Len(s)
  BY LenProperties
<1>2. PICK r : r = SubSeq(s, a + 1, b)
  OBVIOUS
<1>3. Len(r) = b - a /\ \A i \in 1..(b - a) : r[i] = s[a + i]
  BY <1>2, CountPart
<1> SUFFICES ASSUME NEW p \in 1..(b - a)
             PROVE  r[p] # DEL /\ (r[p] = BS => p - 1 > 0 /\ r[p - 1] = SP)
  BY <1>2, <1>3 DEF Neat
<1>4. r[p] = s[a + p] /\ (p - 1 > 0 => r[p - 1] = s[a + (p - 1)])
  BY <1>1, <1>3
<1>5. a + p \in (a + 1)..Len(s) /\ (a + p) - 1 = a + (p - 1)
  BY <1>1
<1>6. s[a + p] # DEL /\ (s[a + p] = BS => (a + p) - 1 > a /\ s[(a + p) - 1] = SP)
  BY <1>5 DEF Neat
<1> QED
  BY <1>1, <1>4, <1>5, <1>6

(* Further on, behind a byte that is not the blank of a line end.          *)
LEMMA NeatFrom ==
  ASSUME NEW s \in Seq(InputByte), NEW a \in 0..Len(s), NEW b \in a..Len(s), Neat(s, a),
         b = a \/ s[b] # SP
  PROVE  Neat(s, b)
<1>1. Len(s) \in Nat /\ a \in Nat /\ b \in Nat /\ a <= b /\ b <= Len(s)
  BY LenProperties
<1> SUFFICES ASSUME NEW p \in (b + 1)..Len(s)
             PROVE  s[p] # DEL /\ (s[p] = BS => p - 1 > b /\ s[p - 1] = SP)
  BY DEF Neat
<1>2. p \in (a + 1)..Len(s)
  BY <1>1
<1>3. s[p] # DEL /\ (s[p] = BS => p - 1 > a /\ s[p - 1] = SP)
  BY <1>2 DEF Neat
<1> QED
  BY <1>1, <1>3

(* A byte that is read counts as much as what it becomes.                  *)
LEMMA CopiedCounts ==
  ASSUME NEW b \in ReadByte
  PROVE  /\ Count(Copied(b), 0, Chars) = IF b \in Chars THEN 1 ELSE 0
         /\ b # DEL => Neat(Copied(b), 0)
<1>1. PICK t : t = Copied(b)
  OBVIOUS
<1>2. t \in Seq(InputByte)
  BY <1>1, CopiedIs
<1>3. Count(t, 0, Chars) = Held(t, 1, Len(t), Chars)
  <2>1. 0 \in Nat /\ 0 + 1 = 1
    OBVIOUS
  <2> QED
    BY <1>2, <2>1, CountIs
<1>4. \/ t = <<>> /\ b \notin Chars
      \/ t = <<LF>> /\ b \notin Chars
      \/ t = <<SP, BS, NUL>> /\ b \notin Chars
      \/ t = <<b>> /\ b \in Chars \cup {DEL}
  BY <1>1, CopiedIs
<1>5. /\ LF \notin Chars /\ SP \notin Chars /\ BS \notin Chars /\ NUL \notin Chars /\ DEL \notin Chars
      /\ BS # LF /\ BS # SP /\ BS # NUL /\ BS # DEL /\ SP # DEL /\ NUL # DEL
  BY InputAssumption
<1>6. CASE t = <<>> /\ b \notin Chars
  BY <1>1, <1>6, CountEmpty DEF Neat
<1>7. CASE t = <<LF>> /\ b \notin Chars
  <2>1. \A i \in 1..Len(t) : t[i] \notin Chars
    BY <1>5, <1>7
  <2>2. Neat(t, 0) \/ LF = DEL
    BY <1>5, <1>7 DEF Neat
  <2>3. LF = DEL => b = DEL
    BY <1>1, <1>5, <1>7 DEF Copied
  <2> QED
    BY <1>1, <1>3, <1>7, <2>1, <2>2, <2>3, HeldNone
<1>8. CASE t = <<SP, BS, NUL>> /\ b \notin Chars
  <2>1. Len(t) = 3 /\ t[1] = SP /\ t[2] = BS /\ t[3] = NUL
    BY <1>8
  <2>2. \A i \in 1..Len(t) : t[i] \notin Chars
    BY <1>5, <2>1
  <2>3. Neat(t, 0)
    BY <1>5, <2>1 DEF Neat
  <2> QED
    BY <1>1, <1>3, <1>8, <2>2, <2>3, HeldNone
<1>9. CASE t = <<b>> /\ b \in Chars \cup {DEL}
  <2>1. Len(t) = 1 /\ t[1] = b /\ 1 \in Int
    BY <1>9
  <2>2. Held(t, 1, 1, Chars) = IF t[1] \in Chars THEN 1 ELSE 0
    BY <2>1, HeldOne
  <2>3. b # DEL => Neat(t, 0)
    BY <1>5, <1>9, <2>1 DEF Neat
  <2> QED
    BY <1>1, <1>3, <2>1, <2>2, <2>3
<1> QED
  BY <1>4, <1>6, <1>7, <1>8, <1>9

(* copy_chars() makes at most three bytes of each byte, and keeps every    *)
(* character.                                                              *)
LEMMA CopyCounts ==
  ASSUME NEW read \in Seq(ReadByte)
  PROVE  /\ copy_chars(read) \in Seq(InputByte)
         /\ Len(copy_chars(read)) <= 3 * Len(read)
         /\ Count(copy_chars(read), 0, Chars) = Count(read, 0, Chars)
         /\ ~Contains(read, DEL) => Neat(copy_chars(read), 0)
<1> DEFINE n == Len(read)
<1>1. n \in Nat /\ \A i \in 1..n : read[i] \in ReadByte
  BY LenProperties
<1>2. PICK f : Copying(f, read)
  BY CopyIs
<1>3. \A k \in 0..n : f[k] \in Seq(InputByte) /\ Len(f[k]) <= 3 * k
  BY <1>2, CopyFits
<1> DEFINE S == {k \in Nat : k <= n => /\ Count(f[k], 0, Chars) = Held(read, 1, k, Chars)
                                       /\ ~Contains(read, DEL) => Neat(f[k], 0)}
<1> HIDE DEF n
<1>4. 0 \in S
  <2>1. f[0] = <<>>
    BY <1>2 DEF Copying
  <2>2. Held(read, 1, 0, Chars) = 0
    BY HeldNone
  <2>3. Neat(<<>>, 0)
    BY DEF Neat
  <2> QED
    BY <2>1, <2>2, <2>3, CountEmpty
<1>5. ASSUME NEW k \in Nat, k \in S PROVE k + 1 \in S
  <2> SUFFICES ASSUME k + 1 <= n
               PROVE  /\ Count(f[k + 1], 0, Chars) = Held(read, 1, k + 1, Chars)
                      /\ ~Contains(read, DEL) => Neat(f[k + 1], 0)
    OBVIOUS
  <2>1. /\ Count(f[k], 0, Chars) = Held(read, 1, k, Chars)
        /\ ~Contains(read, DEL) => Neat(f[k], 0)
    BY <1>1, <1>5
  <2>2. k + 1 \in 1..n /\ (k + 1) - 1 = k /\ k \in 0..n
    BY <1>1
  <2>3. PICK b \in ReadByte : b = read[k + 1]
    BY <1>1, <2>2
  <2>4. PICK c : c = Copied(b)
    OBVIOUS
  <2>5. f[k + 1] = f[k] \o c
    BY <1>2, <2>2, <2>3, <2>4 DEF Copying, n
  <2>6. c \in Seq(InputByte) /\ Count(c, 0, Chars) = IF b \in Chars THEN 1 ELSE 0
    BY <2>3, <2>4, CopiedIs, CopiedCounts
  <2>7. f[k] \in Seq(InputByte) /\ 0 \in 0..Len(f[k])
    BY <1>3, <2>2, LenProperties
  <2>8. Count(f[k + 1], 0, Chars) = Count(f[k], 0, Chars) + Count(c, 0, Chars)
    BY <2>5, <2>6, <2>7, CountConcat
  <2>9. Held(read, 1, k + 1, Chars) = Held(read, 1, k, Chars) + Held(read, k + 1, k + 1, Chars)
    BY HeldSplit
  <2>10. Held(read, k + 1, k + 1, Chars) = IF b \in Chars THEN 1 ELSE 0
    BY <2>3, HeldOne
  <2>11. ASSUME ~Contains(read, DEL) PROVE Neat(f[k + 1], 0)
    <3>1. b # DEL
      BY <2>2, <2>3, <2>11 DEF Contains, n
    <3>2. Neat(c, 0)
      BY <2>3, <2>4, <3>1, CopiedCounts
    <3> QED
      BY <2>1, <2>5, <2>6, <2>7, <2>11, <3>2, NeatConcat
  <2> QED
    BY <2>1, <2>6, <2>8, <2>9, <2>10, <2>11
<1> HIDE DEF S
<1>6. n \in S
  BY <1>1, <1>4, <1>5, NatInd
<1>7. Count(read, 0, Chars) = Held(read, 1, n, Chars)
  <2>1. 0 \in Nat /\ 0 + 1 = 1
    OBVIOUS
  <2> QED
    BY <2>1, CountIs DEF n
<1>8. copy_chars(read) = f[n] /\ n \in 0..n
  BY <1>1, <1>2 DEF Copying, n
<1> QED
  BY <1>1, <1>3, <1>6, <1>7, <1>8 DEF S, n
-----------------------------------------------------------------------------
(* telnet_neg() takes the bytes one by one.                                *)
Erasing(f, cmd) ==
  /\ f[0] = <<>> /\ \A i \in 1..Len(cmd) : f[i] = Applied(f[i - 1], cmd[i])
  /\ telnet_neg(cmd) = f[Len(cmd)]

(* What it has after each byte, as one function.                           *)
AppliedTo(f, cmd, n) == f = [i \in 0..n |-> IF i = 0 THEN <<>> ELSE Applied(f[i - 1], cmd[i])]

(* There is such a function.                                               *)
LEMMA AppliedAll ==
  ASSUME NEW cmd, NEW n \in Nat
  PROVE  \E f : AppliedTo(f, cmd, n)
<1> DEFINE S == {k \in Nat : \E f : AppliedTo(f, cmd, k)}
<1>1. 0 \in S
  <2>1. PICK f : f = [i \in 0..0 |-> <<>>]
    OBVIOUS
  <2>2. f = [i \in 0..0 |-> IF i = 0 THEN <<>> ELSE Applied(f[i - 1], cmd[i])]
    BY <2>1
  <2> QED
    BY <2>2 DEF AppliedTo
<1>2. ASSUME NEW k \in Nat, k \in S PROVE k + 1 \in S
  <2>1. PICK f : AppliedTo(f, cmd, k)
    BY <1>2
  <2>2. PICK x : x = Applied(f[k], cmd[k + 1])
    OBVIOUS
  <2>3. PICK h : h = [i \in 0..(k + 1) |-> IF i = k + 1 THEN x ELSE f[i]]
    OBVIOUS
  <2>4. h[k] = f[k] /\ h[k + 1] = x
    BY <2>3
  <2>5. ASSUME NEW i \in 0..(k + 1)
        PROVE  h[i] = IF i = 0 THEN <<>> ELSE Applied(h[i - 1], cmd[i])
    <3>1. CASE i = k + 1
      <4>1. i # 0 /\ i - 1 = k
        BY <3>1
      <4> QED
        BY <2>2, <2>4, <3>1, <4>1
    <3>2. CASE i # k + 1
      <4>1. i \in 0..k /\ (i # 0 => i - 1 \in 0..k /\ i - 1 # k + 1 /\ i - 1 \in 0..(k + 1))
        BY <3>2
      <4>2. h[i] = f[i] /\ (i # 0 => h[i - 1] = f[i - 1])
        BY <2>3, <3>2, <4>1
      <4>3. f[i] = IF i = 0 THEN <<>> ELSE Applied(f[i - 1], cmd[i])
        BY <2>1, <4>1 DEF AppliedTo
      <4> QED
        BY <4>2, <4>3
    <3> QED
      BY <3>1, <3>2
  <2>6. h = [i \in 0..(k + 1) |-> h[i]]
    BY <2>3
  <2>7. h = [i \in 0..(k + 1) |-> IF i = 0 THEN <<>> ELSE Applied(h[i - 1], cmd[i])]
    BY <2>5, <2>6
  <2> QED
    BY <2>7 DEF AppliedTo
<1> HIDE DEF S
<1>3. n \in S
  BY <1>1, <1>2, NatInd
<1> QED
  BY <1>3 DEF S

(* So the function telnet_neg() is defined by exists.                      *)
LEMMA NegIs == ASSUME NEW T, NEW cmd \in Seq(T) PROVE \E f : Erasing(f, cmd)
<1> DEFINE n == Len(cmd)
<1>1. n \in Nat
  BY LenProperties
<1> HIDE DEF n
<1>2. PICK f : f = CHOOSE h : h = [i \in 0..n |-> IF i = 0 THEN <<>> ELSE Applied(h[i - 1], cmd[i])]
  OBVIOUS
<1>3. telnet_neg(cmd) = f[n]
  BY <1>2, Zenon DEF telnet_neg, n
<1>4. f = [i \in 0..n |-> IF i = 0 THEN <<>> ELSE Applied(f[i - 1], cmd[i])]
  <2>1. \E h : h = [i \in 0..n |-> IF i = 0 THEN <<>> ELSE Applied(h[i - 1], cmd[i])]
    BY <1>1, AppliedAll DEF AppliedTo
  <2> QED
    BY <1>2, <2>1, Zenon
<1>5. f[0] = <<>> /\ \A i \in 1..n : f[i] = Applied(f[i - 1], cmd[i])
  <2>1. \A i \in 1..n : i \in 0..n /\ i # 0
    BY <1>1
  <2>2. 0 \in 0..n
    BY <1>1
  <2> QED
    BY <1>4, <2>1, <2>2
<1> QED
  BY <1>3, <1>5 DEF Erasing, n

(* One more byte.                                                          *)
LEMMA CountAppend ==
  ASSUME NEW T, NEW u \in Seq(T), NEW b \in T, NEW C
  PROVE  /\ Append(u, b) \in Seq(T) /\ Append(u, b) # <<>> /\ Front(Append(u, b)) = u
         /\ Count(Append(u, b), 0, C) = Count(u, 0, C) + (IF b \in C THEN 1 ELSE 0)
<1>1. /\ Append(u, b) \in Seq(T) /\ Len(Append(u, b)) = Len(u) + 1 /\ Len(u) \in Nat
      /\ \A i \in 1 .. Len(u) : Append(u, b)[i] = u[i]
      /\ Append(u, b)[Len(u) + 1] = b
  BY AppendProperties, LenProperties
<1>2. PICK q \in Seq(T), n \in Nat : q = Append(u, b) /\ n = Len(u)
  BY <1>1
<1>3. Front(q) = u
  <2>1. n \in 0..Len(q) /\ 0 \in 0..Len(q) /\ n \in 0..Len(q)
    BY <1>1, <1>2
  <2>2. /\ SubSeq(q, 0 + 1, n) \in Seq(T) /\ Len(SubSeq(q, 0 + 1, n)) = n - 0
        /\ \A i \in 1..(n - 0) : SubSeq(q, 0 + 1, n)[i] = q[0 + i]
    BY <2>1, <1>2, CountPart
  <2>3. Front(q) = SubSeq(q, 0 + 1, n)
    BY <1>1, <1>2 DEF Front
  <2>4. Front(q) \in Seq(T) /\ Len(Front(q)) = Len(u) /\ \A i \in 1..Len(u) : Front(q)[i] = u[i]
    BY <1>1, <1>2, <2>2, <2>3
  <2> QED
    BY <2>4, SeqEqual
<1>4. 0 \in Nat /\ 0 + 1 = 1 /\ 1 \in Int /\ n \in Int /\ n + 1 \in Int /\ 1 <= n + 1 /\ n <= n + 1
  BY <1>2
<1>5. Count(q, 0, C) = Held(q, 1, n + 1, C) /\ Count(u, 0, C) = Held(u, 1, n, C)
  BY <1>1, <1>2, <1>4, CountIs
<1>6. Held(q, 1, n + 1, C) = Held(q, 1, n, C) + Held(q, n + 1, n + 1, C)
  BY <1>4, HeldSplit
<1>7. Held(q, n + 1, n + 1, C) = IF b \in C THEN 1 ELSE 0
  <2>1. q[n + 1] = b
    BY <1>1, <1>2
  <2>2. Held(q, n + 1, n + 1, C) = IF q[n + 1] \in C THEN 1 ELSE 0
    BY <1>4, HeldOne, Zenon
  <2> QED
    BY <2>1, <2>2
<1>8. Held(q, 1, n, C) = Held(u, 1, n, C)
  <2>1. \A i \in 1..n : q[i] = u[i]
    BY <1>1, <1>2
  <2> QED
    BY <1>4, <2>1, HeldSame
<1>9. q # <<>>
  BY <1>1, <1>2, EmptySeq
<1> QED
  BY <1>1, <1>2, <1>3, <1>5, <1>6, <1>7, <1>8, <1>9

(* telnet_neg() takes no character away where nothing was erased.          *)
LEMMA NegCounts ==
  ASSUME NEW cmd \in Seq(InputByte)
  PROVE  /\ telnet_neg(cmd) \in Seq(InputByte)
         /\ Neat(cmd, 0) => Count(telnet_neg(cmd), 0, Chars) = Count(cmd, 0, Chars)
<1> DEFINE n == Len(cmd)
<1>1. n \in Nat /\ \A i \in 1..n : cmd[i] \in InputByte
  BY LenProperties
<1>2. PICK f : Erasing(f, cmd)
  BY NegIs
<1> DEFINE S == {k \in Nat : k <= n =>
                   /\ f[k] \in Seq(InputByte)
                   /\ Neat(cmd, 0) =>
                        /\ Count(f[k], 0, Chars) = Held(cmd, 1, k, Chars)
                        /\ k > 0 /\ cmd[k] = SP => \E u \in Seq(InputByte) : f[k] = Append(u, SP)}
<1> HIDE DEF n
<1>3. 0 \in S
  <2>1. f[0] = <<>> /\ <<>> \in Seq(InputByte)
    BY <1>2, EmptySeq DEF Erasing
  <2>2. Held(cmd, 1, 0, Chars) = 0
    BY HeldNone
  <2>3. Count(f[0], 0, Chars) = Held(cmd, 1, 0, Chars)
    BY <2>1, <2>2, CountEmpty
  <2>4. f[0] \in Seq(InputByte) /\ 0 \in Nat /\ ~(0 > 0)
    BY <2>1
  <2> QED
    BY <2>3, <2>4
<1>4. ASSUME NEW k \in Nat, k \in S PROVE k + 1 \in S
  <2> SUFFICES ASSUME k + 1 <= n
               PROVE  /\ f[k + 1] \in Seq(InputByte)
                      /\ Neat(cmd, 0) =>
                           /\ Count(f[k + 1], 0, Chars) = Held(cmd, 1, k + 1, Chars)
                           /\ cmd[k + 1] = SP => \E u \in Seq(InputByte) : f[k + 1] = Append(u, SP)
    OBVIOUS
  <2>1. /\ f[k] \in Seq(InputByte)
        /\ Neat(cmd, 0) =>
             /\ Count(f[k], 0, Chars) = Held(cmd, 1, k, Chars)
             /\ k > 0 /\ cmd[k] = SP => \E u \in Seq(InputByte) : f[k] = Append(u, SP)
    BY <1>1, <1>4
  <2>2. k + 1 \in 1..n /\ (k + 1) - 1 = k
    BY <1>1
  <2>3. PICK b \in InputByte : b = cmd[k + 1]
    BY <1>1, <2>2
  <2>4. f[k + 1] = Applied(f[k], b)
    BY <1>2, <2>2, <2>3 DEF Erasing, n
  <2>5. /\ Held(cmd, 1, k + 1, Chars) = Held(cmd, 1, k, Chars) + Held(cmd, k + 1, k + 1, Chars)
        /\ Held(cmd, k + 1, k + 1, Chars) = IF b \in Chars THEN 1 ELSE 0
    <3>1. Held(cmd, k + 1, k + 1, Chars) = IF b \in Chars THEN 1 ELSE 0
      BY <2>3, HeldOne
    <3>2. Held(cmd, 1, k + 1, Chars) = Held(cmd, 1, k, Chars) + Held(cmd, k + 1, k + 1, Chars)
      BY HeldSplit
    <3> QED
      BY <3>1, <3>2
  <2>6. Held(cmd, 1, k, Chars) \in Nat
    <3>1. 1 \in Int /\ k \in Int
      OBVIOUS
    <3> QED
      BY <3>1, HeldFinite, Zenon
  <2>7. CASE b \notin {BS, DEL}
    <3>1. f[k + 1] = Append(f[k], b)
      BY <2>4, <2>7 DEF Applied
    <3>2. /\ f[k + 1] \in Seq(InputByte)
          /\ Count(f[k + 1], 0, Chars) = Count(f[k], 0, Chars) + (IF b \in Chars THEN 1 ELSE 0)
      BY <2>1, <3>1, CountAppend
    <3> QED
      BY <2>1, <2>3, <2>5, <3>1, <3>2
  <2>8. CASE b \in {BS, DEL}
    <3>1. f[k + 1] \in Seq(InputByte)
      <4>1. CASE f[k] = <<>>
        BY <2>1, <2>4, <2>8, <4>1 DEF Applied
      <4>2. CASE f[k] # <<>>
        <5>1. f[k + 1] = SubSeq(f[k], 0 + 1, Len(f[k]) - 1)
          BY <2>4, <2>8, <4>2 DEF Applied, Front
        <5>2. 0 \in 0..Len(f[k]) /\ Len(f[k]) - 1 \in 0..Len(f[k])
          BY <2>1, <4>2, LenProperties, EmptySeq
        <5> QED
          BY <2>1, <5>1, <5>2, CountPart
      <4> QED
        BY <4>1, <4>2
    <3>2. ASSUME Neat(cmd, 0)
          PROVE  /\ Count(f[k + 1], 0, Chars) = Held(cmd, 1, k + 1, Chars)
                 /\ cmd[k + 1] # SP
      <4>1. b = BS /\ k > 0 /\ cmd[k] = SP
        <5>1. k + 1 \in (0 + 1)..Len(cmd)
          BY <1>1, <2>2 DEF n
        <5>2. b # DEL /\ (b = BS => (k + 1) - 1 > 0 /\ cmd[(k + 1) - 1] = SP)
          BY <3>2, <5>1, <2>3 DEF Neat
        <5> QED
          BY <2>2, <2>8, <5>2
      <4>2. PICK u \in Seq(InputByte) : f[k] = Append(u, SP)
        BY <2>1, <3>2, <4>1
      <4>3. SP \in InputByte /\ SP \notin Chars /\ BS \notin Chars /\ SP # BS
        BY InputAssumption DEF InputByte
      <4>4. /\ Append(u, SP) # <<>> /\ Front(Append(u, SP)) = u
            /\ Count(Append(u, SP), 0, Chars) = Count(u, 0, Chars) + (IF SP \in Chars THEN 1 ELSE 0)
        BY <4>3, CountAppend
      <4>5. f[k + 1] = u
        BY <2>4, <2>8, <4>2, <4>4 DEF Applied
      <4>6. Count(u, 0, Chars) \in Nat
        BY CountIs
      <4> QED
        BY <2>1, <2>3, <2>5, <2>6, <3>2, <4>1, <4>2, <4>3, <4>4, <4>5, <4>6
    <3> QED
      BY <2>3, <3>1, <3>2
  <2> QED
    BY <2>7, <2>8
<1> HIDE DEF S
<1>5. n \in S
  BY <1>1, <1>3, <1>4, NatInd
<1>6. Count(cmd, 0, Chars) = Held(cmd, 1, n, Chars)
  <2>1. 0 \in Nat /\ 0 + 1 = 1
    OBVIOUS
  <2> QED
    BY <2>1, CountIs DEF n
<1>7. telnet_neg(cmd) = f[n]
  BY <1>2 DEF Erasing, n
<1> QED
  BY <1>1, <1>5, <1>6, <1>7 DEF S
-----------------------------------------------------------------------------
(* FlattenSeq() joins the commands one after the other.                    *)
Flattening(f, cs) ==
  /\ f[1] = cs[1] /\ \A i \in 2..Len(cs) : f[i] = f[i - 1] \o cs[i]
  /\ FlattenSeq(cs) = f[Len(cs)]

(* So the function FlattenSeq() is defined by exists.                      *)
LEMMA FlatIs ==
  ASSUME NEW T, NEW cs \in Seq(Seq(T)), Len(cs) > 0
  PROVE  \E f : Flattening(f, cs)
<1> DEFINE n == Len(cs)
<1>1. n \in Nat /\ \A i \in 1..n : cs[i] \in Seq(T)
  BY LenProperties
<1>2. PICK g : g = cs
  OBVIOUS
<1>3. PICK h : h = [i \in 0..n |-> IF i = 0 THEN <<>> ELSE h[i - 1] \o g[i]]
  <2> HIDE DEF n
  <2> QED
    BY <1>1, Joined DEF Joining
<1> HIDE DEF n
<1>4. \A i \in 1..n : h[i] = h[i - 1] \o cs[i]
  <2>1. \A i \in 1..n : i \in 0..n /\ i # 0
    BY <1>1
  <2> QED
    BY <1>2, <1>3, <2>1
<1>5. PICK e : e = [i \in 1..n |-> h[i]]
  OBVIOUS
<1>6. e = [i \in 1..n |-> IF i = 1 THEN cs[i] ELSE e[i - 1] \o cs[i]]
  <2>1. ASSUME NEW i \in 1..n PROVE e[i] = IF i = 1 THEN cs[i] ELSE e[i - 1] \o cs[i]
    <3>1. CASE i = 1
      <4>1. h[0] = <<>>
        BY <1>1, <1>3
      <4>2. h[1] = <<>> \o cs[1]
        <5>1. 1 \in 1..n /\ 1 - 1 = 0
          BY <3>1
        <5> QED
          BY <1>4, <4>1, <5>1
      <4>3. <<>> \o cs[1] = cs[1]
        BY <1>1, <3>1, ConcatEmptySeq
      <4> QED
        BY <1>5, <3>1, <4>2, <4>3
    <3>2. CASE i # 1
      <4>1. i - 1 \in 1..n
        BY <1>1, <3>2
      <4> QED
        BY <1>4, <1>5, <3>2, <4>1
    <3> QED
      BY <3>1, <3>2
  <2>2. e = [i \in 1..n |-> e[i]]
    BY <1>5
  <2> QED
    BY <2>1, <2>2
<1>7. PICK f : f = CHOOSE d : d = [i \in 1..n |-> IF i = 1 THEN cs[i] ELSE d[i - 1] \o cs[i]]
  OBVIOUS
<1>8. f = [i \in 1..n |-> IF i = 1 THEN cs[i] ELSE f[i - 1] \o cs[i]]
  BY <1>6, <1>7, Zenon
<1>9. FlattenSeq(cs) = f[n]
  <2>1. Len(cs) # 0
    BY <1>1 DEF n
  <2> QED
    BY <1>7, <2>1, Zenon DEF FlattenSeq, n
<1>10. f[1] = cs[1] /\ \A i \in 2..n : f[i] = f[i - 1] \o cs[i]
  <2>1. 1 \in 1..n /\ \A i \in 2..n : i \in 1..n /\ i # 1
    BY <1>1 DEF n
  <2> QED
    BY <1>8, <2>1
<1> QED
  BY <1>9, <1>10 DEF Flattening, n

(* One more command, joined.                                               *)
LEMMA FlatAppend ==
  ASSUME NEW T, NEW cs \in Seq(Seq(T)), NEW c \in Seq(T)
  PROVE  /\ FlattenSeq(cs) \in Seq(T)
         /\ FlattenSeq(Append(cs, c)) = FlattenSeq(cs) \o c
<1>1. PICK ds \in Seq(Seq(T)) : ds = Append(cs, c)
  BY AppendProperties
<1>2. PICK n \in Nat : n = Len(cs)
  BY LenProperties
<1>3. /\ Len(ds) = n + 1 /\ ds[n + 1] = c
      /\ \A i \in 1..n : ds[i] = cs[i] /\ cs[i] \in Seq(T)
  BY <1>1, <1>2, AppendProperties, LenProperties
<1>4. PICK e : Flattening(e, ds)
  <2>1. Len(ds) > 0
    BY <1>2, <1>3
  <2> QED
    BY <1>1, <2>1, FlatIs
<1>5. e[1] = ds[1] /\ (\A i \in 2..(n + 1) : e[i] = e[i - 1] \o ds[i]) /\ FlattenSeq(ds) = e[n + 1]
  BY <1>3, <1>4 DEF Flattening
<1>6. CASE n = 0
  <2>1. cs = <<>>
    BY <1>2, <1>6, EmptySeq
  <2>2. FlattenSeq(cs) = <<>>
    BY <1>2, <1>6, <2>1 DEF FlattenSeq
  <2>3. FlattenSeq(ds) = c
    BY <1>3, <1>5, <1>6
  <2>4. <<>> \o c = c /\ <<>> \in Seq(T)
    BY ConcatEmptySeq, EmptySeq
  <2> QED
    BY <1>1, <2>2, <2>3, <2>4
<1>7. CASE n # 0
  <2>1. PICK f : Flattening(f, cs)
    <3>1. Len(cs) > 0
      BY <1>2, <1>7
    <3> QED
      BY <3>1, FlatIs
  <2>2. f[1] = cs[1] /\ (\A i \in 2..n : f[i] = f[i - 1] \o cs[i]) /\ FlattenSeq(cs) = f[n]
    BY <1>2, <2>1 DEF Flattening
  <2> DEFINE S == {k \in Nat : k >= 1 /\ k <= n => e[k] = f[k] /\ f[k] \in Seq(T)}
  <2>3. 0 \in S
    OBVIOUS
  <2>4. ASSUME NEW k \in Nat, k \in S PROVE k + 1 \in S
    <3> SUFFICES ASSUME k + 1 <= n PROVE e[k + 1] = f[k + 1] /\ f[k + 1] \in Seq(T)
      OBVIOUS
    <3>1. CASE k = 0
      <4>1. 1 \in 1..n
        BY <1>2, <1>7
      <4> QED
        BY <1>3, <1>5, <2>2, <3>1, <4>1
    <3>2. CASE k # 0
      <4>1. k + 1 \in 2..n /\ k + 1 \in 2..(n + 1) /\ k + 1 \in 1..n /\ (k + 1) - 1 = k
        BY <1>2, <3>2
      <4>2. e[k] = f[k] /\ f[k] \in Seq(T)
        BY <1>2, <2>4, <3>2
      <4>3. ds[k + 1] = cs[k + 1] /\ cs[k + 1] \in Seq(T)
        BY <1>3, <4>1
      <4>4. e[k + 1] = e[k] \o ds[k + 1] /\ f[k + 1] = f[k] \o cs[k + 1]
        BY <1>5, <2>2, <4>1
      <4> QED
        BY <4>2, <4>3, <4>4, ConcatProperties
    <3> QED
      BY <3>1, <3>2
  <2> HIDE DEF S
  <2>5. n \in S
    BY <1>2, <2>3, <2>4, NatInd
  <2>6. e[n] = f[n] /\ f[n] \in Seq(T)
    BY <1>2, <1>7, <2>5 DEF S
  <2>7. n + 1 \in 2..(n + 1) /\ (n + 1) - 1 = n
    BY <1>2, <1>7
  <2>8. e[n + 1] = e[n] \o ds[n + 1]
    BY <1>5, <2>7
  <2> QED
    BY <1>1, <1>3, <1>5, <2>2, <2>6, <2>8
<1> QED
  BY <1>6, <1>7
-----------------------------------------------------------------------------
(* A session in which characters can be counted.                           *)
Countable == connection_type = "telnet" /\ \A read \in session.reads : ~Contains(read, DEL)

(* The inductive invariant.                                                *)
Handed == Count(FlattenSeq(commands), 0, Chars)
Waiting == Count(text, text_start, Chars)

(* Without a complete command the flag is only left from a get_char() that *)
(* was served: the buffer begins behind what it took.                      *)
Full == CMD_IN_BUF /\ ~SINGLE_CHAR => EndsOf(text, text_start) # {} \/ text_start >= 1

(* On an ascii port nothing arrives in text[]; in line mode single         *)
(* characters are never asked for; the rest is what the theorems say.      *)
InputInv ==
  /\ InputSound
  /\ connection_type = "ascii" => text = <<>> /\ ~CMD_IN_BUF
  /\ LineMode => ~SINGLE_CHAR
  /\ Full
  /\ commands \in Seq(Seq(InputByte))
  /\ kept >= Waiting
  /\ Countable => Neat(text, text_start) /\ kept = Handed + Waiting

(* What get_user_command() takes out: a command up to its NUL.             *)
Taking(t, start, j, c, next) ==
  /\ j = FirstNul(t, start + 1) /\ c = SubSeq(t, start + 1, j - 1)
  /\ next = next_cmd_in_buf(t, start)

(* Taking a command out: the characters in it and those left in the buffer *)
(* are all that were there.                                                *)
LEMMA CommandTaken ==
  ASSUME NEW t \in Seq(InputByte), NEW start \in 0..Len(t),
         NEW j, NEW c, NEW next, Taking(t, start, j, c, next)
  PROVE  /\ telnet_neg(c) \in Seq(InputByte)
         /\ next.text \in Seq(InputByte) /\ next.start \in 0..Len(next.text)
         /\ Len(next.text) <= Len(t)
         /\ next.text = <<>> \/ (next.text = t /\ next.start >= 1)
         /\ Count(t, start, Chars) >= Count(next.text, next.start, Chars)
         /\ Neat(t, start) =>
              /\ Neat(next.text, next.start)
              /\ Count(t, start, Chars)
                   = Count(telnet_neg(c), 0, Chars) + Count(next.text, next.start, Chars)
<1>1. Len(t) \in Nat /\ start \in Nat /\ start <= Len(t) /\ start + 1 \in 1..(Len(t) + 1)
  BY LenProperties
<1>2. /\ j \in (start + 1)..(Len(t) + 1) /\ (j <= Len(t) => t[j] = NUL)
      /\ \A k \in (start + 1)..(j - 1) : t[k] # NUL
  BY <1>1, FirstNulIs DEF Taking
<1>3. j \in 1..(Len(t) + 1) /\ j - 1 \in start..Len(t) /\ j - 1 \in Nat /\ j \in Nat
  BY <1>1, <1>2
<1>4. PICK i : /\ i = SkipNuls(t, j)
               /\ i \in j..(Len(t) + 1) /\ (i <= Len(t) => t[i] # NUL)
               /\ \A k \in j..(i - 1) : t[k] = NUL
  BY <1>3, SkipNulsIs
<1>5. next = IF i <= Len(t) THEN [text |-> t, start |-> i - 1] ELSE [text |-> <<>>, start |-> 0]
  BY <1>4 DEF next_cmd_in_buf, Taking
<1>6. PICK p \in start..Len(t) : p = j - 1
  BY <1>3
<1>7. c = SubSeq(t, start + 1, p)
  BY <1>6 DEF Taking
<1>9. c \in Seq(InputByte) /\ Count(t, start, Chars) = Count(c, 0, Chars) + Count(t, p, Chars)
  BY <1>6, <1>7, CountPart
<1>10. /\ telnet_neg(c) \in Seq(InputByte)
       /\ Neat(c, 0) => Count(telnet_neg(c), 0, Chars) = Count(c, 0, Chars)
  BY <1>9, NegCounts
<1>11. Neat(t, start) => Neat(c, 0)
  BY <1>7, NeatPart
<1>12. NUL \notin Chars /\ NUL # SP
  BY InputAssumption
<1>13. Count(c, 0, Chars) \in Nat /\ Count(t, p, Chars) \in Nat
  BY <1>1, <1>6, <1>9, CountIs
<1>14. CASE i <= Len(t)
  <2>1. PICK q \in p..Len(t) : q = i - 1
    BY <1>1, <1>3, <1>4, <1>6, <1>14
  <2>2. next.text = t /\ next.start = q
    BY <1>5, <1>14, <2>1
  <2>3. i # j => t[j] = NUL
    BY <1>3, <1>4
  <2>4. j <= Len(t) /\ i # j /\ q >= 1 /\ q \in 0..Len(t)
    BY <1>1, <1>2, <1>3, <1>4, <1>14, <2>1
  <2>5. \A k \in (p + 1)..q : t[k] \notin Chars
    BY <1>3, <1>4, <1>6, <1>12, <2>1
  <2>6. p \in 0..Len(t)
    BY <1>1, <1>6
  <2>7. Count(t, p, Chars) = Count(t, q, Chars)
    BY <2>1, <2>5, <2>6, CountSkip
  <2>8. t[q] = NUL
    BY <1>3, <1>4, <2>1, <2>4
  <2>9. Neat(t, start) => Neat(t, q)
    <3>1. q \in start..Len(t)
      BY <1>1, <1>6, <2>1
    <3> QED
      BY <1>12, <2>8, <3>1, NeatFrom
  <2> QED
    BY <1>9, <1>10, <1>11, <1>13, <2>2, <2>4, <2>7, <2>9
<1>15. CASE ~(i <= Len(t))
  <2>1. next.text = <<>> /\ next.start = 0
    BY <1>5, <1>15
  <2>2. PICK q \in p..Len(t) : q = Len(t)
    BY <1>1, <1>6
  <2>3. \A k \in (p + 1)..q : t[k] \notin Chars
    BY <1>1, <1>3, <1>4, <1>6, <1>12, <1>15, <2>2
  <2>4. p \in 0..Len(t)
    BY <1>1, <1>6
  <2>5. Count(t, p, Chars) = Count(t, q, Chars)
    BY <2>2, <2>3, <2>4, CountSkip
  <2>6. Count(t, q, Chars) = 0
    <3>1. Count(t, q, Chars) = Held(t, q + 1, Len(t), Chars)
      BY <1>1, <2>2, CountIs
    <3>2. \A k \in (q + 1)..Len(t) : t[k] \notin Chars
      BY <1>1, <2>2
    <3> QED
      BY <3>1, <3>2, HeldNone
  <2>7. Neat(<<>>, 0) /\ <<>> \in Seq(InputByte) /\ Len(<<>>) = 0 /\ 0 \in 0..0
    BY EmptySeq DEF Neat
  <2> QED
    BY <1>1, <1>9, <1>10, <1>11, <1>13, <2>1, <2>5, <2>6, <2>7, CountEmpty
<1> QED
  BY <1>14, <1>15
-----------------------------------------------------------------------------
(* Ends in these terms.                                                    *)
LEMMA EndsAre == Ends = EndsOf(text, text_start)
BY DEF Ends, EndsOf, text_end

(* The buffer, typed.                                                      *)
LEMMA BufferIs ==
  ASSUME InBounds
  PROVE  /\ text \in Seq(InputByte) /\ Len(text) \in Nat /\ Len(text) <= MAX_TEXT - 1
         /\ text_start \in 0..Len(text) /\ text_start \in Nat /\ MAX_TEXT \in Nat
         /\ text_start + 1 \in 1..(Len(text) + 1) /\ text_end = Len(text)
BY InputAssumption, LenProperties DEF InBounds, text_end

(* Room is made without a blank and its backspace coming apart.            *)
LEMMA RoomNeat ==
  ASSUME InBounds, Neat(text, text_start)
  PROVE  Neat(Room.text, Room.start)
<1> DEFINE moved == SubSeq(text, text_start + 1, text_end)
<1>1. PICK a, b, c : /\ a = [text |-> text, start |-> text_start, space |-> Space(text_end)]
                     /\ b = [text |-> moved, start |-> 0, space |-> Space(Len(moved))]
                     /\ c = [text |-> <<>>, start |-> 0, space |-> MAX_TEXT \div 3]
  OBVIOUS
<1>2. Room \in {a, b, c}
  BY <1>1 DEF Room
<1>3. Neat(moved, 0)
  <2>1. Len(text) \in text_start..Len(text)
    BY BufferIs
  <2> QED
    BY <2>1, BufferIs, NeatPart
<1>4. Neat(<<>>, 0)
  BY DEF Neat
<1> HIDE DEF moved
<1> QED
  BY <1>1, <1>2, <1>3, <1>4

(* The history variables after a read.                                     *)
LEMMA SeenIs ==
  ASSUME InBounds, NEW read \in Seq(ReadByte), NEW room, Seen(read, room),
         Count(room.text, room.start, Chars) \in Nat
  PROVE  /\ bytes' \in Nat /\ kept' \in Int /\ Waiting \in Nat /\ Count(read, 0, Chars) \in Nat
         /\ kept' = kept + Count(read, 0, Chars) + Count(room.text, room.start, Chars) - Waiting
<1>1. Len(read) \in Nat /\ Count(read, 0, Chars) \in Nat /\ Waiting \in Nat
  BY BufferIs, CountIs, LenProperties DEF Waiting
<1> QED
  BY <1>1 DEF Seen, InBounds, Waiting

(* A read on a telnet port.                                                *)
LEMMA ReadOk ==
  ASSUME InputInv, NEW read \in session.reads, get_user_data(read)
  PROVE  InputInv'
<1>1. InBounds /\ session \in Sessions /\ session' = session /\ SINGLE_CHAR' = SINGLE_CHAR
      /\ commands' = commands
  BY DEF InputInv, InputSound, InBounds, get_user_data
<1>2. read \in Seq(ReadByte)
  BY <1>1, SessionFacts
<1>3. PICK room, x, start, c : /\ room = Room /\ x = room.text /\ start = room.start
                               /\ c = copy_chars(read)
  OBVIOUS
<1>4. /\ x \in Seq(InputByte) /\ start \in 0..Len(x)
      /\ room.space \in Int /\ Len(x) + 3 * room.space <= MAX_TEXT - 1
  BY <1>1, <1>3, RoomFits
<1>5. /\ c \in Seq(InputByte) /\ Len(c) <= 3 * Len(read)
      /\ Count(c, 0, Chars) = Count(read, 0, Chars)
      /\ ~Contains(read, DEL) => Neat(c, 0)
  BY <1>2, <1>3, CopyCounts
<1>6. /\ text' = x \o c /\ text_start' = start /\ ~CMD_IN_BUF /\ Len(read) \in 1..room.space
      /\ Seen(read, room) /\ connection_type = "telnet"
      /\ \/ CMD_IN_BUF' = cmd_in_buf(text', text_start')
         \/ session.snoopErrors /\ CMD_IN_BUF' = CMD_IN_BUF
  BY <1>3 DEF get_user_data
<1>7. /\ text' \in Seq(InputByte) /\ Len(text') = Len(x) + Len(c) /\ Len(x) \in Nat /\ Len(c) \in Nat
  BY <1>4, <1>5, <1>6, ConcatProperties, LenProperties
<1>8. Len(text') <= MAX_TEXT - 1 /\ text_start' \in 0..Len(text')
  <2>1. Len(read) \in Int /\ Len(read) <= room.space
    BY <1>4, <1>6
  <2>2. Len(x) + 3 * room.space <= MAX_TEXT - 1 /\ MAX_TEXT \in Nat /\ room.space \in Int
    BY <1>1, <1>4, BufferIs
  <2>3. 3 * Len(read) <= 3 * room.space
    BY <2>1, <2>2
  <2>4. Len(text') <= MAX_TEXT - 1
    BY <1>5, <1>7, <2>1, <2>2, <2>3
  <2> QED
    BY <1>4, <1>6, <1>7, <2>4
<1>9. Waiting' = Count(x, start, Chars) + Count(c, 0, Chars) /\ Count(x, start, Chars) \in Nat
  <2>1. start \in Nat /\ Count(x, start, Chars) \in Nat
    BY <1>4, <1>7, CountIs
  <2> QED
    BY <1>4, <1>5, <1>6, <2>1, CountConcat DEF Waiting
<1>10. /\ bytes' \in Nat /\ kept' \in Int /\ Waiting \in Nat /\ Count(read, 0, Chars) \in Nat
       /\ kept' = kept + Count(read, 0, Chars) + Count(x, start, Chars) - Waiting
  BY <1>1, <1>2, <1>3, <1>6, <1>9, SeenIs
<1>11. kept \in Nat /\ kept >= Waiting
  BY DEF InputInv, InputSound, InBounds
<1>12. kept' - Waiting' = kept - Waiting /\ kept' >= Waiting' /\ kept' \in Nat
  BY <1>5, <1>9, <1>10, <1>11
<1>13. Ends' = EndsOf(text', text_start')
  BY DEF Ends, EndsOf, text_end
<1>14. ASSUME ~SINGLE_CHAR PROVE cmd_in_buf(text', text_start') <=> EndsOf(text', text_start') # {}
  BY <1>7, <1>8, <1>14, CommandFound
<1>15. CMD_IN_BUF' \in BOOLEAN
  <2>1. cmd_in_buf(text', text_start') \in BOOLEAN
    BY Zenon DEF cmd_in_buf
  <2>2. CMD_IN_BUF \in BOOLEAN
    BY <1>1 DEF InBounds
  <2> QED
    BY <1>6, <2>1, <2>2, Zenon
<1>16. InBounds'
  BY <1>1, <1>6, <1>7, <1>8, <1>10, <1>12, <1>15 DEF InBounds, text_end
<1>17. FlagMeansCommand' /\ (LineMode => ~SINGLE_CHAR)'
  <2>1. LineMode' => LineMode
    BY <1>1 DEF LineMode
  <2>2. ASSUME LineMode PROVE ~SINGLE_CHAR /\ CMD_IN_BUF' = cmd_in_buf(text', text_start')
    BY <1>6, <2>2 DEF InputInv, LineMode
  <2> QED
    BY <1>1, <1>13, <1>14, <2>1, <2>2 DEF FlagMeansCommand
<1>18. Full'
  BY <1>1, <1>6, <1>14 DEF Full
<1>19. (Countable => Neat(text, text_start) /\ kept = Handed + Waiting)'
  <2> SUFFICES ASSUME Countable' PROVE Neat(text', text_start') /\ kept' = Handed' + Waiting'
    OBVIOUS
  <2>1. Countable
    BY <1>1 DEF Countable, connection_type
  <2>2. Neat(text, text_start) /\ kept = Handed + Waiting
    BY <2>1 DEF InputInv
  <2>3. Neat(x, start) /\ Neat(c, 0)
    BY <1>1, <1>3, <1>5, <2>1, <2>2, RoomNeat DEF Countable
  <2>4. Neat(text', text_start')
    BY <1>4, <1>5, <1>6, <2>3, NeatConcat
  <2>5. Handed' = Handed
    BY <1>1 DEF Handed
  <2>6. Handed = kept - Waiting
    <3>1. Handed \in Int
      <4>1. FlattenSeq(commands) \in Seq(InputByte)
        BY FlatAppend, EmptySeq DEF InputInv
      <4> QED
        BY <4>1, CountIs DEF Handed
    <3> QED
      BY <1>10, <1>11, <2>2, <3>1
  <2>7. Waiting' \in Int
    BY <1>5, <1>9, <1>10
  <2> QED
    BY <1>12, <2>4, <2>5, <2>6, <2>7, <1>10, <1>11
<1>20. (connection_type = "ascii" => text = <<>> /\ ~CMD_IN_BUF)'
  BY <1>1, <1>6 DEF connection_type
<1>21. (commands \in Seq(Seq(InputByte)))' /\ (kept >= Waiting)'
  <2>1. InputByte' = InputByte
    BY DEF InputByte
  <2>2. commands \in Seq(Seq(InputByte))
    BY DEF InputInv
  <2> QED
    BY <1>1, <1>12, <2>1, <2>2
<1> QED
  BY <1>16, <1>17, <1>18, <1>19, <1>20, <1>21 DEF InputInv, InputSound

(* get_char().                                                             *)
LEMMA CharOk == ASSUME InputInv, get_char PROVE InputInv'
<1>1. /\ session' = session /\ text' = text /\ text_start' = text_start /\ CMD_IN_BUF' = CMD_IN_BUF
      /\ commands' = commands /\ kept' = kept /\ bytes' = bytes /\ SINGLE_CHAR' = TRUE
      /\ session.getChars
  BY DEF get_char, history
<1>2. InBounds'
  BY <1>1 DEF InputInv, InputSound, InBounds, text_end, InputByte
<1>3. ~LineMode'
  BY <1>1 DEF LineMode
<1>4. Waiting' = Waiting /\ Handed' = Handed /\ (Countable' <=> Countable)
  BY <1>1 DEF Waiting, Handed, Countable, connection_type
<1>5. Full'
  BY <1>1 DEF Full
<1>6. (connection_type = "ascii" => text = <<>> /\ ~CMD_IN_BUF)'
  BY <1>1 DEF InputInv, connection_type
<1>7. (commands \in Seq(Seq(InputByte)))' /\ (kept >= Waiting)'
  BY <1>1, <1>4 DEF InputInv, InputByte
<1>8. (Countable => Neat(text, text_start) /\ kept = Handed + Waiting)'
  BY <1>1, <1>4 DEF InputInv
<1> QED
  BY <1>2, <1>3, <1>5, <1>6, <1>7, <1>8 DEF InputInv, InputSound, FlagMeansCommand

(* On an ascii port no line is found.                                      *)
LEMMA AsciiOk ==
  ASSUME InputInv, NEW read \in session.reads, get_ascii_data(read)
  PROVE  InputInv'
<1>1. /\ InBounds /\ session \in Sessions /\ session' = session /\ SINGLE_CHAR' = SINGLE_CHAR
      /\ CMD_IN_BUF' = CMD_IN_BUF /\ connection_type = "ascii"
  BY DEF InputInv, InputSound, InBounds, get_ascii_data
<1>2. read \in Seq(ReadByte)
  BY <1>1, SessionFacts
<1>3. text = <<>> /\ ~CMD_IN_BUF /\ text_end = 0 /\ text_start = 0
  <2>1. text = <<>> /\ ~CMD_IN_BUF
    BY <1>1 DEF InputInv
  <2> QED
    BY <1>1, <2>1, BufferIs DEF text_end
<1>4. AsciiEnds = {} /\ Cardinality(AsciiEnds) = 0
  BY <1>3, FS_EmptySet DEF AsciiEnds
<1>5. text' = text /\ text_start' = text_start
  BY <1>4, <1>3 DEF get_ascii_data
<1>6. commands' = commands
  <2>1. PICK g : /\ g = [i \in 1..0 |-> SubSeq(text, 1 + (IF i = 1 THEN text_start ELSE Nth(AsciiEnds, i - 1)),
                                               Nth(AsciiEnds, i) - 1)]
                 /\ commands' = commands \o g
    BY <1>4 DEF get_ascii_data
  <2>2. g = <<>>
    BY <2>1
  <2>3. commands \in Seq(Seq(InputByte))
    BY DEF InputInv
  <2> QED
    BY <2>1, <2>2, <2>3, ConcatEmptySeq
<1>7. PICK room : room = [text |-> text, start |-> text_start] /\ Seen(read, room)
  BY DEF get_ascii_data
<1>8. Count(room.text, room.start, Chars) = Waiting /\ Waiting \in Nat
  BY <1>1, <1>7, BufferIs, CountIs DEF Waiting
<1>9. /\ bytes' \in Nat /\ kept' \in Int /\ Count(read, 0, Chars) \in Nat
      /\ kept' = kept + Count(read, 0, Chars) + Count(room.text, room.start, Chars) - Waiting
  BY <1>1, <1>2, <1>7, <1>8, SeenIs
<1>10. kept \in Nat /\ kept >= Waiting
  BY DEF InputInv, InputSound, InBounds
<1>11. Waiting' = Waiting
  BY <1>5 DEF Waiting
<1>12. kept' \in Nat /\ kept' >= Waiting'
  BY <1>8, <1>9, <1>10, <1>11
<1>13. InBounds'
  BY <1>1, <1>5, <1>9, <1>12 DEF InBounds, text_end, InputByte
<1>14. ~LineMode' /\ ~Countable'
  BY <1>1 DEF LineMode, Countable, connection_type
<1>15. Full'
  BY <1>1, <1>3 DEF Full
<1>16. (commands \in Seq(Seq(InputByte)))'
  BY <1>6 DEF InputInv, InputByte
<1>17. (connection_type = "ascii" => text = <<>> /\ ~CMD_IN_BUF)'
  BY <1>1, <1>3, <1>5
<1> QED
  BY <1>12, <1>13, <1>14, <1>15, <1>16, <1>17 DEF InputInv, InputSound, FlagMeansCommand

(* first_cmd_in_buf() drops nothing but NULs: a line that fills the whole  *)
(* buffer is never cut there.                                              *)
LEMMA FirstIs ==
  ASSUME InputInv, CMD_IN_BUF, NEW f, f = first_cmd_in_buf
  PROVE  /\ f.text \in Seq(InputByte) /\ f.start \in 0..Len(f.text) /\ Len(f.text) <= MAX_TEXT - 1
         /\ Count(f.text, f.start, Chars) = Waiting
         /\ Neat(text, text_start) => Neat(f.text, f.start)
         /\ LineMode => f.cmd
<1> DEFINE i == SkipNuls(text, text_start + 1)
           moved == SubSeq(text, i, text_end)
<1>1. /\ text \in Seq(InputByte) /\ Len(text) \in Nat /\ Len(text) <= MAX_TEXT - 1
      /\ text_start \in 0..Len(text) /\ text_start \in Nat /\ MAX_TEXT \in Nat
      /\ text_start + 1 \in 1..(Len(text) + 1) /\ text_end = Len(text)
  BY BufferIs DEF InputInv, InputSound
<1>2. /\ i \in (text_start + 1)..(Len(text) + 1) /\ (i <= Len(text) => text[i] # NUL)
      /\ \A k \in (text_start + 1)..(i - 1) : text[k] = NUL
  BY <1>1, SkipNulsIs
<1>3. PICK p \in text_start..Len(text) : p = i - 1
  BY <1>1, <1>2
<1>4. p \in 0..Len(text) /\ i = p + 1 /\ p \in Nat
  BY <1>1, <1>2, <1>3
<1>5. NUL \notin Chars /\ NUL # SP
  BY InputAssumption
<1>6. Waiting = Count(text, p, Chars)
  <2>1. \A k \in (text_start + 1)..p : text[k] \notin Chars
    BY <1>2, <1>3, <1>5
  <2> QED
    BY <1>1, <1>3, <2>1, CountSkip DEF Waiting
<1>7. Neat(text, text_start) => Neat(text, p)
  <2>1. p = text_start \/ text[p] # SP
    BY <1>1, <1>2, <1>3, <1>4, <1>5
  <2> QED
    BY <1>1, <1>3, <2>1, NeatFrom
<1>8. moved \in Seq(InputByte) /\ Len(moved) = Len(text) - p
      /\ Count(moved, 0, Chars) = Count(text, p, Chars)
      /\ (Neat(text, p) => Neat(moved, 0))
  <2>1. PICK q \in p..Len(text) : q = Len(text)
    BY <1>1, <1>3
  <2>2. moved = SubSeq(text, p + 1, q)
    BY <1>1, <1>4, <2>1
  <2> HIDE DEF moved
  <2>3. /\ moved \in Seq(InputByte) /\ Len(moved) = q - p
        /\ Count(text, p, Chars) = Count(moved, 0, Chars) + Count(text, q, Chars)
    <3>1. text \in Seq(InputByte) /\ p \in 0..Len(text) /\ q \in p..Len(text)
      BY <1>1, <1>4, <2>1
    <3> QED
      BY <2>2, <3>1, CountPart, Zenon
  <2>4. Count(text, q, Chars) = 0
    <3>1. Count(text, q, Chars) = Held(text, q + 1, Len(text), Chars)
      BY <1>1, <2>1, CountIs
    <3>2. \A k \in (q + 1)..Len(text) : text[k] \notin Chars
      BY <1>1, <2>1
    <3> QED
      BY <3>1, <3>2, HeldNone
  <2>5. Count(moved, 0, Chars) \in Nat
    BY <2>3, CountIs
  <2>6. Neat(text, p) => Neat(moved, 0)
    BY <1>1, <1>4, <2>1, <2>2, NeatPart
  <2> QED
    BY <2>1, <2>3, <2>4, <2>5, <2>6
<1>9. LineMode => i <= Len(text) /\ FirstNul(text, i) <= Len(text)
  <2> SUFFICES ASSUME LineMode PROVE i <= Len(text) /\ FirstNul(text, i) <= Len(text)
    OBVIOUS
  <2>1. Ends # {} /\ ~SINGLE_CHAR
    BY DEF InputInv, InputSound, FlagMeansCommand
  <2>2. cmd_in_buf(text, text_start)
    BY <1>1, <2>1, EndsAre, CommandFound
  <2> QED
    BY <2>1, <2>2 DEF cmd_in_buf
<1>10. ASSUME i <= Len(text), ~SINGLE_CHAR, ~(FirstNul(text, i) <= Len(text))
       PROVE  Len(moved) <= MAX_TEXT - 2
  <2>1. ~cmd_in_buf(text, text_start)
    BY <1>10 DEF cmd_in_buf
  <2>2. EndsOf(text, text_start) = {}
    BY <1>1, <1>10, <2>1, CommandFound
  <2>3. text_start >= 1
    BY <1>10, <2>2 DEF InputInv, Full
  <2>4. p >= 1
    BY <1>1, <1>3, <2>3
  <2>5. Len(moved) = Len(text) - p
    BY <1>8
  <2> HIDE DEF i, moved
  <2> QED
    BY <1>1, <1>4, <2>4, <2>5
<1>11. PICK a, b, c : /\ a = [cmd |-> FALSE, text |-> <<>>, start |-> 0]
                      /\ b = [cmd |-> TRUE, text |-> text, start |-> i - 1]
                      /\ c = [cmd |-> FALSE, text |-> moved, start |-> 0]
  OBVIOUS
<1>12. \/ f = a /\ i > Len(text)
       \/ f = b
       \/ f = c /\ i <= Len(text) /\ ~(FirstNul(text, i) <= Len(text))
  <2>1. PICK j : j = FirstNul(text, i)
    OBVIOUS
  <2>2. j \in Int
    <3>1. i <= Len(text) => j \in i..(Len(text) + 1)
      BY <1>1, <1>2, <2>1, FirstNulIs
    <3>2. i \in 1..(Len(text) + 1)
      BY <1>1, <1>2
    <3>3. j \in i..(Len(text) + 1)
      BY <1>1, <2>1, <3>2, FirstNulIs
    <3> QED
      BY <1>1, <3>2, <3>3
  <2>3. CASE i > text_end
    BY <1>1, <1>2, <1>11, <2>3 DEF first_cmd_in_buf
  <2>4. CASE i <= text_end /\ (SINGLE_CHAR \/ j <= text_end)
    BY <1>1, <1>2, <1>11, <2>1, <2>2, <2>4 DEF first_cmd_in_buf
  <2>5. CASE i <= text_end /\ ~SINGLE_CHAR /\ j > text_end
    <3>1. Len(moved) <= MAX_TEXT - 2
      <4>1. i <= Len(text) /\ ~SINGLE_CHAR
        BY <1>1, <2>5
      <4>2. ~(FirstNul(text, i) <= Len(text))
        BY <1>1, <2>1, <2>2, <2>5
      <4> QED
        BY <1>10, <4>1, <4>2
    <3>2. ~(Len(moved) > MAX_TEXT - 2)
      BY <1>1, <1>8, <3>1
    <3> QED
      BY <1>1, <1>2, <1>11, <2>1, <2>2, <2>5, <3>2 DEF first_cmd_in_buf
  <2> QED
    BY <1>1, <1>2, <2>2, <2>3, <2>4, <2>5
<1> HIDE DEF i, moved
<1>13. CASE f = a /\ i > Len(text)
  <2>1. Count(text, p, Chars) = 0
    <3>1. Count(text, p, Chars) = Held(text, p + 1, Len(text), Chars)
      BY <1>1, <1>4, CountIs
    <3>2. \A k \in (p + 1)..Len(text) : text[k] \notin Chars
      BY <1>1, <1>4, <1>13
    <3> QED
      BY <3>1, <3>2, HeldNone
  <2>2. Neat(<<>>, 0) /\ <<>> \in Seq(InputByte) /\ Len(<<>>) = 0
    BY EmptySeq DEF Neat
  <2>3. ~LineMode
    BY <1>1, <1>2, <1>9, <1>13
  <2>4. f.text = <<>> /\ f.start = 0
    BY <1>11, <1>13
  <2>5. 0 <= MAX_TEXT - 1
    BY <1>1
  <2> QED
    BY <1>6, <2>1, <2>2, <2>3, <2>4, <2>5, CountEmpty
<1>14. CASE f = b
  <2>1. f.text = text /\ f.start = p /\ f.cmd
    BY <1>3, <1>11, <1>14
  <2> QED
    BY <1>1, <1>4, <1>6, <1>7, <2>1
<1>15. CASE f = c /\ i <= Len(text) /\ ~(FirstNul(text, i) <= Len(text))
  <2>1. f.text = moved /\ f.start = 0
    BY <1>11, <1>15
  <2>2. ~LineMode
    BY <1>9, <1>15
  <2>3. Len(moved) \in Nat /\ Len(moved) <= MAX_TEXT - 1
    BY <1>1, <1>4, <1>8
  <2> QED
    BY <1>6, <1>7, <1>8, <2>1, <2>2, <2>3
<1> QED
  BY <1>12, <1>13, <1>14, <1>15

(* In an empty buffer there is no command.                                 *)
LEMMA EmptyIs == ~cmd_in_buf(<<>>, 0)
<1> DEFINE t == <<>>
<1>1. t \in Seq(InputByte) /\ Len(t) = 0
  BY EmptySeq
<1> HIDE DEF t
<1>2. SkipNuls(t, 0 + 1) \in (0 + 1)..(Len(t) + 1)
  <2>1. 0 + 1 \in 1..(Len(t) + 1)
    BY <1>1
  <2> QED
    BY <1>1, <2>1, SkipNulsIs
<1>3. ~cmd_in_buf(t, 0)
  BY <1>1, <1>2 DEF cmd_in_buf
<1> QED
  BY <1>3 DEF t

(* A command is taken: its characters go from the buffer to commands.      *)
LEMMA TakeOk ==
  ASSUME InputInv, get_user_command, NEW f, f = first_cmd_in_buf, f.cmd
  PROVE  InputInv'
<1>1. PICK j, c, next : Taking(f.text, f.start, j, c, next)
  BY DEF Taking
<1>2. /\ commands' = Append(commands, telnet_neg(c))
      /\ text' = next.text /\ text_start' = next.start
      /\ CMD_IN_BUF' = cmd_in_buf(next.text, next.start) /\ SINGLE_CHAR' = FALSE
      /\ session' = session /\ bytes' = bytes /\ kept' = kept /\ CMD_IN_BUF
  BY <1>1 DEF get_user_command, Taking, history
<1>3. /\ f.text \in Seq(InputByte) /\ f.start \in 0..Len(f.text) /\ Len(f.text) <= MAX_TEXT - 1
      /\ Count(f.text, f.start, Chars) = Waiting
      /\ Neat(text, text_start) => Neat(f.text, f.start)
  BY <1>2, FirstIs
<1>4. PICK d : d = telnet_neg(c)
  OBVIOUS
<1>5. /\ d \in Seq(InputByte)
      /\ next.text \in Seq(InputByte) /\ next.start \in 0..Len(next.text)
      /\ Len(next.text) <= Len(f.text)
      /\ next.text = <<>> \/ next.start >= 1
      /\ Count(f.text, f.start, Chars) >= Count(next.text, next.start, Chars)
      /\ Neat(f.text, f.start) =>
           /\ Neat(next.text, next.start)
           /\ Count(f.text, f.start, Chars) = Count(d, 0, Chars) + Count(next.text, next.start, Chars)
  BY <1>1, <1>3, <1>4, CommandTaken
<1>6. Len(f.text) \in Nat /\ Len(next.text) \in Nat /\ MAX_TEXT \in Nat
  BY <1>3, <1>5, InputAssumption, LenProperties
<1>7. CMD_IN_BUF' \in BOOLEAN /\ SINGLE_CHAR' \in BOOLEAN
  BY <1>2, Zenon DEF cmd_in_buf
<1>8. InBounds'
  <2>1. text' \in Seq(InputByte) /\ Len(text') <= MAX_TEXT - 1 /\ text_start' \in 0..Len(text')
    BY <1>2, <1>3, <1>5, <1>6
  <2>2. session' \in Sessions /\ bytes' \in Nat /\ kept' \in Nat
    BY <1>2 DEF InputInv, InputSound, InBounds
  <2> QED
    BY <1>7, <2>1, <2>2 DEF InBounds, text_end
<1>9. ~SINGLE_CHAR => (CMD_IN_BUF' <=> EndsOf(next.text, next.start) # {})
  BY <1>2, <1>5, CommandFound
<1>10. Ends' = EndsOf(next.text, next.start)
  BY <1>2 DEF Ends, EndsOf, text_end
<1>11. (LineMode' <=> LineMode) /\ (LineMode => ~SINGLE_CHAR)
  BY <1>2 DEF LineMode, InputInv
<1>12. FlagMeansCommand'
  BY <1>9, <1>10, <1>11 DEF FlagMeansCommand
<1>13. Full'
  <2>1. CASE next.text = <<>>
    <3>1. next.start = 0
      BY <1>5, <2>1
    <3>2. ~CMD_IN_BUF'
      BY <1>2, <2>1, <3>1, EmptyIs
    <3> QED
      BY <3>2 DEF Full
  <2>2. CASE next.start >= 1
    BY <1>2, <2>2 DEF Full
  <2> QED
    BY <1>5, <2>1, <2>2
<1>14. connection_type # "ascii" /\ connection_type' = connection_type
  BY <1>2 DEF InputInv, connection_type
<1>15. commands \in Seq(Seq(InputByte)) /\ commands' \in Seq(Seq(InputByte))
  BY <1>2, <1>4, <1>5, AppendProperties DEF InputInv
<1>16. Waiting' = Count(next.text, next.start, Chars)
  BY <1>2 DEF Waiting
<1>17. /\ Count(next.text, next.start, Chars) \in Nat /\ Count(d, 0, Chars) \in Nat
       /\ kept \in Nat /\ Waiting \in Nat
  <2>1. next.start \in Nat /\ f.start \in Nat
    BY <1>3, <1>5
  <2> QED
    BY <1>3, <1>5, <2>1, CountIs DEF InputInv, InputSound, InBounds
<1>18. kept' >= Waiting'
  BY <1>2, <1>3, <1>5, <1>16, <1>17 DEF InputInv
<1>19. ASSUME Countable'
       PROVE  Neat(text', text_start') /\ kept' = Handed' + Waiting'
  <2>1. Countable
    BY <1>2, <1>19 DEF Countable, connection_type
  <2>2. Neat(text, text_start) /\ kept = Handed + Waiting
    BY <2>1 DEF InputInv
  <2>3. FlattenSeq(commands) \in Seq(InputByte) /\ FlattenSeq(commands') = FlattenSeq(commands) \o d
    BY <1>2, <1>4, <1>5, <1>15, FlatAppend
  <2>4. Count(FlattenSeq(commands) \o d, 0, Chars) = Handed + Count(d, 0, Chars)
    <3>1. 0 \in 0..Len(FlattenSeq(commands))
      BY <2>3, LenProperties
    <3> QED
      BY <1>5, <2>3, <3>1, CountConcat DEF Handed
  <2>5. Handed' = Handed + Count(d, 0, Chars)
    BY <2>3, <2>4 DEF Handed
  <2>6. Handed \in Nat
    BY <2>3, CountIs DEF Handed
  <2> QED
    BY <1>2, <1>3, <1>5, <1>16, <1>17, <2>2, <2>5, <2>6
<1> QED
  BY <1>2, <1>8, <1>11, <1>12, <1>13, <1>14, <1>15, <1>18, <1>19 DEF InputInv, InputSound

(* There is none after all: what is in the buffer is kept.                 *)
LEMMA NoneOk ==
  ASSUME InputInv, get_user_command, NEW f, f = first_cmd_in_buf, ~f.cmd
  PROVE  InputInv'
<1>1. /\ commands' = commands /\ text' = f.text /\ text_start' = f.start
      /\ CMD_IN_BUF' = FALSE /\ SINGLE_CHAR' = SINGLE_CHAR
      /\ session' = session /\ bytes' = bytes /\ kept' = kept /\ CMD_IN_BUF
  BY DEF get_user_command, history
<1>2. /\ f.text \in Seq(InputByte) /\ f.start \in 0..Len(f.text) /\ Len(f.text) <= MAX_TEXT - 1
      /\ Count(f.text, f.start, Chars) = Waiting
      /\ Neat(text, text_start) => Neat(f.text, f.start)
      /\ ~LineMode
  BY <1>1, FirstIs
<1>3. InBounds'
  BY <1>1, <1>2 DEF InputInv, InputSound, InBounds, text_end
<1>4. ~LineMode'
  BY <1>1, <1>2 DEF LineMode
<1>5. connection_type # "ascii" /\ connection_type' = connection_type
  BY <1>1 DEF InputInv, connection_type
<1>6. Waiting' = Waiting /\ Handed' = Handed
  BY <1>1, <1>2 DEF Waiting, Handed
<1>7. Countable' => Countable
  BY <1>1 DEF Countable, connection_type
<1> QED
  BY <1>1, <1>2, <1>3, <1>4, <1>5, <1>6, <1>7
  DEF InputInv, InputSound, FlagMeansCommand, Full

(* Every step keeps the invariant.                                         *)
LEMMA InputNextKeeps == ASSUME InputInv, [InputNext]_inputVars PROVE InputInv'
<1>1. CASE UNCHANGED inputVars
  BY <1>1 DEF inputVars, InputInv, InputSound, InBounds, FlagMeansCommand, LineMode, Ends, Full,
     Countable, Handed, Waiting, EndsOf, connection_type, text_end, Neat
<1>2. ASSUME NEW read \in session.reads, get_user_data(read) PROVE InputInv'
  BY <1>2, ReadOk
<1>3. ASSUME NEW read \in session.reads, get_ascii_data(read) PROVE InputInv'
  BY <1>3, AsciiOk
<1>4. CASE get_user_command
  <2>1. PICK f : f = first_cmd_in_buf
    OBVIOUS
  <2> QED
    BY <1>4, <2>1, TakeOk, NoneOk
<1>5. CASE get_char
  BY <1>5, CharOk
<1> QED
  BY <1>1, <1>2, <1>3, <1>4, <1>5 DEF InputNext

(* It holds at the start.                                                  *)
LEMMA InputStarts == ASSUME InputInit PROVE InputInv
<1>1. text = <<>> /\ commands = <<>>
  BY DEF InputInit
<1>2. Waiting = 0
  BY <1>1, CountEmpty DEF Waiting, InputInit
<1>3. Handed = 0
  <2>1. FlattenSeq(<<>>) = <<>>
    BY EmptySeq DEF FlattenSeq
  <2> QED
    BY <1>1, <2>1, CountEmpty DEF Handed
<1>4. /\ text \in Seq(InputByte) /\ commands \in Seq(Seq(InputByte)) /\ Len(text) = 0
      /\ 0 <= MAX_TEXT - 1
  BY <1>1, EmptySeq, InputAssumption
<1>5. Neat(text, text_start)
  BY <1>4 DEF Neat, InputInit
<1>6. Ends = {}
  BY <1>4 DEF Ends, text_end, InputInit
<1>7. InBounds
  <2>1. text_end = 0 /\ text_start = 0 /\ text_end <= MAX_TEXT - 1
    BY <1>4 DEF InputInit, text_end
  <2>2. text_start \in 0..text_end
    BY <2>1
  <2>3. session \in Sessions /\ CMD_IN_BUF \in BOOLEAN /\ SINGLE_CHAR \in BOOLEAN
        /\ bytes \in Nat /\ kept \in Nat
    BY DEF InputInit
  <2> QED
    BY <1>4, <2>1, <2>2, <2>3 DEF InBounds
<1> QED
  BY <1>1, <1>2, <1>3, <1>4, <1>5, <1>6, <1>7
  DEF InputInit, InputInv, InputSound, FlagMeansCommand, Full

(* After a byte there is a character for each character typed and not      *)
(* dropped.                                                                *)
LEMMA InputInvCounts == ASSUME InputInv PROVE CharsConserved
BY DEF InputInv, CharsConserved, Countable, Handed, Waiting
-----------------------------------------------------------------------------
(* Piece() begins behind the last NUL before it, or at the start.          *)
Begins(t, start, i, j) ==
  /\ j \in start..i /\ (j = start \/ t[j] = NUL) /\ \A k \in (j + 1)..i : t[k] # NUL

(* There is one such place.                                                *)
LEMMA BeginsOnce ==
  ASSUME NEW t, NEW start \in Nat, NEW i \in Nat, NEW j, NEW l,
         Begins(t, start, i, j), Begins(t, start, i, l)
  PROVE  j = l
<1>1. /\ j \in start..i /\ (j = start \/ t[j] = NUL) /\ \A k \in (j + 1)..i : t[k] # NUL
      /\ l \in start..i /\ (l = start \/ t[l] = NUL) /\ \A k \in (l + 1)..i : t[k] # NUL
  BY DEF Begins
<1>2. ~(j < l)
  BY <1>1
<1>3. ~(l < j)
  BY <1>1
<1> QED
  BY <1>1, <1>2, <1>3

(* Piece() is what is behind it.                                           *)
LEMMA PieceIs ==
  ASSUME NEW t, NEW start \in Nat, NEW i \in Nat, NEW j, Begins(t, start, i, j)
  PROVE  Piece(t, start, i) = SubSeq(t, j + 1, i)
<1>1. PICK l : l = CHOOSE m \in start..i : (m = start \/ t[m] = NUL) /\ \A k \in (m + 1)..i : t[k] # NUL
  OBVIOUS
<1>2. Begins(t, start, i, l)
  <2>1. \E m \in start..i : (m = start \/ t[m] = NUL) /\ \A k \in (m + 1)..i : t[k] # NUL
    BY DEF Begins
  <2>2. l \in start..i /\ (l = start \/ t[l] = NUL) /\ \A k \in (l + 1)..i : t[k] # NUL
    BY <1>1, <2>1, Zenon
  <2> QED
    BY <2>2 DEF Begins
<1>3. j = l
  BY <1>2, BeginsOnce
<1>4. Piece(t, start, i) = SubSeq(t, l + 1, i)
  BY <1>1, Zenon DEF Piece
<1> QED
  BY <1>3, <1>4

(* Piece() one byte after the other.                                       *)
LEMMA PieceGrows ==
  ASSUME NEW t \in Seq(InputByte), NEW start \in 0..Len(t), NEW i \in start..Len(t)
  PROVE  /\ Piece(t, start, i) \in Seq(InputByte)
         /\ \E j : Begins(t, start, i, j)
         /\ i = start => Piece(t, start, i) = <<>>
         /\ i < Len(t) => Piece(t, start, i + 1)
                            = IF t[i + 1] = NUL THEN <<>> ELSE Append(Piece(t, start, i), t[i + 1])
<1>1. start \in Nat /\ i \in Nat /\ Len(t) \in Nat /\ start <= i /\ i <= Len(t)
  BY LenProperties
<1>2. \A k \in 1..Len(t) : t[k] \in InputByte
  BY LenProperties
<1>3. \E j : Begins(t, start, i, j)
  <2> DEFINE S == {k \in Nat : k >= start => \E j : Begins(t, start, k, j)}
  <2>1. 0 \in S
    <3> SUFFICES ASSUME 0 >= start PROVE \E j : Begins(t, start, 0, j)
      OBVIOUS
    <3>1. Begins(t, start, 0, 0)
      BY <1>1 DEF Begins
    <3> QED
      BY <3>1
  <2>2. ASSUME NEW k \in Nat, k \in S PROVE k + 1 \in S
    <3> SUFFICES ASSUME k + 1 >= start PROVE \E j : Begins(t, start, k + 1, j)
      OBVIOUS
    <3>1. CASE k + 1 = start \/ t[k + 1] = NUL
      <4>1. Begins(t, start, k + 1, k + 1)
        BY <1>1, <3>1 DEF Begins
      <4> QED
        BY <4>1
    <3>2. CASE k + 1 # start /\ t[k + 1] # NUL
      <4>1. PICK j : Begins(t, start, k, j)
        BY <1>1, <2>2, <3>2
      <4>2. Begins(t, start, k + 1, j)
        BY <1>1, <3>2, <4>1 DEF Begins
      <4> QED
        BY <4>2
    <3> QED
      BY <3>1, <3>2
  <2> HIDE DEF S
  <2>3. i \in S
    BY <1>1, <2>1, <2>2, NatInd
  <2> QED
    BY <1>1, <2>3 DEF S
<1>4. PICK j : Begins(t, start, i, j)
  BY <1>3
<1>5. Piece(t, start, i) = SubSeq(t, j + 1, i) /\ j \in start..i
  BY <1>1, <1>4, PieceIs DEF Begins
<1>6. Piece(t, start, i) \in Seq(InputByte)
  <2>1. \A k \in (j + 1)..i : t[k] \in InputByte
    BY <1>1, <1>2, <1>5
  <2> QED
    BY <1>1, <1>5, <2>1, SubSeqProperties
<1>7. i = start => Piece(t, start, i) = <<>>
  <2> SUFFICES ASSUME i = start PROVE Piece(t, start, i) = <<>>
    OBVIOUS
  <2>1. j + 1 \in Int /\ i \in Int /\ i < j + 1
    BY <1>1, <1>5
  <2> QED
    BY <1>5, <2>1, SubSeqEmpty
<1>8. ASSUME i < Len(t), t[i + 1] = NUL PROVE Piece(t, start, i + 1) = <<>>
  <2>1. Begins(t, start, i + 1, i + 1)
    BY <1>1, <1>8 DEF Begins
  <2>2. Piece(t, start, i + 1) = SubSeq(t, (i + 1) + 1, i + 1)
    BY <1>1, <2>1, PieceIs
  <2>3. (i + 1) + 1 \in Int /\ i + 1 \in Int /\ i + 1 < (i + 1) + 1
    BY <1>1
  <2> QED
    BY <2>2, <2>3, SubSeqEmpty
<1>9. ASSUME i < Len(t), t[i + 1] # NUL
      PROVE  Piece(t, start, i + 1) = Append(Piece(t, start, i), t[i + 1])
  <2>1. Begins(t, start, i + 1, j)
    BY <1>1, <1>4, <1>9 DEF Begins
  <2>2. Piece(t, start, i + 1) = SubSeq(t, j + 1, i + 1)
    BY <1>1, <2>1, PieceIs
  <2>3. j + 1 \in 1..Len(t) /\ i + 1 \in (j + 1)..Len(t) /\ (i + 1) - 1 = i
    BY <1>1, <1>5, <1>9
  <2>4. SubSeq(t, j + 1, i + 1) = SubSeq(t, j + 1, i) \o <<t[i + 1]>>
    BY <2>3, SubSeqRecursiveSecond
  <2>5. t[i + 1] \in InputByte
    BY <1>1, <1>2, <1>9
  <2> QED
    BY <1>5, <1>6, <2>2, <2>4, <2>5, AppendIsConcat
<1> QED
  BY <1>3, <1>6, <1>7, <1>8, <1>9

-----------------------------------------------------------------------------
(* What Cut() has after each byte, as one function.                        *)
CutUpto(f, t, start, n) ==
  f = [k \in 0..n |-> IF k = 0 THEN <<>> ELSE CutNext(f[k - 1], t, start, start + k)]

(* There is such a function.                                               *)
LEMMA CutAll ==
  ASSUME NEW t, NEW start, NEW n \in Nat
  PROVE  \E f : CutUpto(f, t, start, n)
<1> DEFINE S == {k \in Nat : \E f : CutUpto(f, t, start, k)}
<1>1. 0 \in S
  <2>1. PICK f : f = [i \in 0..0 |-> <<>>]
    OBVIOUS
  <2>2. f = [i \in 0..0 |-> IF i = 0 THEN <<>> ELSE CutNext(f[i - 1], t, start, start + i)]
    BY <2>1
  <2> QED
    BY <2>2 DEF CutUpto
<1>2. ASSUME NEW k \in Nat, k \in S PROVE k + 1 \in S
  <2>1. PICK f : CutUpto(f, t, start, k)
    BY <1>2
  <2>2. PICK x : x = CutNext(f[k], t, start, start + (k + 1))
    OBVIOUS
  <2>3. PICK h : h = [i \in 0..(k + 1) |-> IF i = k + 1 THEN x ELSE f[i]]
    OBVIOUS
  <2>4. h[k] = f[k] /\ h[k + 1] = x
    BY <2>3
  <2>5. ASSUME NEW i \in 0..(k + 1)
        PROVE  h[i] = IF i = 0 THEN <<>> ELSE CutNext(h[i - 1], t, start, start + i)
    <3>1. CASE i = k + 1
      <4>1. i # 0 /\ i - 1 = k
        BY <3>1
      <4> QED
        BY <2>2, <2>4, <3>1, <4>1
    <3>2. CASE i # k + 1
      <4>1. i \in 0..k /\ (i # 0 => i - 1 \in 0..k /\ i - 1 # k + 1 /\ i - 1 \in 0..(k + 1))
        BY <3>2
      <4>2. h[i] = f[i] /\ (i # 0 => h[i - 1] = f[i - 1])
        BY <2>3, <3>2, <4>1
      <4>3. f[i] = IF i = 0 THEN <<>> ELSE CutNext(f[i - 1], t, start, start + i)
        BY <2>1, <4>1 DEF CutUpto
      <4> QED
        BY <4>2, <4>3
    <3> QED
      BY <3>1, <3>2
  <2>6. h = [i \in 0..(k + 1) |-> h[i]]
    BY <2>3
  <2>7. h = [i \in 0..(k + 1) |-> IF i = 0 THEN <<>> ELSE CutNext(h[i - 1], t, start, start + i)]
    BY <2>5, <2>6
  <2> QED
    BY <2>7 DEF CutUpto
<1> HIDE DEF S
<1>3. n \in S
  BY <1>1, <1>2, NatInd
<1> QED
  BY <1>3 DEF S

(* What Cut() and Piece() have after each byte.                            *)
Cutting(f, p, t, start) ==
  LET n == Len(t) - start
  IN  /\ Cut(t, start) = f[n] /\ Piece(t, start, Len(t)) = p[n]
      /\ f[0] = <<>> /\ p[0] = <<>>
      /\ \A k \in 0..n : f[k] \in Seq(Seq(InputByte)) /\ p[k] \in Seq(InputByte)
      /\ \A k \in 0..(n - 1) :
           IF t[start + (k + 1)] = NUL
           THEN /\ p[k + 1] = <<>>
                /\ f[k + 1] = IF p[k] = <<>> THEN f[k] ELSE Append(f[k], telnet_neg(p[k]))
           ELSE p[k + 1] = Append(p[k], t[start + (k + 1)]) /\ f[k + 1] = f[k]

(* Cut() and Piece() taken byte after byte.                                *)
LEMMA CutIs ==
  ASSUME NEW t \in Seq(InputByte), NEW start \in 0..Len(t)
  PROVE  \E f, p : Cutting(f, p, t, start)
<1> DEFINE n == Len(t) - start
<1>1. n \in Nat /\ n = Len(t) - start
  BY LenProperties
<1>2. start \in Nat /\ Len(t) \in Nat /\ start + n = Len(t)
  BY <1>1, LenProperties
<1> HIDE DEF n
<1>3. PICK f : f = CHOOSE h : h = [k \in 0..n |-> IF k = 0 THEN <<>> ELSE CutNext(h[k - 1], t, start, start + k)]
  OBVIOUS
<1>4. Cut(t, start) = f[n]
  BY <1>3, Zenon DEF Cut, n
<1>5. f = [k \in 0..n |-> IF k = 0 THEN <<>> ELSE CutNext(f[k - 1], t, start, start + k)]
  <2>1. \E h : h = [k \in 0..n |-> IF k = 0 THEN <<>> ELSE CutNext(h[k - 1], t, start, start + k)]
    <3>1. PICK h : CutUpto(h, t, start, n)
      BY <1>1, CutAll
    <3> QED
      BY <3>1 DEF CutUpto
  <2> QED
    BY <1>3, <2>1, Zenon
<1>6. f[0] = <<>> /\ \A k \in 0..(n - 1) : f[k + 1] = CutNext(f[k], t, start, start + (k + 1))
  <2>1. \A k \in 0..(n - 1) : k + 1 \in 0..n /\ k + 1 # 0 /\ (k + 1) - 1 = k
    BY <1>1
  <2>2. 0 \in 0..n
    BY <1>1
  <2> QED
    BY <1>5, <2>1, <2>2
<1>7. PICK p : p = [k \in 0..n |-> Piece(t, start, start + k)]
  OBVIOUS
<1>8. \A k \in 0..n : p[k] \in Seq(InputByte) /\ p[k] = Piece(t, start, start + k)
  <2>1. ASSUME NEW k \in 0..n PROVE Piece(t, start, start + k) \in Seq(InputByte)
    <3>1. PICK i \in start..Len(t) : i = start + k
      BY <1>1, <1>2
    <3> QED
      BY <3>1, PieceGrows
  <2> QED
    BY <1>7, <2>1
<1>9. p[0] = <<>> /\ Piece(t, start, Len(t)) = p[n]
  <2>1. 0 \in 0..n /\ n \in 0..n /\ start + 0 = start /\ start \in start..Len(t)
    BY <1>1, <1>2
  <2> QED
    BY <1>1, <1>2, <1>8, <2>1, PieceGrows
<1>10. ASSUME NEW k \in 0..(n - 1)
       PROVE  /\ p[k + 1] = IF t[start + (k + 1)] = NUL THEN <<>> ELSE Append(p[k], t[start + (k + 1)])
              /\ f[k + 1] = IF t[start + (k + 1)] = NUL /\ p[k] # <<>>
                            THEN Append(f[k], telnet_neg(p[k])) ELSE f[k]
  <2>1. PICK i \in start..Len(t) : i = start + k
    BY <1>1, <1>2
  <2>2. i < Len(t) /\ i + 1 = start + (k + 1) /\ start + (k + 1) - 1 = i /\ k \in 0..n /\ k + 1 \in 0..n
    BY <1>1, <1>2, <2>1
  <2>3. Piece(t, start, i + 1)
          = IF t[i + 1] = NUL THEN <<>> ELSE Append(Piece(t, start, i), t[i + 1])
    BY <2>2, PieceGrows
  <2>4. p[k] = Piece(t, start, i) /\ p[k + 1] = Piece(t, start, i + 1)
    BY <1>8, <2>1, <2>2
  <2>5. f[k + 1] = CutNext(f[k], t, start, start + (k + 1))
    BY <1>6
  <2>6. CutNext(f[k], t, start, start + (k + 1))
          = IF t[i + 1] = NUL /\ p[k] # <<>> THEN Append(f[k], telnet_neg(p[k])) ELSE f[k]
    BY <2>2, <2>4 DEF CutNext
  <2> QED
    BY <2>2, <2>3, <2>4, <2>5, <2>6
<1>11. \A k \in 0..n : f[k] \in Seq(Seq(InputByte))
  <2> DEFINE S == {k \in Nat : k <= n => f[k] \in Seq(Seq(InputByte))}
  <2>1. 0 \in S
    BY <1>6, EmptySeq
  <2>2. ASSUME NEW k \in Nat, k \in S PROVE k + 1 \in S
    <3> SUFFICES ASSUME k + 1 <= n PROVE f[k + 1] \in Seq(Seq(InputByte))
      OBVIOUS
    <3>1. k \in 0..(n - 1) /\ k \in 0..n
      BY <1>1
    <3>2. f[k] \in Seq(Seq(InputByte))
      BY <2>2, <3>1
    <3>3. telnet_neg(p[k]) \in Seq(InputByte)
      BY <1>8, <3>1, NegCounts
    <3>4. Append(f[k], telnet_neg(p[k])) \in Seq(Seq(InputByte))
      BY <3>2, <3>3, AppendProperties
    <3> QED
      BY <1>10, <3>1, <3>2, <3>4
  <2> HIDE DEF S
  <2>3. \A k \in Nat : k \in S
    BY <2>1, <2>2, NatInd
  <2> QED
    BY <2>3 DEF S
<1>12. \A k \in 0..(n - 1) :
         IF t[start + (k + 1)] = NUL
         THEN /\ p[k + 1] = <<>>
              /\ f[k + 1] = IF p[k] = <<>> THEN f[k] ELSE Append(f[k], telnet_neg(p[k]))
         ELSE p[k + 1] = Append(p[k], t[start + (k + 1)]) /\ f[k + 1] = f[k]
  BY <1>10, Zenon
<1>13. Cutting(f, p, t, start)
  <2>1. \A k \in 0..n : f[k] \in Seq(Seq(InputByte)) /\ p[k] \in Seq(InputByte)
    BY <1>8, <1>11
  <2>2. f[0] = <<>> /\ p[0] = <<>> /\ Cut(t, start) = f[n] /\ Piece(t, start, Len(t)) = p[n]
    BY <1>4, <1>6, <1>9
  <2> QED
    BY <1>12, <2>1, <2>2, Zenon DEF Cutting, n
<1> QED
  BY <1>13

-----------------------------------------------------------------------------
(* One more byte for telnet_neg().                                         *)
LEMMA NegAppend ==
  ASSUME NEW c \in Seq(InputByte), NEW b \in InputByte
  PROVE  telnet_neg(Append(c, b)) = Applied(telnet_neg(c), b)
<1>1. PICK n \in Nat : n = Len(c)
  BY LenProperties
<1>2. PICK d \in Seq(InputByte) : d = Append(c, b)
  BY AppendProperties
<1>3. Len(d) = n + 1 /\ d[n + 1] = b /\ \A i \in 1..n : d[i] = c[i]
  BY <1>1, <1>2, AppendProperties
<1>4. PICK f : Erasing(f, c)
  BY NegIs
<1>5. PICK g : Erasing(g, d)
  BY <1>2, NegIs
<1>6. /\ f[0] = <<>> /\ (\A i \in 1..n : f[i] = Applied(f[i - 1], c[i])) /\ telnet_neg(c) = f[n]
      /\ g[0] = <<>> /\ (\A i \in 1..(n + 1) : g[i] = Applied(g[i - 1], d[i]))
      /\ telnet_neg(d) = g[n + 1]
  BY <1>1, <1>3, <1>4, <1>5 DEF Erasing
<1> DEFINE S == {k \in Nat : k <= n => f[k] = g[k]}
<1>7. 0 \in S
  BY <1>6
<1>8. ASSUME NEW k \in Nat, k \in S PROVE k + 1 \in S
  <2> SUFFICES ASSUME k + 1 <= n PROVE f[k + 1] = g[k + 1]
    OBVIOUS
  <2>1. k + 1 \in 1..n /\ k + 1 \in 1..(n + 1) /\ (k + 1) - 1 = k
    OBVIOUS
  <2>2. f[k] = g[k]
    BY <1>8
  <2>3. f[k + 1] = Applied(f[k], c[k + 1]) /\ g[k + 1] = Applied(g[k], d[k + 1])
    BY <1>6, <2>1
  <2> QED
    BY <1>3, <2>1, <2>2, <2>3
<1> HIDE DEF S
<1>9. n \in S
  BY <1>1, <1>7, <1>8, NatInd
<1>10. f[n] = g[n]
  BY <1>1, <1>9 DEF S
<1>11. g[n + 1] = Applied(g[n], d[n + 1])
  <2>1. n + 1 \in 1..(n + 1) /\ (n + 1) - 1 = n
    BY <1>1
  <2> QED
    BY <1>6, <2>1
<1> QED
  BY <1>2, <1>3, <1>6, <1>10, <1>11

(* Nothing typed, nothing left.                                            *)
LEMMA NegEmpty == telnet_neg(<<>>) = <<>>
<1> DEFINE c == <<>>
<1>1. c \in Seq(InputByte) /\ Len(c) = 0
  BY EmptySeq
<1> HIDE DEF c
<1>2. PICK f : Erasing(f, c)
  BY <1>1, NegIs
<1>3. telnet_neg(c) = <<>>
  BY <1>1, <1>2 DEF Erasing
<1> QED
  BY <1>3 DEF c

-----------------------------------------------------------------------------
(* m bytes of t behind a are those of u behind b.                          *)
Alike(t, a, u, b, m) ==
  /\ t \in Seq(InputByte) /\ a \in 0..Len(t) /\ u \in Seq(InputByte) /\ b \in 0..Len(u)
  /\ m \in Nat /\ m <= Len(t) - a /\ m <= Len(u) - b
  /\ \A k \in 1..m : t[a + k] = u[b + k]

(* Where the bytes are the same, so is what was cut so far.                *)
LEMMA CutPrefix ==
  ASSUME NEW t, NEW a, NEW u, NEW b, NEW m, Alike(t, a, u, b, m),
         NEW f, NEW p, Cutting(f, p, t, a), NEW g, NEW q, Cutting(g, q, u, b)
  PROVE  f[m] = g[m] /\ p[m] = q[m]
<1>0. /\ t \in Seq(InputByte) /\ a \in 0..Len(t) /\ u \in Seq(InputByte) /\ b \in 0..Len(u)
      /\ m \in Nat /\ m <= Len(t) - a /\ m <= Len(u) - b
      /\ \A k \in 1..m : t[a + k] = u[b + k]
  BY DEF Alike
<1>1. PICK n, l : /\ n \in Nat /\ n = Len(t) - a /\ m <= n
                 /\ l \in Nat /\ l = Len(u) - b /\ m <= l
  <2>1. Len(t) \in Nat /\ Len(u) \in Nat /\ a \in Nat /\ b \in Nat
    BY <1>0, LenProperties
  <2>2. Len(t) - a \in Nat /\ Len(u) - b \in Nat
    BY <1>0, <2>1
  <2> QED
    BY <1>0, <2>2
<1>2. /\ f[0] = <<>> /\ p[0] = <<>> /\ g[0] = <<>> /\ q[0] = <<>>
      /\ \A k \in 0..(n - 1) :
           IF t[a + (k + 1)] = NUL
           THEN /\ p[k + 1] = <<>>
                /\ f[k + 1] = IF p[k] = <<>> THEN f[k] ELSE Append(f[k], telnet_neg(p[k]))
           ELSE p[k + 1] = Append(p[k], t[a + (k + 1)]) /\ f[k + 1] = f[k]
      /\ \A k \in 0..(l - 1) :
           IF u[b + (k + 1)] = NUL
           THEN /\ q[k + 1] = <<>>
                /\ g[k + 1] = IF q[k] = <<>> THEN g[k] ELSE Append(g[k], telnet_neg(q[k]))
           ELSE q[k + 1] = Append(q[k], u[b + (k + 1)]) /\ g[k + 1] = g[k]
  BY <1>1 DEF Cutting
<1> DEFINE S == {k \in Nat : k <= m => f[k] = g[k] /\ p[k] = q[k]}
<1>3. 0 \in S
  BY <1>2
<1>4. ASSUME NEW k \in Nat, k \in S PROVE k + 1 \in S
  <2> SUFFICES ASSUME k + 1 <= m PROVE f[k + 1] = g[k + 1] /\ p[k + 1] = q[k + 1]
    OBVIOUS
  <2>1. k \in 0..(n - 1) /\ k \in 0..(l - 1) /\ k + 1 \in 1..m
    BY <1>0, <1>1
  <2>2. t[a + (k + 1)] = u[b + (k + 1)]
    BY <1>0, <2>1
  <2>3. f[k] = g[k] /\ p[k] = q[k]
    BY <1>0, <1>4
  <2> QED
    BY <1>2, <2>1, <2>2, <2>3, Zenon
<1> HIDE DEF S
<1>5. m \in S
  BY <1>0, <1>3, <1>4, NatInd
<1> QED
  BY <1>0, <1>5 DEF S

(* The same bytes to the end are cut the same way, wherever they are.      *)
SameRest(t, a, u, b) ==
  /\ t \in Seq(InputByte) /\ a \in 0..Len(t) /\ u \in Seq(InputByte) /\ b \in 0..Len(u)
  /\ Len(t) - a = Len(u) - b /\ \A k \in 1..(Len(t) - a) : t[a + k] = u[b + k]

LEMMA CutSame ==
  ASSUME NEW t, NEW a, NEW u, NEW b, SameRest(t, a, u, b)
  PROVE  Cut(t, a) = Cut(u, b) /\ Piece(t, a, Len(t)) = Piece(u, b, Len(u))
<1>0. /\ t \in Seq(InputByte) /\ a \in 0..Len(t) /\ u \in Seq(InputByte) /\ b \in 0..Len(u)
      /\ Len(t) - a = Len(u) - b /\ \A k \in 1..(Len(t) - a) : t[a + k] = u[b + k]
  BY DEF SameRest
<1>1. PICK n \in Nat : n = Len(t) - a /\ n = Len(u) - b
  <2>1. Len(t) \in Nat /\ Len(u) \in Nat
    BY <1>0, LenProperties
  <2>2. Len(t) - a \in Nat
    BY <1>0, <2>1
  <2> QED
    BY <1>0, <2>2
<1>2. PICK f, p : Cutting(f, p, t, a)
  BY <1>0, CutIs
<1>3. PICK g, q : Cutting(g, q, u, b)
  BY <1>0, CutIs
<1>4. Alike(t, a, u, b, n)
  <2>1. n <= Len(t) - a /\ n <= Len(u) - b
    BY <1>1
  <2>2. \A k \in 1..n : t[a + k] = u[b + k]
    BY <1>0, <1>1
  <2> QED
    BY <1>0, <1>1, <2>1, <2>2 DEF Alike
<1>5. f[n] = g[n] /\ p[n] = q[n]
  BY <1>2, <1>3, <1>4, CutPrefix
<1> QED
  BY <1>1, <1>2, <1>3, <1>5 DEF Cutting

(* Nothing to cut.                                                         *)
LEMMA CutEmpty == Cut(<<>>, 0) = <<>> /\ Piece(<<>>, 0, 0) = <<>>
<1> DEFINE t == <<>>
<1>1. t \in Seq(InputByte) /\ Len(t) = 0
  BY EmptySeq
<1> HIDE DEF t
<1>2. PICK f, p : Cutting(f, p, t, 0)
  <2>1. 0 \in 0..Len(t)
    BY <1>1
  <2> QED
    BY <1>1, <2>1, CutIs
<1>3. Cut(t, 0) = <<>> /\ Piece(t, 0, 0) = <<>>
  BY <1>1, <1>2 DEF Cutting
<1> QED
  BY <1>3 DEF t

(* One more byte.                                                          *)
LEMMA CutAppend ==
  ASSUME NEW t \in Seq(InputByte), NEW a \in 0..Len(t), NEW b \in InputByte
  PROVE  LET u == Append(t, b)
             piece == Piece(t, a, Len(t))
         IN  /\ u \in Seq(InputByte) /\ Len(u) = Len(t) + 1 /\ a \in 0..Len(u)
             /\ piece \in Seq(InputByte) /\ Cut(t, a) \in Seq(Seq(InputByte))
             /\ Piece(u, a, Len(u)) = IF b = NUL THEN <<>> ELSE Append(piece, b)
             /\ Cut(u, a) = IF b = NUL /\ piece # <<>> THEN Append(Cut(t, a), telnet_neg(piece))
                            ELSE Cut(t, a)
<1>1. PICK n \in Nat : n = Len(t) - a
  BY LenProperties
<1>2. PICK u \in Seq(InputByte) : u = Append(t, b)
  BY AppendProperties
<1>3. /\ Len(t) \in Nat /\ Len(t) = a + n /\ a \in Nat
      /\ Len(u) = Len(t) + 1 /\ u[Len(t) + 1] = b /\ \A i \in 1..Len(t) : u[i] = t[i]
  BY <1>1, <1>2, AppendProperties, LenProperties
<1>4. a \in 0..Len(u) /\ Len(u) - a = n + 1 /\ n <= Len(u) - a
  BY <1>1, <1>3
<1>5. PICK f, p : Cutting(f, p, t, a)
  BY CutIs
<1>6. PICK g, q : Cutting(g, q, u, a)
  BY <1>2, <1>4, CutIs
<1>7. Alike(t, a, u, a, n)
  <2>1. n <= Len(t) - a
    BY <1>1
  <2>2. \A k \in 1..n : t[a + k] = u[a + k]
    BY <1>1, <1>3
  <2> QED
    BY <1>1, <1>2, <1>4, <2>1, <2>2 DEF Alike
<1>8. f[n] = g[n] /\ p[n] = q[n]
  BY <1>5, <1>6, <1>7, CutPrefix
<1>9. /\ Cut(t, a) = f[n] /\ Piece(t, a, Len(t)) = p[n]
      /\ f[n] \in Seq(Seq(InputByte)) /\ p[n] \in Seq(InputByte)
  <2>1. n \in 0..n
    BY <1>1
  <2> QED
    BY <1>1, <1>5, <2>1 DEF Cutting
<1>10. /\ Cut(u, a) = g[n + 1] /\ Piece(u, a, Len(u)) = q[n + 1]
       /\ IF u[a + (n + 1)] = NUL
          THEN /\ q[n + 1] = <<>>
               /\ g[n + 1] = IF q[n] = <<>> THEN g[n] ELSE Append(g[n], telnet_neg(q[n]))
          ELSE q[n + 1] = Append(q[n], u[a + (n + 1)]) /\ g[n + 1] = g[n]
  <2>1. n \in 0..((n + 1) - 1)
    BY <1>1
  <2> QED
    BY <1>4, <1>6, <2>1 DEF Cutting
<1>11. u[a + (n + 1)] = b
  BY <1>1, <1>3
<1>12. /\ Piece(u, a, Len(u)) = IF b = NUL THEN <<>> ELSE Append(p[n], b)
       /\ Cut(u, a) = IF b = NUL /\ p[n] # <<>> THEN Append(f[n], telnet_neg(p[n])) ELSE f[n]
  BY <1>8, <1>10, <1>11
<1> QED
  BY <1>2, <1>3, <1>4, <1>9, <1>12

(* NULs that end nothing.                                                  *)
LEMMA CutNuls ==
  ASSUME NEW t \in Seq(InputByte), NEW a \in 0..Len(t), NEW f, NEW p, Cutting(f, p, t, a),
         NEW b \in a..Len(t), NEW c \in b..Len(t), p[b - a] = <<>>,
         \A k \in (b + 1)..c : t[k] = NUL
  PROVE  f[c - a] = f[b - a] /\ p[c - a] = <<>>
<1>1. /\ Len(t) \in Nat /\ a \in Nat /\ b \in Nat /\ c \in Nat
      /\ a <= b /\ b <= c /\ c <= Len(t)
  BY LenProperties
<1> DEFINE S == {k \in Nat : b + k <= c => f[b - a + k] = f[b - a] /\ p[b - a + k] = <<>>}
<1>2. 0 \in S
  BY <1>1
<1>3. ASSUME NEW k \in Nat, k \in S PROVE k + 1 \in S
  <2> SUFFICES ASSUME b + (k + 1) <= c
               PROVE  f[b - a + (k + 1)] = f[b - a] /\ p[b - a + (k + 1)] = <<>>
    OBVIOUS
  <2>1. PICK i : /\ i \in 0..(Len(t) - a - 1) /\ i = b - a + k /\ i + 1 = b - a + (k + 1)
                 /\ a + (i + 1) = b + (k + 1) /\ b + (k + 1) \in (b + 1)..c
    BY <1>1
  <2>2. f[i] = f[b - a] /\ p[i] = <<>>
    BY <1>1, <1>3, <2>1
  <2>3. t[a + (i + 1)] = NUL
    BY <2>1
  <2>4. p[i + 1] = <<>> /\ f[i + 1] = f[i]
    BY <2>1, <2>2, <2>3 DEF Cutting
  <2> QED
    BY <2>1, <2>2, <2>4
<1> HIDE DEF S
<1>4. c - b \in S
  <2>1. c - b \in Nat
    BY <1>1
  <2> QED
    BY <1>2, <1>3, <2>1, NatInd
<1>5. c - b \in Nat /\ b + (c - b) <= c /\ b - a + (c - b) = c - a
  BY <1>1
<1> QED
  BY <1>4, <1>5 DEF S

(* A sequence with one more at its end, behind another.                    *)
LEMMA ConcatAppend ==
  ASSUME NEW T, NEW s \in Seq(T), NEW u \in Seq(T), NEW x \in T
  PROVE  s \o Append(u, x) = Append(s \o u, x)
<1>1. Append(u, x) = u \o <<x>> /\ <<x>> \in Seq(T)
  BY AppendIsConcat
<1>2. s \o u \in Seq(T)
  BY ConcatProperties
<1>3. Append(s \o u, x) = (s \o u) \o <<x>>
  BY <1>2, AppendIsConcat
<1> QED
  BY <1>1, <1>3, ConcatAssociative

(* Behind a line end the cutting starts anew.                              *)
Fresh(f, p, t, a, b) ==
  /\ t \in Seq(InputByte) /\ a \in 0..Len(t) /\ Cutting(f, p, t, a)
  /\ b \in a..Len(t) /\ p[b - a] = <<>>

(* Piece by piece: what was cut before a line end, then what is cut behind.*)
LEMMA CutLater ==
  ASSUME NEW f, NEW p, NEW t, NEW a, NEW b, Fresh(f, p, t, a, b)
  PROVE  Cut(t, a) = f[b - a] \o Cut(t, b) /\ Piece(t, a, Len(t)) = Piece(t, b, Len(t))
<1>0. /\ t \in Seq(InputByte) /\ a \in 0..Len(t) /\ Cutting(f, p, t, a)
      /\ b \in a..Len(t) /\ p[b - a] = <<>>
  BY DEF Fresh
<1>1. /\ Len(t) \in Nat /\ a \in Nat /\ b \in Nat /\ a <= b /\ b <= Len(t) /\ b \in 0..Len(t)
  BY <1>0, LenProperties
<1>2. PICK g, q : Cutting(g, q, t, b)
  BY <1>0, <1>1, CutIs
<1>3. PICK n \in Nat, d \in Nat : n = Len(t) - b /\ d = b - a /\ d + n = Len(t) - a
  BY <1>1
<1>4. PICK l : l = f[d]
  OBVIOUS
<1>5. /\ g[0] = <<>> /\ q[0] = <<>>
      /\ \A k \in 0..n : g[k] \in Seq(Seq(InputByte)) /\ q[k] \in Seq(InputByte)
      /\ \A k \in 0..(n - 1) :
           IF t[b + (k + 1)] = NUL
           THEN /\ q[k + 1] = <<>>
                /\ g[k + 1] = IF q[k] = <<>> THEN g[k] ELSE Append(g[k], telnet_neg(q[k]))
           ELSE q[k + 1] = Append(q[k], t[b + (k + 1)]) /\ g[k + 1] = g[k]
      /\ Cut(t, b) = g[n] /\ Piece(t, b, Len(t)) = q[n]
  BY <1>2, <1>3 DEF Cutting
<1>6. /\ \A k \in 0..(d + n - 1) :
           IF t[a + (k + 1)] = NUL
           THEN /\ p[k + 1] = <<>>
                /\ f[k + 1] = IF p[k] = <<>> THEN f[k] ELSE Append(f[k], telnet_neg(p[k]))
           ELSE p[k + 1] = Append(p[k], t[a + (k + 1)]) /\ f[k + 1] = f[k]
      /\ Cut(t, a) = f[d + n] /\ Piece(t, a, Len(t)) = p[d + n]
      /\ l \in Seq(Seq(InputByte)) /\ p[d] = <<>>
  <2>1. d \in 0..(Len(t) - a)
    BY <1>1, <1>3
  <2> QED
    <3>1. \A k \in 0..(Len(t) - a - 1) :
            IF t[a + (k + 1)] = NUL
            THEN /\ p[k + 1] = <<>>
                 /\ f[k + 1] = IF p[k] = <<>> THEN f[k] ELSE Append(f[k], telnet_neg(p[k]))
            ELSE p[k + 1] = Append(p[k], t[a + (k + 1)]) /\ f[k + 1] = f[k]
      BY <1>0 DEF Cutting
    <3>2. Cut(t, a) = f[Len(t) - a] /\ Piece(t, a, Len(t)) = p[Len(t) - a]
      BY <1>0 DEF Cutting
    <3>3. f[d] \in Seq(Seq(InputByte))
      BY <1>0, <2>1 DEF Cutting
    <3>4. ASSUME NEW k \in 0..(d + n - 1)
          PROVE  IF t[a + (k + 1)] = NUL
                 THEN /\ p[k + 1] = <<>>
                      /\ f[k + 1] = IF p[k] = <<>> THEN f[k] ELSE Append(f[k], telnet_neg(p[k]))
                 ELSE p[k + 1] = Append(p[k], t[a + (k + 1)]) /\ f[k + 1] = f[k]
      <4>1. k \in 0..(Len(t) - a - 1)
        BY <1>3
      <4> QED
        BY <3>1, <4>1, Zenon
    <3>5. Cut(t, a) = f[d + n] /\ Piece(t, a, Len(t)) = p[d + n]
      BY <1>3, <3>2, Zenon
    <3>6. p[d] = <<>> /\ l \in Seq(Seq(InputByte))
      BY <1>0, <1>3, <1>4, <3>3
    <3> QED
      BY <3>4, <3>5, <3>6, Zenon
<1> DEFINE S == {k \in Nat : k <= n => f[d + k] = l \o g[k] /\ p[d + k] = q[k]}
<1>7. 0 \in S
  <2>1. d + 0 = d /\ l \o <<>> = l
    BY <1>3, <1>6, ConcatEmptySeq
  <2> QED
    BY <1>4, <1>5, <1>6, <2>1
<1>8. ASSUME NEW k \in Nat, k \in S PROVE k + 1 \in S
  <2> SUFFICES ASSUME k + 1 <= n PROVE f[d + (k + 1)] = l \o g[k + 1] /\ p[d + (k + 1)] = q[k + 1]
    OBVIOUS
  <2>1. /\ k \in 0..(n - 1) /\ k \in 0..n /\ d + k \in 0..(d + n - 1)
        /\ d + (k + 1) = (d + k) + 1 /\ a + ((d + k) + 1) = b + (k + 1)
    BY <1>1, <1>3
  <2>2. f[d + k] = l \o g[k] /\ p[d + k] = q[k]
    BY <1>8, <2>1
  <2>3. g[k] \in Seq(Seq(InputByte)) /\ q[k] \in Seq(InputByte)
    BY <1>5, <2>1
  <2>4. l \o Append(g[k], telnet_neg(q[k])) = Append(l \o g[k], telnet_neg(q[k]))
    <3>1. telnet_neg(q[k]) \in Seq(InputByte)
      BY <2>3, NegCounts
    <3>2. l \in Seq(Seq(InputByte))
      BY <1>6
    <3>3. PICK y : y = telnet_neg(q[k])
      OBVIOUS
    <3>4. PICK h : h = g[k]
      OBVIOUS
    <3>5. PICK T : T = Seq(InputByte)
      OBVIOUS
    <3>6. l \in Seq(T) /\ h \in Seq(T) /\ y \in T
      BY <2>3, <3>1, <3>2, <3>3, <3>4, <3>5, Zenon
    <3>7. l \o Append(h, y) = Append(l \o h, y)
      BY <3>6, ConcatAppend
    <3> QED
      BY <3>3, <3>4, <3>7, Zenon
  <2>5. PICK i : i = d + k
    OBVIOUS
  <2>6. IF t[b + (k + 1)] = NUL
        THEN /\ p[i + 1] = <<>>
             /\ f[i + 1] = IF p[i] = <<>> THEN f[i] ELSE Append(f[i], telnet_neg(p[i]))
        ELSE p[i + 1] = Append(p[i], t[b + (k + 1)]) /\ f[i + 1] = f[i]
    BY <1>6, <2>1, <2>5
  <2>7. IF t[b + (k + 1)] = NUL
        THEN /\ q[k + 1] = <<>>
             /\ g[k + 1] = IF q[k] = <<>> THEN g[k] ELSE Append(g[k], telnet_neg(q[k]))
        ELSE q[k + 1] = Append(q[k], t[b + (k + 1)]) /\ g[k + 1] = g[k]
    BY <1>5, <2>1
  <2>8. f[i] = l \o g[k] /\ p[i] = q[k] /\ d + (k + 1) = i + 1
    BY <2>1, <2>2, <2>5
  <2>9. f[i + 1] = l \o g[k + 1] /\ p[i + 1] = q[k + 1]
    <3>1. CASE t[b + (k + 1)] = NUL /\ q[k] = <<>>
      BY <2>6, <2>7, <2>8, <3>1
    <3>2. CASE t[b + (k + 1)] = NUL /\ q[k] # <<>>
      BY <2>4, <2>6, <2>7, <2>8, <3>2
    <3>3. CASE t[b + (k + 1)] # NUL
      BY <2>6, <2>7, <2>8, <3>3
    <3> QED
      BY <3>1, <3>2, <3>3
  <2> QED
    BY <2>8, <2>9
<1> HIDE DEF S
<1>9. n \in S
  BY <1>3, <1>7, <1>8, NatInd
<1>10. f[d + n] = l \o g[n] /\ p[d + n] = q[n]
  BY <1>3, <1>9 DEF S
<1> QED
  BY <1>3, <1>4, <1>5, <1>6, <1>10

(* Without a complete command there is no line.                            *)
LEMMA CutNone ==
  ASSUME NEW t \in Seq(InputByte), NEW a \in 0..Len(t), EndsOf(t, a) = {}
  PROVE  Cut(t, a) = <<>>
<1>1. PICK n \in Nat : n = Len(t) - a
  BY LenProperties
<1>2. PICK f, p : Cutting(f, p, t, a)
  BY CutIs
<1>3. /\ f[0] = <<>> /\ p[0] = <<>> /\ Cut(t, a) = f[n]
      /\ \A k \in 0..(n - 1) :
           IF t[a + (k + 1)] = NUL
           THEN /\ p[k + 1] = <<>>
                /\ f[k + 1] = IF p[k] = <<>> THEN f[k] ELSE Append(f[k], telnet_neg(p[k]))
           ELSE p[k + 1] = Append(p[k], t[a + (k + 1)]) /\ f[k + 1] = f[k]
  BY <1>1, <1>2 DEF Cutting
<1> DEFINE S == {k \in Nat : k <= n => f[k] = <<>> /\ (p[k] # <<>> => k > 0 /\ t[a + k] # NUL)}
<1>4. 0 \in S
  BY <1>3
<1>5. ASSUME NEW k \in Nat, k \in S PROVE k + 1 \in S
  <2> SUFFICES ASSUME k + 1 <= n
               PROVE  f[k + 1] = <<>> /\ (p[k + 1] # <<>> => k + 1 > 0 /\ t[a + (k + 1)] # NUL)
    OBVIOUS
  <2>1. k \in 0..(n - 1) /\ k + 1 > 0
    BY <1>1
  <2>2. f[k] = <<>> /\ (p[k] # <<>> => k > 0 /\ t[a + k] # NUL)
    BY <1>1, <1>5
  <2>3. CASE t[a + (k + 1)] = NUL
    <3>1. p[k] = <<>>
      <4> SUFFICES ASSUME p[k] # <<>> PROVE FALSE
        OBVIOUS
      <4>1. k > 0 /\ t[a + k] # NUL
        BY <2>2
      <4>2. PICK i : i = a + (k + 1) /\ i \in (a + 2)..Len(t) /\ i - 1 = a + k
        BY <1>1, <4>1, LenProperties
      <4>3. i \in EndsOf(t, a)
        BY <2>3, <4>1, <4>2 DEF EndsOf
      <4> QED
        BY <4>3
    <3> QED
      BY <1>3, <2>1, <2>2, <2>3, <3>1
  <2>4. CASE t[a + (k + 1)] # NUL
    BY <1>3, <2>1, <2>2, <2>4
  <2> QED
    BY <2>3, <2>4
<1> HIDE DEF S
<1>6. n \in S
  BY <1>1, <1>4, <1>5, NatInd
<1>7. f[n] = <<>>
  BY <1>1, <1>6 DEF S
<1> QED
  BY <1>3, <1>7
(* Lines are sequences of bytes, and so is the one being typed.            *)
LEMMA CutType ==
  ASSUME NEW t \in Seq(InputByte), NEW a \in 0..Len(t)
  PROVE  Cut(t, a) \in Seq(Seq(InputByte)) /\ Piece(t, a, Len(t)) \in Seq(InputByte)
<1>1. PICK n \in Nat : n = Len(t) - a
  BY LenProperties
<1>2. PICK f, p : Cutting(f, p, t, a)
  BY CutIs
<1>3. n \in 0..n
  BY <1>1
<1> QED
  BY <1>1, <1>2, <1>3 DEF Cutting

(* NULs in front of what is cut make no difference.                        *)
LEMMA CutSkip ==
  ASSUME NEW t \in Seq(InputByte), NEW b \in 0..Len(t), NEW c \in b..Len(t),
         \A k \in (b + 1)..c : t[k] = NUL
  PROVE  Cut(t, b) = Cut(t, c) /\ Piece(t, b, Len(t)) = Piece(t, c, Len(t))
<1>1. /\ b \in b..Len(t) /\ b - b = 0 /\ c \in 0..Len(t)
      /\ Len(t) \in Nat /\ b \in Nat /\ c \in Nat /\ b <= c /\ c <= Len(t)
  BY LenProperties
<1>2. PICK f, p : Cutting(f, p, t, b)
  BY CutIs
<1>3. f[0] = <<>> /\ p[0] = <<>>
  BY <1>2 DEF Cutting
<1>4. f[c - b] = f[b - b] /\ p[c - b] = <<>>
  <2>1. p[b - b] = <<>>
    BY <1>1, <1>3
  <2> QED
    BY <1>1, <1>2, <2>1, CutNuls
<1>5. f[c - b] = <<>>
  BY <1>1, <1>3, <1>4
<1>6. Cut(t, b) = f[c - b] \o Cut(t, c) /\ Piece(t, b, Len(t)) = Piece(t, c, Len(t))
  <2>1. Fresh(f, p, t, b, c)
    BY <1>2, <1>4 DEF Fresh
  <2>2. PICK l, m : l = b /\ m = c
    OBVIOUS
  <2>3. Fresh(f, p, t, l, m)
    BY <2>1, <2>2, Zenon
  <2>4. Cut(t, l) = f[m - l] \o Cut(t, m) /\ Piece(t, l, Len(t)) = Piece(t, m, Len(t))
    BY <2>3, CutLater
  <2> QED
    BY <2>2, <2>4, Zenon
<1>7. Cut(t, c) \in Seq(Seq(InputByte))
  BY <1>1, CutType
<1> QED
  BY <1>5, <1>6, <1>7, ConcatEmptySeq

(* The first command is the first line, what is left the others.           *)
LEMMA CutCommand ==
  ASSUME NEW t \in Seq(InputByte), NEW p \in 0..Len(t), NEW j, NEW c, NEW next,
         Taking(t, p, j, c, next), p + 1 <= Len(t), t[p + 1] # NUL, j <= Len(t)
  PROVE  /\ c \in Seq(InputByte)
         /\ Cut(t, p) = <<telnet_neg(c)>> \o Cut(next.text, next.start)
         /\ Piece(t, p, Len(t)) = Piece(next.text, next.start, Len(next.text))
         /\ next.text \in Seq(InputByte) /\ next.start \in 0..Len(next.text)
<1>1. /\ Len(t) \in Nat /\ p \in Nat /\ p + 1 <= Len(t) /\ p + 1 \in 1..(Len(t) + 1)
  BY LenProperties
<1>2. /\ j = FirstNul(t, p + 1) /\ c = SubSeq(t, p + 1, j - 1)
      /\ next = next_cmd_in_buf(t, p)
  BY DEF Taking
<1>3. /\ j \in (p + 1)..(Len(t) + 1) /\ t[j] = NUL
      /\ \A k \in (p + 1)..(j - 1) : t[k] # NUL
  BY <1>1, <1>2, FirstNulIs
<1>4. PICK m \in Nat : /\ m = j - 1 - p /\ m >= 1 /\ p + m = j - 1 /\ p + (m + 1) = j
                       /\ j \in Nat /\ j \in 1..(Len(t) + 1) /\ m + 1 <= Len(t) - p
  <2>1. j # p + 1
    BY <1>3
  <2>2. j - 1 - p \in Nat /\ j - 1 - p >= 1
    BY <1>1, <1>3, <2>1
  <2> QED
    BY <1>1, <1>3, <2>2
<1>5. \A k \in 1..Len(t) : t[k] \in InputByte
  BY LenProperties
<1>6. PICK f, q : Cutting(f, q, t, p)
  BY CutIs
<1>7. /\ f[0] = <<>> /\ q[0] = <<>>
      /\ \A k \in 0..m :
           IF t[p + (k + 1)] = NUL
           THEN /\ q[k + 1] = <<>>
                /\ f[k + 1] = IF q[k] = <<>> THEN f[k] ELSE Append(f[k], telnet_neg(q[k]))
           ELSE q[k + 1] = Append(q[k], t[p + (k + 1)]) /\ f[k + 1] = f[k]
  <2>1. \A k \in 0..m : k \in 0..(Len(t) - p - 1)
    BY <1>1, <1>4
  <2> QED
    BY <1>6, <2>1 DEF Cutting
<1> DEFINE S == {k \in Nat : k <= m => f[k] = <<>> /\ q[k] = SubSeq(t, p + 1, p + k)}
<1>8. 0 \in S
  <2>1. p + 1 \in Int /\ p + 0 \in Int /\ p + 0 < p + 1
    BY <1>1
  <2>2. SubSeq(t, p + 1, p + 0) = <<>>
    BY <2>1, SubSeqEmpty
  <2> QED
    BY <1>7, <2>2
<1>9. ASSUME NEW k \in Nat, k \in S PROVE k + 1 \in S
  <2> SUFFICES ASSUME k + 1 <= m
               PROVE  f[k + 1] = <<>> /\ q[k + 1] = SubSeq(t, p + 1, p + (k + 1))
    OBVIOUS
  <2>1. /\ k \in 0..m /\ p + (k + 1) \in (p + 1)..(j - 1) /\ p + 1 \in 1..Len(t)
        /\ p + (k + 1) \in 1..Len(t) /\ p + (k + 1) - 1 = p + k /\ p + (k + 1) \in (p + 1)..Len(t)
    BY <1>1, <1>4
  <2>2. t[p + (k + 1)] # NUL /\ t[p + (k + 1)] \in InputByte
    BY <1>3, <1>5, <2>1
  <2>3. f[k] = <<>> /\ q[k] = SubSeq(t, p + 1, p + k)
    BY <1>4, <1>9
  <2>4. f[k + 1] = f[k] /\ q[k + 1] = Append(q[k], t[p + (k + 1)])
    BY <1>7, <2>1, <2>2
  <2>5. PICK l : l = p + (k + 1)
    OBVIOUS
  <2>6. SubSeq(t, p + 1, l) = SubSeq(t, p + 1, l - 1) \o <<t[l]>>
    BY <2>1, <2>5, SubSeqRecursiveSecond
  <2>7. SubSeq(t, p + 1, p + k) \in Seq(InputByte)
    <3>1. p + k \in 0..Len(t) /\ \A h \in (p + 1)..(p + k) : t[h] \in InputByte
      BY <1>1, <1>4, <1>5, <2>1
    <3> QED
      BY <1>1, <1>4, <2>1, <3>1, SubSeqProperties
  <2>8. q[k] \in Seq(InputByte) /\ t[l] \in InputByte
    BY <2>2, <2>3, <2>5, <2>7
  <2>9. Append(q[k], t[l]) = q[k] \o <<t[l]>>
    BY <2>8, AppendIsConcat
  <2>10. l - 1 = p + k
    BY <2>1, <2>5
  <2>11. SubSeq(t, p + 1, l - 1) = SubSeq(t, p + 1, p + k)
    BY <2>10, Zenon
  <2>12. q[k + 1] = Append(q[k], t[l])
    BY <2>4, <2>5, Zenon
  <2>13. q[k + 1] = SubSeq(t, p + 1, l)
    BY <2>3, <2>6, <2>9, <2>11, <2>12, Zenon
  <2> QED
    BY <2>3, <2>4, <2>5, <2>13, Zenon
<1> HIDE DEF S
<1>10. f[m] = <<>> /\ q[m] = c
  <2>1. m \in S
    BY <1>4, <1>8, <1>9, NatInd
  <2>2. f[m] = <<>> /\ q[m] = SubSeq(t, p + 1, p + m)
    BY <1>4, <2>1 DEF S
  <2> QED
    BY <1>2, <1>4, <2>2
<1>11. c \in Seq(InputByte) /\ c # <<>>
  <2>1. \A k \in (p + 1)..(j - 1) : t[k] \in InputByte
    BY <1>1, <1>3, <1>5
  <2>2. /\ p + 1 \in 1..(Len(t) + 1) /\ j - 1 \in 0..Len(t)
        /\ p + 1 \in Int /\ j - 1 \in Int /\ p + 1 <= j - 1
    BY <1>1, <1>3, <1>4
  <2>3. c \in Seq(InputByte) /\ Len(c) = m
    <3>1. PICK l \in Int, h \in Int : l = p + 1 /\ h = j - 1 /\ l <= h /\ h - l + 1 = m
      BY <1>1, <1>4, <2>2
    <3>2. c = SubSeq(t, l, h) /\ \A k \in l..h : t[k] \in InputByte
      BY <1>2, <2>1, <3>1
    <3>3. SubSeq(t, l, h) \in Seq(InputByte) /\ Len(SubSeq(t, l, h)) = IF l <= h THEN h - l + 1 ELSE 0
      BY <3>2, SubSeqProperties
    <3> QED
      BY <3>1, <3>2, <3>3
  <2>4. Len(c) # 0
    BY <1>4, <2>3
  <2> QED
    BY <2>3, <2>4, EmptySeq
<1>12. f[m + 1] = <<telnet_neg(c)>> /\ q[m + 1] = <<>>
  <2>1. m \in 0..m /\ t[p + (m + 1)] = NUL
    BY <1>3, <1>4
  <2>2. q[m + 1] = <<>> /\ f[m + 1] = Append(f[m], telnet_neg(q[m]))
    BY <1>7, <1>10, <1>11, <2>1
  <2>3. Append(<<>>, telnet_neg(c)) = <<telnet_neg(c)>>
    OBVIOUS
  <2> QED
    BY <1>10, <2>2, <2>3
<1>13. /\ j \in p..Len(t) /\ j - p = m + 1 /\ j \in 0..Len(t)
  BY <1>1, <1>3, <1>4
<1>14. /\ Cut(t, p) = <<telnet_neg(c)>> \o Cut(t, j)
       /\ Piece(t, p, Len(t)) = Piece(t, j, Len(t))
  <2>1. f[j - p] = <<telnet_neg(c)>> /\ q[j - p] = <<>>
    BY <1>12, <1>13
  <2>2. j \in p..Len(t)
    BY <1>13
  <2>3. /\ Cut(t, p) = f[j - p] \o Cut(t, j)
        /\ Piece(t, p, Len(t)) = Piece(t, j, Len(t))
    <3>1. Fresh(f, q, t, p, j)
      BY <1>6, <2>1, <2>2 DEF Fresh
    <3> QED
      BY <3>1, CutLater
  <2> QED
    BY <2>1, <2>3, Zenon
<1>15. PICK i : i = SkipNuls(t, j)
  OBVIOUS
<1>16. /\ i \in j..(Len(t) + 1) /\ \A k \in j..(i - 1) : t[k] = NUL
       /\ i <= Len(t) => t[i] # NUL
  BY <1>4, <1>15, SkipNulsIs
<1>17. i - 1 \in j..Len(t) /\ i - 1 \in 0..Len(t) /\ i \in Nat /\ i # j
  <2>1. i # j
    BY <1>3, <1>13, <1>16
  <2> QED
    BY <1>1, <1>4, <1>16, <2>1
<1>18. Cut(t, j) = Cut(t, i - 1) /\ Piece(t, j, Len(t)) = Piece(t, i - 1, Len(t))
  <2>1. PICK l : l = i - 1
    OBVIOUS
  <2>2. l \in j..Len(t) /\ \A k \in (j + 1)..l : t[k] = NUL
    BY <1>4, <1>16, <1>17, <2>1
  <2> QED
    BY <1>13, <2>1, <2>2, CutSkip
<1>19. PICK a, b : a = [text |-> t, start |-> i - 1] /\ b = [text |-> <<>>, start |-> 0]
  OBVIOUS
<1>20. next = IF i <= Len(t) THEN a ELSE b
  BY <1>2, <1>15, <1>19, Zenon DEF next_cmd_in_buf
<1>21. /\ Cut(next.text, next.start) = Cut(t, i - 1)
       /\ Piece(next.text, next.start, Len(next.text)) = Piece(t, i - 1, Len(t))
       /\ next.text \in Seq(InputByte) /\ next.start \in 0..Len(next.text)
  <2>1. CASE i <= Len(t)
    <3>1. next.text = t /\ next.start = i - 1
      BY <1>19, <1>20, <2>1
    <3> QED
      BY <1>17, <3>1
  <2>2. CASE ~(i <= Len(t))
    <3>1. next.text = <<>> /\ next.start = 0
      BY <1>19, <1>20, <2>2
    <3>2. PICK u \in Seq(InputByte), z \in Nat : u = <<>> /\ z = 0
      <4>1. <<>> \in Seq(InputByte)
        BY EmptySeq
      <4> QED
        BY <4>1
    <3>6. Len(u) = 0 /\ z \in 0..Len(u)
      BY <3>2, EmptySeq
    <3>5. Cut(t, i - 1) = Cut(u, z) /\ Piece(t, i - 1, Len(t)) = Piece(u, z, Len(u))
      <4>1. PICK l \in 0..Len(t) : l = i - 1
        BY <1>17
      <4>2. Len(t) - l = Len(u) - z /\ Len(t) - l = 0
        BY <1>1, <1>16, <1>17, <2>2, <3>2, <3>6, <4>1
      <4>3. \A k \in 1..(Len(t) - l) : t[l + k] = u[z + k]
        BY <4>2
      <4>4. Cut(t, l) = Cut(u, z) /\ Piece(t, l, Len(t)) = Piece(u, z, Len(u))
        <5>1. SameRest(t, l, u, z)
          BY <3>2, <3>6, <4>1, <4>2, <4>3 DEF SameRest
        <5> QED
          BY <5>1, CutSame
      <4> QED
        BY <4>1, <4>4
    <3> QED
      BY <3>1, <3>2, <3>5
  <2> QED
    BY <2>1, <2>2
<1> QED
  BY <1>11, <1>14, <1>18, <1>21

-----------------------------------------------------------------------------
(* The lines in the buffer and the one being typed.                        *)
View(t, a) == [lines |-> Cut(t, a), rest |-> telnet_neg(Piece(t, a, Len(t)))]

(* One more byte in the buffer.                                            *)
LEMMA ViewAppend ==
  ASSUME NEW t \in Seq(InputByte), NEW a \in 0..Len(t), NEW b \in InputByte
  PROVE  LET u == Append(t, b)
             piece == Piece(t, a, Len(t))
             typed == telnet_neg(piece)
         IN  /\ u \in Seq(InputByte) /\ a \in 0..Len(u)
             /\ b # NUL => /\ View(u, a) = [lines |-> Cut(t, a), rest |-> Applied(typed, b)]
                           /\ Piece(u, a, Len(u)) # <<>>
             /\ b = NUL /\ piece # <<>> =>
                  View(u, a) = [lines |-> Append(Cut(t, a), typed), rest |-> <<>>]
<1>1. PICK u, piece, cut : u = Append(t, b) /\ piece = Piece(t, a, Len(t)) /\ cut = Cut(t, a)
  OBVIOUS
<1>2. /\ u \in Seq(InputByte) /\ Len(u) = Len(t) + 1 /\ a \in 0..Len(u)
      /\ piece \in Seq(InputByte)
      /\ Piece(u, a, Len(u)) = IF b = NUL THEN <<>> ELSE Append(piece, b)
      /\ Cut(u, a) = IF b = NUL /\ piece # <<>> THEN Append(cut, telnet_neg(piece)) ELSE cut
  BY <1>1, CutAppend
<1>3. ASSUME b # NUL
      PROVE  /\ View(u, a) = [lines |-> cut, rest |-> Applied(telnet_neg(piece), b)]
             /\ Piece(u, a, Len(u)) # <<>>
  <2>1. Piece(u, a, Len(u)) = Append(piece, b) /\ Cut(u, a) = cut
    BY <1>2, <1>3
  <2>2. telnet_neg(Append(piece, b)) = Applied(telnet_neg(piece), b)
    BY <1>2, NegAppend
  <2>3. Append(piece, b) # <<>>
    BY <1>2, CountAppend
  <2> QED
    BY <2>1, <2>2, <2>3, Zenon DEF View
<1>4. ASSUME b = NUL, piece # <<>>
      PROVE  View(u, a) = [lines |-> Append(cut, telnet_neg(piece)), rest |-> <<>>]
  <2>1. Piece(u, a, Len(u)) = <<>> /\ Cut(u, a) = Append(cut, telnet_neg(piece))
    BY <1>2, <1>4
  <2> QED
    BY <2>1, NegEmpty, Zenon DEF View
<1> QED
  BY <1>1, <1>2, <1>3, <1>4

(* A byte that arrives is a byte typed.                                    *)
LEMMA ViewGrows ==
  ASSUME NEW t \in Seq(InputByte), NEW a \in 0..Len(t), NEW b \in ReadByte, ~SINGLE_CHAR
  PROVE  LET u == t \o Copied(b)
         IN  /\ u \in Seq(InputByte) /\ a \in 0..Len(u)
             /\ View(u, a) = Lines!Typed(View(t, a), b)
<1>1. PICK u, piece, cut, typed :
        /\ u = t \o Copied(b) /\ piece = Piece(t, a, Len(t)) /\ cut = Cut(t, a)
        /\ typed = telnet_neg(piece)
  OBVIOUS
<1>2. View(t, a) = [lines |-> cut, rest |-> typed]
  BY <1>1 DEF View
<1>3. typed \in Seq(InputByte)
  BY <1>1, CutType, NegCounts
<1>4. /\ SP \in InputByte /\ BS \in InputByte /\ NUL \in InputByte /\ DEL \in InputByte
      /\ b \in Chars => b \in InputByte
  BY DEF InputByte
<1>5. /\ Chars \cap {LF, DEL, IAC, SP, BS, NUL} = {}
      /\ BS \notin {LF, DEL, SP, NUL} /\ SP \notin {LF, DEL, NUL} /\ NUL \notin {LF, DEL}
      /\ LF # DEL /\ IAC \notin {LF, DEL}
  BY InputAssumption
<1>6. CASE b = IAC
  <2>1. u = t
    <3>1. Copied(b) = <<>>
      BY <1>5, <1>6 DEF Copied
    <3> QED
      BY <1>1, <3>1, ConcatEmptySeq
  <2>2. Lines!Typed([lines |-> cut, rest |-> typed], b) = [lines |-> cut, rest |-> typed]
    BY <1>5, <1>6 DEF Lines!Typed
  <2> QED
    BY <1>1, <1>2, <2>1, <2>2
<1>7. CASE b = DEL \/ b \in Chars
  <2>1. u = Append(t, b) /\ b \in InputByte
    <3>1. Copied(b) = <<b>>
      BY <1>5, <1>7 DEF Copied
    <3>2. b \in InputByte
      BY <1>4, <1>7
    <3> QED
      BY <1>1, <3>1, <3>2, AppendIsConcat
  <2>2. b # NUL
    BY <1>5, <1>7
  <2>3. /\ u \in Seq(InputByte) /\ a \in 0..Len(u)
        /\ View(u, a) = [lines |-> cut, rest |-> Applied(typed, b)]
    BY <1>1, <2>1, <2>2, ViewAppend
  <2>4. Lines!Typed([lines |-> cut, rest |-> typed], b) = [lines |-> cut, rest |-> Applied(typed, b)]
    <3>1. CASE b = DEL
      <4>1. PICK s : s = [lines |-> cut, rest |-> typed]
        OBVIOUS
      <4>2. s.lines = cut /\ s.rest = typed
        BY <4>1
      <4>3. b # LF /\ b \notin Chars
        BY <1>5, <3>1
      <4>4. Lines!Typed(s, b) = [s EXCEPT !.rest = Lines!Erased(@)]
        BY <3>1, <4>3 DEF Lines!Typed
      <4>5. Lines!Erased(typed) = Applied(typed, b)
        BY <3>1 DEF Lines!Erased, Applied, Front, Lines!Front
      <4>6. [s EXCEPT !.rest = Lines!Erased(@)] = [lines |-> cut, rest |-> Lines!Erased(typed)]
        BY <4>1
      <4> QED
        BY <4>1, <4>4, <4>5, <4>6, Zenon
    <3>2. CASE b \in Chars
      <4>1. b # LF /\ b # DEL /\ b # BS
        BY <1>5, <3>2
      <4> QED
        BY <3>2, <4>1 DEF Lines!Typed, Applied
    <3> QED
      BY <1>7, <3>1, <3>2
  <2> QED
    BY <1>1, <1>2, <2>3, <2>4
<1>8. CASE b = LF
  <2>1. PICK u1, u2, u3 : u1 = Append(t, SP) /\ u2 = Append(u1, BS) /\ u3 = Append(u2, NUL)
    OBVIOUS
  <2>2. PICK p1, p2 : p1 = Piece(u1, a, Len(u1)) /\ p2 = Piece(u2, a, Len(u2))
    OBVIOUS
  <2>3. /\ u1 \in Seq(InputByte) /\ a \in 0..Len(u1)
        /\ View(u1, a) = [lines |-> cut, rest |-> Applied(typed, SP)]
    BY <1>1, <1>4, <1>5, <2>1, ViewAppend
  <2>4. Cut(u1, a) = cut /\ telnet_neg(p1) = Append(typed, SP)
    <3>1. Applied(typed, SP) = Append(typed, SP)
      BY <1>5 DEF Applied
    <3> QED
      BY <2>2, <2>3, <3>1 DEF View
  <2>5. /\ u2 \in Seq(InputByte) /\ a \in 0..Len(u2) /\ p2 # <<>>
        /\ View(u2, a) = [lines |-> cut, rest |-> Applied(Append(typed, SP), BS)]
    <3>1. PICK q, l, n : q = Piece(u1, a, Len(u1)) /\ l = Cut(u1, a) /\ n = telnet_neg(q)
      OBVIOUS
    <3>2. l = cut /\ n = Append(typed, SP)
      BY <2>2, <2>4, <3>1
    <3>3. BS # NUL /\ BS \in InputByte
      BY <1>4, <1>5
    <3>4. /\ u2 \in Seq(InputByte) /\ a \in 0..Len(u2) /\ p2 # <<>>
          /\ View(u2, a) = [lines |-> l, rest |-> Applied(n, BS)]
      BY <2>1, <2>2, <2>3, <3>1, <3>3, ViewAppend
    <3> QED
      BY <3>2, <3>4
  <2>6. Cut(u2, a) = cut /\ telnet_neg(p2) = typed
    <3>1. Append(typed, SP) # <<>> /\ Front(Append(typed, SP)) = typed
      BY <1>3, <1>4, CountAppend
    <3>2. Applied(Append(typed, SP), BS) = typed
      BY <3>1 DEF Applied
    <3> QED
      BY <2>2, <2>5, <3>2 DEF View
  <2>7. /\ u3 \in Seq(InputByte) /\ a \in 0..Len(u3)
        /\ View(u3, a) = [lines |-> Append(cut, typed), rest |-> <<>>]
    BY <1>4, <2>1, <2>2, <2>5, <2>6, ViewAppend
  <2>8. u = u3
    <3>1. Copied(b) = <<SP, BS, NUL>>
      <4>1. Copied(LF) = IF SINGLE_CHAR THEN <<LF>> ELSE <<SP, BS, NUL>>
        BY <1>5, Zenon DEF Copied
      <4> QED
        BY <1>8, <4>1
    <3>2. t \o <<SP, BS, NUL>> = Append(Append(Append(t, SP), BS), NUL)
      BY <1>4
    <3> QED
      BY <1>1, <2>1, <3>1, <3>2
  <2>9. Lines!Typed([lines |-> cut, rest |-> typed], b) = [lines |-> Append(cut, typed), rest |-> <<>>]
    <3>1. PICK s : s = [lines |-> cut, rest |-> typed]
      OBVIOUS
    <3>2. Lines!Typed(s, b) = [lines |-> Append(s.lines, s.rest), rest |-> <<>>]
      BY <1>5, <1>8, Zenon DEF Lines!Typed
    <3>3. s.lines = cut /\ s.rest = typed
      BY <3>1
    <3> QED
      BY <3>1, <3>2, <3>3, Zenon
  <2> QED
    BY <1>1, <1>2, <2>7, <2>8, <2>9
<1> QED
  BY <1>6, <1>7, <1>8 DEF ReadByte

-----------------------------------------------------------------------------
(* Typed() byte after byte.                                                *)
Typing(f, s, read) ==
  f = [n \in 0..Len(read) |-> IF n = 0 THEN s ELSE Lines!Typed(f[n - 1], read[n])]

(* It ends the same way however it is written.                             *)
LEMMA TypingOnce ==
  ASSUME NEW read, Len(read) \in Nat, NEW s, NEW f, Typing(f, s, read), NEW g, Typing(g, s, read)
  PROVE  f[Len(read)] = g[Len(read)]
<1>1. PICK n \in Nat : n = Len(read)
  OBVIOUS
<1> DEFINE S == {k \in Nat : k <= n => f[k] = g[k]}
<1>2. /\ \A k \in 0..n : f[k] = IF k = 0 THEN s ELSE Lines!Typed(f[k - 1], read[k])
      /\ \A k \in 0..n : g[k] = IF k = 0 THEN s ELSE Lines!Typed(g[k - 1], read[k])
  BY <1>1 DEF Typing
<1>3. 0 \in S
  <2>1. 0 \in 0..n
    BY <1>1
  <2> QED
    BY <1>2, <2>1
<1>4. ASSUME NEW k \in Nat, k \in S PROVE k + 1 \in S
  <2> SUFFICES ASSUME k + 1 <= n PROVE f[k + 1] = g[k + 1]
    OBVIOUS
  <2>1. k + 1 \in 0..n /\ k + 1 # 0 /\ (k + 1) - 1 = k
    BY <1>1
  <2>2. f[k] = g[k]
    BY <1>1, <1>4
  <2>3. f[k + 1] = Lines!Typed(f[k], read[k + 1]) /\ g[k + 1] = Lines!Typed(g[k], read[k + 1])
    BY <1>2, <2>1
  <2> QED
    BY <2>2, <2>3
<1> HIDE DEF S
<1>5. n \in S
  BY <1>1, <1>3, <1>4, NatInd
<1> QED
  BY <1>1, <1>5 DEF S

(* What is read behind x is typed after what is in x.                      *)
LEMMA ViewTyped ==
  ASSUME NEW read \in Seq(ReadByte), NEW x \in Seq(InputByte), NEW a \in 0..Len(x), ~SINGLE_CHAR
  PROVE  /\ \E f : Typing(f, View(x, a), read)
         /\ \A f : Typing(f, View(x, a), read) =>
                     f[Len(read)] = View(x \o copy_chars(read), a)
<1>1. PICK n \in Nat : n = Len(read)
  BY LenProperties
<1>2. PICK c : Copying(c, read)
  BY CopyIs
<1>3. /\ c[0] = <<>> /\ \A i \in 1..n : c[i] = c[i - 1] \o Copied(read[i])
      /\ copy_chars(read) = c[n]
  BY <1>1, <1>2 DEF Copying
<1>4. \A k \in 0..n : c[k] \in Seq(InputByte)
  BY <1>1, <1>2, CopyFits
<1>5. PICK g : g = [k \in 0..n |-> View(x \o c[k], a)]
  OBVIOUS
<1>6. \A k \in 0..n : g[k] = View(x \o c[k], a)
  BY <1>5
<1>7. g[0] = View(x, a)
  <2>1. 0 \in 0..n /\ x \o <<>> = x
    BY <1>1, ConcatEmptySeq
  <2> QED
    BY <1>3, <1>6, <2>1
<1>8. ASSUME NEW k \in 1..n PROVE g[k] = Lines!Typed(g[k - 1], read[k])
  <2>1. k \in 0..n /\ k - 1 \in 0..n /\ k \in 1..Len(read)
    BY <1>1
  <2>2. PICK y, b, z : y = x \o c[k - 1] /\ b = read[k] /\ z = Copied(b)
    OBVIOUS
  <2>3. /\ y \in Seq(InputByte) /\ b \in ReadByte /\ z \in Seq(InputByte)
        /\ c[k - 1] \in Seq(InputByte)
    <3>1. b \in ReadByte
      BY <2>1, <2>2, LenProperties
    <3>2. c[k - 1] \in Seq(InputByte)
      BY <1>4, <2>1
    <3> QED
      BY <2>2, <3>1, <3>2, ConcatProperties, CopiedIs
  <2>4. a \in 0..Len(y)
    <3>1. Len(y) = Len(x) + Len(c[k - 1]) /\ Len(x) \in Nat /\ Len(c[k - 1]) \in Nat
      BY <2>2, <2>3, ConcatProperties, LenProperties
    <3> QED
      BY <3>1
  <2>5. View(y \o z, a) = Lines!Typed(View(y, a), b)
    BY <2>2, <2>3, <2>4, ViewGrows
  <2>6. x \o c[k] = y \o z
    <3>1. c[k] = c[k - 1] \o z
      BY <1>3, <2>2
    <3>2. x \o (c[k - 1] \o z) = (x \o c[k - 1]) \o z
      <4>1. PICK l : l = c[k - 1] /\ l \in Seq(InputByte)
        BY <2>3
      <4>2. PICK T : T = InputByte
        OBVIOUS
      <4>3. x \in Seq(T) /\ l \in Seq(T) /\ z \in Seq(T)
        BY <2>3, <4>1, <4>2
      <4>4. (x \o l) \o z = x \o (l \o z)
        BY <4>3, ConcatAssociative, SMTT(40)
      <4> QED
        BY <4>1, <4>4, Zenon
    <3> QED
      BY <2>2, <3>1, <3>2
  <2>7. g[k] = View(y \o z, a) /\ g[k - 1] = View(y, a)
    BY <1>6, <2>1, <2>2, <2>6
  <2> QED
    BY <2>2, <2>5, <2>7
<1>9. Typing(g, View(x, a), read)
  <2>1. g = [k \in 0..n |-> g[k]]
    BY <1>5
  <2>2. ASSUME NEW k \in 0..n
        PROVE  g[k] = IF k = 0 THEN View(x, a) ELSE Lines!Typed(g[k - 1], read[k])
    <3>1. k # 0 => k \in 1..n
      BY <1>1
    <3> QED
      BY <1>7, <1>8, <3>1
  <2>3. g = [k \in 0..n |-> IF k = 0 THEN View(x, a) ELSE Lines!Typed(g[k - 1], read[k])]
    BY <2>1, <2>2
  <2> QED
    BY <1>1, <2>3 DEF Typing
<1>10. g[Len(read)] = View(x \o copy_chars(read), a)
  <2>1. n \in 0..n
    BY <1>1
  <2> QED
    BY <1>1, <1>3, <1>6, <2>1
<1>11. ASSUME NEW f, Typing(f, View(x, a), read)
       PROVE  f[Len(read)] = View(x \o copy_chars(read), a)
  <2>1. PICK s : s = View(x, a)
    OBVIOUS
  <2>2. Typing(f, s, read) /\ Typing(g, s, read) /\ Len(read) \in Nat
    BY <1>1, <1>9, <1>11, <2>1
  <2>3. f[Len(read)] = g[Len(read)]
    BY <2>2, TypingOnce
  <2> QED
    BY <1>10, <2>3
<1> QED
  BY <1>9, <1>11

(* Making room leaves the lines alone; the line being typed may be lost,   *)
(* but only if it is all there is.                                         *)
LEMMA RoomView ==
  ASSUME InBounds, EndsOf(text, text_start) = {}, NEW room, room = Room
  PROVE  LET cut == Cut(text, text_start)
             typed == telnet_neg(Piece(text, text_start, text_end))
         IN  View(room.text, room.start)
               \in {[lines |-> cut, rest |-> r] : r \in {typed, IF cut = <<>> THEN <<>> ELSE typed}}
<1>1. /\ text \in Seq(InputByte) /\ Len(text) \in Nat /\ text_start \in 0..Len(text)
      /\ text_start \in Nat /\ text_start + 1 \in 1..(Len(text) + 1) /\ text_end = Len(text)
  BY BufferIs
<1>2. PICK cut, typed, moved : /\ cut = Cut(text, text_start)
                              /\ typed = telnet_neg(Piece(text, text_start, text_end))
                              /\ moved = SubSeq(text, text_start + 1, text_end)
  OBVIOUS
<1>3. cut = <<>>
  BY <1>1, <1>2, CutNone
<1>4. View(text, text_start) = [lines |-> cut, rest |-> typed]
  BY <1>1, <1>2 DEF View
<1>5. View(moved, 0) = [lines |-> cut, rest |-> typed]
  <2>1. PICK q \in text_start..Len(text) : q = Len(text)
    BY <1>1
  <2>2. /\ moved \in Seq(InputByte) /\ Len(moved) = q - text_start
        /\ \A k \in 1..(q - text_start) : moved[k] = text[text_start + k]
    <3>1. moved = SubSeq(text, text_start + 1, q)
      BY <1>1, <1>2, <2>1
    <3> QED
      BY <1>1, <3>1, CountPart
  <2>3. PICK z \in 0..Len(moved) : z = 0
    BY <1>1, <2>1, <2>2
  <2>4. Len(text) - text_start = Len(moved) - z
    BY <1>1, <2>1, <2>2, <2>3
  <2>5. \A k \in 1..(Len(text) - text_start) : text[text_start + k] = moved[z + k]
    BY <1>1, <2>1, <2>2, <2>3
  <2>6. Cut(text, text_start) = Cut(moved, z)
        /\ Piece(text, text_start, Len(text)) = Piece(moved, z, Len(moved))
    <3>1. SameRest(text, text_start, moved, z)
      BY <1>1, <2>2, <2>3, <2>4, <2>5 DEF SameRest
    <3> QED
      BY <3>1, CutSame
  <2>7. cut = Cut(moved, 0) /\ typed = telnet_neg(Piece(moved, 0, Len(moved)))
    BY <1>1, <1>2, <2>3, <2>6, Zenon
  <2> QED
    BY <2>7, Zenon DEF View
<1>6. View(<<>>, 0) = [lines |-> cut, rest |-> <<>>]
  <2>1. Len(<<>>) = 0
    BY EmptySeq
  <2>2. View(<<>>, 0) = [lines |-> Cut(<<>>, 0), rest |-> telnet_neg(Piece(<<>>, 0, 0))]
    BY <2>1 DEF View
  <2> QED
    BY <1>3, <2>2, CutEmpty, NegEmpty
<1>7. PICK a, b, c : /\ a = [text |-> text, start |-> text_start, space |-> Space(text_end)]
                     /\ b = [text |-> moved, start |-> 0, space |-> Space(Len(moved))]
                     /\ c = [text |-> <<>>, start |-> 0, space |-> MAX_TEXT \div 3]
  OBVIOUS
<1>8. room \in {a, b, c}
  BY <1>2, <1>7 DEF Room
<1>9. View(room.text, room.start) \in {[lines |-> cut, rest |-> typed], [lines |-> cut, rest |-> <<>>]}
  <2>1. CASE room = a
    <3>1. room.text = text /\ room.start = text_start
      BY <1>7, <2>1
    <3> QED
      BY <1>4, <3>1
  <2>2. CASE room = b
    <3>1. room.text = moved /\ room.start = 0
      BY <1>7, <2>2
    <3> QED
      BY <1>5, <3>1
  <2>3. CASE room = c
    <3>1. room.text = <<>> /\ room.start = 0
      BY <1>7, <2>3
    <3> QED
      BY <1>6, <3>1
  <2> QED
    BY <1>8, <2>1, <2>2, <2>3
<1> QED
  BY <1>2, <1>3, <1>9

(* The first of a sequence and the others.                                 *)
LEMMA HeadTailOf ==
  ASSUME NEW T, NEW d \in T, NEW r \in Seq(T)
  PROVE  <<d>> \o r # <<>> /\ Head(<<d>> \o r) = d /\ Tail(<<d>> \o r) = r
<1>1. PICK u : u = <<d>> /\ u \in Seq(T) /\ Len(u) = 1 /\ u[1] = d
  <2>1. <<d>> \in Seq(T) /\ Len(<<d>>) = 1 /\ <<d>>[1] = d
    OBVIOUS
  <2> QED
    BY <2>1, Zenon
<1>2. PICK s : s = u \o r
  OBVIOUS
<1>3. /\ s \in Seq(T) /\ Len(s) = 1 + Len(r) /\ Len(r) \in Nat
      /\ \A i \in 1..Len(s) : s[i] = IF i <= 1 THEN u[i] ELSE r[i - 1]
  BY <1>1, <1>2, ConcatProperties, LenProperties
<1>4. s # <<>> /\ Head(s) = d
  <2>1. s[1] = d
    BY <1>1, <1>3
  <2> QED
    BY <1>3, <2>1, EmptySeq, HeadTailProperties
<1>5. Tail(s) = r
  <2>1. /\ Tail(s) \in Seq(T) /\ Len(Tail(s)) = Len(s) - 1
        /\ \A i \in 1..Len(Tail(s)) : Tail(s)[i] = s[i + 1]
    BY <1>3, <1>4, HeadTailProperties
  <2>2. Len(Tail(s)) = Len(r)
    BY <1>3, <2>1
  <2>3. \A i \in 1..Len(r) : Tail(s)[i] = r[i]
    BY <1>3, <2>1, <2>2
  <2> QED
    BY <2>1, <2>2, <2>3, SeqEqual
<1> QED
  BY <1>1, <1>2, <1>4, <1>5

(* Lines!Receive, from what Typed() makes of the bytes.                    *)
LEMMA ReceiveIs ==
  ASSUME NEW read, NEW typed, NEW before,
         typed \in {telnet_neg(Piece(text, text_start, text_end)),
                   IF Cut(text, text_start) = <<>> THEN <<>>
                   ELSE telnet_neg(Piece(text, text_start, text_end))},
         before = [lines |-> Cut(text, text_start), rest |-> typed],
         commands' = commands,
         \E f : Typing(f, before, read),
         \A f : Typing(f, before, read) => f[Len(read)] = View(text', text_start')
  PROVE  Lines!Receive(read)
<1>1. PICK g : g = CHOOSE h : h = [n \in 0..Len(read) |->
                                     IF n = 0 THEN before ELSE Lines!Typed(h[n - 1], read[n])]
  OBVIOUS
<1>2. Typing(g, before, read)
  <2>1. \E h : h = [n \in 0..Len(read) |-> IF n = 0 THEN before ELSE Lines!Typed(h[n - 1], read[n])]
    BY Zenon DEF Typing
  <2>2. g = [n \in 0..Len(read) |-> IF n = 0 THEN before ELSE Lines!Typed(g[n - 1], read[n])]
    BY <1>1, <2>1, Zenon
  <2> QED
    BY <2>2, Zenon DEF Typing
<1>3. g[Len(read)] = View(text', text_start')
  BY <1>2
<1>4. /\ Cut(text', text_start') = g[Len(read)].lines
      /\ telnet_neg(Piece(text', text_start', Len(text'))) = g[Len(read)].rest
  BY <1>3 DEF View
<1>5. /\ Cut(text, text_start)' = g[Len(read)].lines
      /\ telnet_neg(Piece(text, text_start, text_end))' = g[Len(read)].rest
  BY <1>4 DEF text_end
<1> QED
  BY <1>1, <1>5, Zenon DEF Lines!Receive

(* A read is the arrival of what was typed.                                *)
LEMMA ReceiveOk ==
  ASSUME InputInv, LineMode, NEW read \in session.reads, get_user_data(read)
  PROVE  Lines!Receive(read)
<1>1. InBounds /\ ~SINGLE_CHAR /\ ~CMD_IN_BUF /\ commands' = commands /\ read \in Seq(ReadByte)
  BY SessionFacts DEF InputInv, InputSound, InBounds, get_user_data
<1>2. PICK room, x, a : room = Room /\ x = room.text /\ a = room.start
  OBVIOUS
<1>3. x \in Seq(InputByte) /\ a \in 0..Len(x)
  BY <1>1, <1>2, RoomFits
<1>4. text' = x \o copy_chars(read) /\ text_start' = a
  BY <1>2 DEF get_user_data
<1>5. EndsOf(text, text_start) = {}
  BY <1>1, EndsAre DEF InputInv, InputSound, FlagMeansCommand
<1>6. PICK cut, partial : /\ cut = Cut(text, text_start)
                          /\ partial = telnet_neg(Piece(text, text_start, text_end))
  OBVIOUS
<1>7. View(x, a) \in {[lines |-> cut, rest |-> r] : r \in {partial, IF cut = <<>> THEN <<>> ELSE partial}}
  BY <1>1, <1>2, <1>5, <1>6, RoomView
<1>8. PICK typed \in {partial, IF cut = <<>> THEN <<>> ELSE partial} :
        View(x, a) = [lines |-> cut, rest |-> typed]
  BY <1>7
<1>9. /\ \E f : Typing(f, View(x, a), read)
      /\ \A f : Typing(f, View(x, a), read) => f[Len(read)] = View(text', text_start')
  BY <1>1, <1>3, <1>4, ViewTyped
<1> QED
  BY <1>1, <1>6, <1>8, <1>9, ReceiveIs

(* In line mode there is a command where the flag says so.                 *)
LEMMA FirstLine ==
  ASSUME InputInv, LineMode, CMD_IN_BUF, NEW f, f = first_cmd_in_buf
  PROVE  /\ f.cmd /\ f.text = text
         /\ f.start \in text_start..Len(text) /\ f.start + 1 <= Len(text)
         /\ text[f.start + 1] # NUL /\ FirstNul(text, f.start + 1) <= Len(text)
         /\ \A k \in (text_start + 1)..f.start : text[k] = NUL
<1>1. /\ text \in Seq(InputByte) /\ Len(text) \in Nat
      /\ text_start \in 0..Len(text) /\ text_start \in Nat
      /\ text_start + 1 \in 1..(Len(text) + 1) /\ text_end = Len(text)
  BY BufferIs DEF InputInv, InputSound
<1>2. PICK i : i = SkipNuls(text, text_start + 1)
  OBVIOUS
<1>3. /\ i \in (text_start + 1)..(Len(text) + 1) /\ (i <= Len(text) => text[i] # NUL)
      /\ \A k \in (text_start + 1)..(i - 1) : text[k] = NUL
  BY <1>1, <1>2, SkipNulsIs
<1>4. i <= Len(text) /\ FirstNul(text, i) <= Len(text)
  <2>1. Ends # {} /\ ~SINGLE_CHAR
    BY DEF InputInv, InputSound, FlagMeansCommand
  <2>2. cmd_in_buf(text, text_start)
    BY <1>1, <2>1, EndsAre, CommandFound
  <2> QED
    BY <1>2, <2>1, <2>2 DEF cmd_in_buf
<1>5. ~(i > text_end)
  BY <1>1, <1>3, <1>4
<1>6. PICK j : j = FirstNul(text, i)
  OBVIOUS
<1>7. j <= text_end
  BY <1>1, <1>4, <1>6
<1>8. ~(j > text_end)
  <2>1. j \in i..(Len(text) + 1)
    <3>1. i \in 1..(Len(text) + 1)
      BY <1>1, <1>3
    <3> QED
      BY <1>1, <1>6, <3>1, FirstNulIs
  <2> QED
    BY <1>1, <1>3, <1>7, <2>1
<1>9. f = [cmd |-> TRUE, text |-> text, start |-> i - 1]
  BY <1>1, <1>2, <1>4, <1>5, <1>6, <1>7, <1>8 DEF first_cmd_in_buf
<1>10. f.cmd /\ f.text = text /\ f.start = i - 1 /\ (i - 1) + 1 = i
  BY <1>1, <1>3, <1>9
<1>11. i - 1 \in text_start..Len(text)
  BY <1>1, <1>3
<1> QED
  BY <1>3, <1>4, <1>10, <1>11

(* A command taken is the first line taken.                                *)
LEMMA TakeLine ==
  ASSUME InputInv, LineMode, get_user_command
  PROVE  Lines!Take
<1>1. PICK f : f = first_cmd_in_buf
  OBVIOUS
<1>2. PICK p : p = f.start
  OBVIOUS
<1>3. CMD_IN_BUF
  BY DEF get_user_command
<1>4. /\ f.cmd /\ f.text = text
      /\ p \in text_start..Len(text) /\ p + 1 <= Len(text)
      /\ text[p + 1] # NUL /\ FirstNul(text, p + 1) <= Len(text)
      /\ \A k \in (text_start + 1)..p : text[k] = NUL
  BY <1>1, <1>2, <1>3, FirstLine
<1>5. PICK j, c, next : Taking(text, p, j, c, next)
  BY DEF Taking
<1>6. /\ commands' = Append(commands, telnet_neg(c))
      /\ text' = next.text /\ text_start' = next.start
  BY <1>1, <1>2, <1>4, <1>5 DEF get_user_command, Taking
<1>7. text \in Seq(InputByte) /\ text_start \in 0..Len(text) /\ text_end = Len(text)
  BY BufferIs DEF InputInv, InputSound
<1>8. p \in 0..Len(text) /\ j <= Len(text)
  BY <1>4, <1>5, <1>7 DEF Taking
<1>9. /\ c \in Seq(InputByte)
      /\ Cut(text, p) = <<telnet_neg(c)>> \o Cut(next.text, next.start)
      /\ Piece(text, p, Len(text)) = Piece(next.text, next.start, Len(next.text))
      /\ next.text \in Seq(InputByte) /\ next.start \in 0..Len(next.text)
  BY <1>4, <1>5, <1>7, <1>8, CutCommand
<1>10. Cut(text, text_start) = Cut(text, p) /\ Piece(text, text_start, Len(text)) = Piece(text, p, Len(text))
  BY <1>4, <1>7, CutSkip
<1>11. PICK d, r : d = telnet_neg(c) /\ r = Cut(next.text, next.start)
  OBVIOUS
<1>12. d \in Seq(InputByte) /\ r \in Seq(Seq(InputByte))
  BY <1>9, <1>11, NegCounts, CutType
<1>13. <<d>> \o r # <<>> /\ Head(<<d>> \o r) = d /\ Tail(<<d>> \o r) = r
  BY <1>12, HeadTailOf
<1>14. Cut(text, text_start) = <<d>> \o r
  BY <1>9, <1>10, <1>11
<1>15. Cut(text, text_start)' = r
  BY <1>6, <1>11
<1>16. telnet_neg(Piece(text, text_start, text_end))' = telnet_neg(Piece(text, text_start, text_end))
  <2>1. telnet_neg(Piece(text', text_start', Len(text'))) = telnet_neg(Piece(text, text_start, Len(text)))
    BY <1>6, <1>9, <1>10
  <2> QED
    BY <2>1 DEF text_end
<1> QED
  BY <1>6, <1>11, <1>13, <1>14, <1>15, <1>16 DEF Lines!Take

-----------------------------------------------------------------------------
(* For every size of the buffer, every session and all that may be typed:  *)
(* the input buffer never overflows, and in line mode CMD_IN_BUF is set    *)
(* exactly when a complete command is waiting.                             *)
THEOREM InputsSound == InputSpec => []InputSound
<1>1. InputInit => InputInv
  BY InputStarts
<1>2. InputInv /\ [InputNext]_inputVars => InputInv'
  BY InputNextKeeps
<1>3. InputInv => InputSound
  BY DEF InputInv
<1> QED
  BY <1>1, <1>2, <1>3, PTL DEF InputSpec

(* Whatever get_char() does to commands typed ahead, and however the buffer*)
(* is moved: the characters handed over and those in the buffer are all    *)
(* that were typed and not dropped.                                        *)
THEOREM CharsNotLost == InputSpec => []CharsConserved
<1>1. InputInit => InputInv
  BY InputStarts
<1>2. InputInv /\ [InputNext]_inputVars => InputInv'
  BY InputNextKeeps
<1>3. InputInv => CharsConserved
  BY InputInvCounts
<1> QED
  BY <1>1, <1>2, <1>3, PTL DEF InputSpec

(* In line mode each step of the input buffer is a step of the abstract    *)
(* line queue or leaves it alone: what is typed is handed over line by     *)
(* line, in order, each line once.                                         *)
THEOREM LinesHandedOver == InputSpec => LinesImplemented
<1>1. InputInit => Lines!Init
  <2> SUFFICES ASSUME InputInit PROVE Lines!Init
    OBVIOUS
  <2>1. text = <<>> /\ text_start = 0 /\ commands = <<>> /\ text_end = 0
    BY EmptySeq DEF InputInit, text_end
  <2> QED
    BY <2>1, CutEmpty, NegEmpty DEF Lines!Init
<1>2. InputInv /\ [InputNext]_inputVars
        => [LineMode => (\E read \in session.reads : Lines!Receive(read)) \/ Lines!Take]_Lines!vars
  <2> SUFFICES ASSUME InputInv, [InputNext]_inputVars, LineMode
               PROVE  (\E read \in session.reads : Lines!Receive(read)) \/ Lines!Take
                      \/ UNCHANGED Lines!vars
    OBVIOUS
  <2>1. CASE UNCHANGED inputVars
    BY <2>1 DEF inputVars, Lines!vars, text_end
  <2>2. ASSUME NEW read \in session.reads, get_user_data(read)
        PROVE  \E r \in session.reads : Lines!Receive(r)
    BY <2>2, ReceiveOk
  <2>3. ASSUME NEW read \in session.reads, get_ascii_data(read) PROVE FALSE
    BY <2>3 DEF LineMode, get_ascii_data, connection_type
  <2>4. CASE get_user_command
    BY <2>4, TakeLine
  <2>5. CASE get_char
    BY <2>5 DEF get_char, LineMode
  <2> QED
    BY <2>1, <2>2, <2>3, <2>4, <2>5 DEF InputNext
<1>3. InputInit => InputInv
  BY InputStarts
<1>4. InputInv /\ [InputNext]_inputVars => InputInv'
  BY InputNextKeeps
<1> QED
  BY <1>1, <1>2, <1>3, <1>4, PTL DEF InputSpec, LinesImplemented
=============================================================================
