---------------------------- MODULE OutputBuffer ----------------------------
(***************************************************************************)
(* The output buffer of an interactive_t (src/src/comm.c): add_message()   *)
(* and add_vmessage() write a message byte by byte into the ring           *)
(* message_buf[], calling flush_message() when the ring is full, and the   *)
(* backend flushes it when select() says that the socket takes data.  What *)
(* send() does is up to the network: it takes part of what it is given, or *)
(* blocks, or fails.  flush_message() runs with nothing in between, but a  *)
(* step of the model is one send(), so that each outcome is seen.          *)
(***************************************************************************)
EXTENDS Integers, Sequences

CONSTANTS
  SIZE,          \* MESSAGE_BUF_SIZE
  Text, NL, CR,  \* ordinary bytes, the line feed, the carriage return
  Messages,      \* the messages add_message() is called with
  MaxMessages    \* bound on the number of calls

ASSUME BufferAssumption ==
  /\ SIZE \in Nat /\ SIZE >= 2
  /\ NL \notin Text /\ CR \notin Text /\ NL # CR
  /\ \A m \in Messages : m \in Seq(Text \cup {NL})
  /\ MaxMessages \in Nat

VARIABLES
  message_buf, message_producer, message_consumer, message_length,
  net_dead,      \* NET_DEAD is set
  rest,          \* what add_message() has still to write
  pc,            \* "idle"; "char", "room", "put" in add_message(); "flush"
  back,          \* where flush_message() returns to
  formatted,     \* the message came by add_vmessage(), which flushes at the end
  calls,         \* the number of messages so far
  sent           \* history: what the network has taken

ring == <<message_buf, message_producer, message_consumer, message_length>>
vars == <<message_buf, message_producer, message_consumer, message_length, net_dead, rest, pc, back, formatted,
          calls, sent>>

Byte == Text \cup {NL, CR}
Index == 0..(SIZE - 1)

(* The indices stay in the buffer and the length says what is in it.       *)
TypeOK ==
  /\ message_buf \in [Index -> Byte]
  /\ message_producer \in Index /\ message_consumer \in Index
  /\ message_length \in 0..SIZE
  /\ net_dead \in BOOLEAN
  /\ rest \in Seq(Text \cup {NL})
  /\ pc \in {"idle", "char", "room", "put", "flush"}
  /\ back \in {"idle", "room", "put"} /\ formatted \in BOOLEAN
  /\ calls \in Nat
  /\ sent \in Seq(Byte)

Init ==
  /\ message_buf \in [Index -> {CR}]
  /\ message_producer = 0 /\ message_consumer = 0 /\ message_length = 0
  /\ net_dead = FALSE /\ rest = <<>> /\ pc = "idle" /\ back = "idle"
  /\ formatted = FALSE /\ calls = 0 /\ sent = <<>>
-----------------------------------------------------------------------------

Mod(n) == n % SIZE

(* A dead connection is not written to.                                    *)
Message(m, vararg) ==
  /\ pc = "idle" /\ ~net_dead /\ calls < MaxMessages
  /\ rest' = m /\ formatted' = vararg /\ pc' = "char" /\ calls' = calls + 1
  /\ UNCHANGED <<ring, net_dead, back, sent>>

add_message(m)  == Message(m, FALSE)
add_vmessage(m) == Message(m, TRUE)

(* The loop is left, at the end of the message or because there is no room *)
(* for the rest of it: add_vmessage() flushes.                             *)
MessageDone ==
  /\ rest' = <<>>
  /\ IF formatted /\ message_length # 0
       THEN pc' = "flush" /\ back' = "idle"
       ELSE pc' = "idle" /\ back' = back

(* The loop's head: a full buffer is flushed before the next byte.         *)
NextByte ==
  /\ pc = "char"
  /\ \/ rest = <<>> /\ MessageDone
     \/ /\ rest # <<>> /\ message_length = SIZE
        /\ pc' = "flush" /\ back' = "room" /\ rest' = rest
     \/ /\ rest # <<>> /\ message_length # SIZE
        /\ pc' = "room" /\ UNCHANGED <<back, rest>>
  /\ UNCHANGED <<ring, net_dead, formatted, calls, sent>>

(* A line end takes two bytes and the buffer has one.                      *)
NeedsTwo == Head(rest) = NL /\ message_length = SIZE - 1

(* Still full: the rest of the message is dropped.  Otherwise room for a   *)
(* second byte is made if needed.                                          *)
MakeRoom ==
  /\ pc = "room"
  /\ \/ message_length = SIZE /\ MessageDone
     \/ /\ message_length # SIZE /\ NeedsTwo
        /\ pc' = "flush" /\ back' = "put" /\ rest' = rest
     \/ /\ message_length # SIZE /\ ~NeedsTwo /\ pc' = "put" /\ UNCHANGED <<rest, back>>
  /\ UNCHANGED <<ring, net_dead, formatted, calls, sent>>

(* The byte, a line end with a carriage return in front, goes into the     *)
(* ring; if there is still no room for both, the rest is dropped.          *)
Put ==
  /\ pc = "put"
  /\ IF NeedsTwo
       THEN MessageDone /\ UNCHANGED ring
       ELSE LET p == message_producer
            IN  /\ IF Head(rest) = NL
                     THEN /\ message_buf' = [message_buf EXCEPT ![p] = CR, ![Mod(p + 1)] = NL]
                          /\ message_producer' = Mod(Mod(p + 1) + 1)
                          /\ message_length' = message_length + 2
                     ELSE /\ message_buf' = [message_buf EXCEPT ![p] = Head(rest)]
                          /\ message_producer' = Mod(p + 1)
                          /\ message_length' = message_length + 1
                /\ rest' = Tail(rest) /\ pc' = "char"
                /\ UNCHANGED <<message_consumer, back>>
  /\ UNCHANGED <<net_dead, formatted, calls, sent>>

(* Mutant of WriteReady: process_io() waits for a full buffer.             *)
WriteWhenFull ==
  /\ pc = "idle" /\ message_length = SIZE /\ ~net_dead
  /\ pc' = "flush" /\ back' = "idle"
  /\ UNCHANGED <<ring, net_dead, rest, formatted, calls, sent>>

(* process_io(): the socket of a connection with output is writable.       *)
WriteReady ==
  /\ pc = "idle" /\ message_length # 0 /\ ~net_dead
  /\ pc' = "flush" /\ back' = "idle"
  /\ UNCHANGED <<ring, net_dead, rest, formatted, calls, sent>>

(* flush_message() sends the bytes up to the producer, or up to the end of *)
(* the buffer if they wrap around.                                         *)
Segment == IF message_consumer < message_producer
           THEN message_producer - message_consumer
           ELSE SIZE - message_consumer

(* Mutant of SendTakes: the length goes down by the number of calls of     *)
(* send(), not of bytes.                                                   *)
SendForgets(n) ==
  /\ pc = "flush" /\ message_length # 0
  /\ sent' = sent \o [i \in 1..n |-> message_buf[message_consumer + i - 1]]
  /\ message_consumer' = Mod(message_consumer + n)
  /\ message_length' = message_length - 1
  /\ UNCHANGED <<message_buf, message_producer, net_dead, rest, pc, back, formatted, calls>>

(* send() takes n bytes.                                                   *)
SendTakes(n) ==
  /\ pc = "flush" /\ message_length # 0
  /\ sent' = sent \o [i \in 1..n |-> message_buf[message_consumer + i - 1]]
  /\ message_consumer' = Mod(message_consumer + n)
  /\ message_length' = message_length - n
  /\ UNCHANGED <<message_buf, message_producer, net_dead, rest, pc, back, formatted, calls>>

(* Everything is sent, or send() would block: flush_message() returns 1.   *)
FlushReturns ==
  /\ pc = "flush"
  /\ pc' = back
  /\ UNCHANGED <<ring, net_dead, rest, back, formatted, calls, sent>>

(* send() fails: the connection is dead, and add_message() gives up.       *)
SendFails ==
  /\ pc = "flush" /\ message_length # 0
  /\ net_dead' = TRUE /\ pc' = "idle" /\ rest' = <<>>
  /\ UNCHANGED <<ring, back, formatted, calls, sent>>

Send == \E n \in 1..Segment : SendTakes(n)

Next ==
  \/ \E m \in Messages : add_message(m) \/ add_vmessage(m)
  \/ NextByte \/ MakeRoom \/ Put \/ WriteReady \/ Send \/ FlushReturns \/ SendFails

Spec == Init /\ [][Next]_vars

(* The driver's own steps are taken; select() reports a socket that takes  *)
(* data again and again, and such a socket then takes some.                *)
FairSpec ==
  /\ Spec
  /\ WF_vars(NextByte \/ MakeRoom \/ Put \/ FlushReturns) /\ WF_vars(WriteReady) /\ SF_vars(Send)
-----------------------------------------------------------------------------
(* The content of the ring, oldest byte first.                             *)
Content == [i \in 1..message_length |-> message_buf[(message_consumer + i - 1) % SIZE]]

Queue == INSTANCE OutputQueue WITH queue <- Content

(* The ring buffer is a bounded first-in first-out queue: nothing is lost, *)
(* repeated or reordered when the indices wrap around, when send() takes   *)
(* part of the data, or when the buffer is full in mid-message.            *)
QueueImplemented == Queue!Spec

(* Producer, consumer and length agree.                                    *)
RingConsistent == message_producer = (message_consumer + message_length) % SIZE

(* The byte stream a client sees has a line feed exactly after each        *)
(* carriage return, even if the message is cut off because the buffer is   *)
(* full and the client does not read.                                      *)
LineEndsWhole ==
  LET stream == sent \o Content
  IN  \A i \in 1..Len(stream) :
        /\ stream[i] = CR => i < Len(stream) /\ stream[i + 1] = NL
        /\ stream[i] = NL => i > 1 /\ stream[i - 1] = CR

(* What a client sees is whole: producer, consumer and length of the ring  *)
(* agree, and a line feed follows each carriage return and nothing else,   *)
(* wherever the ring wraps and whatever is dropped.                        *)
OutputWhole == TypeOK /\ RingConsistent /\ LineEndsWhole

(* A client that reads gets everything that was accepted, unless the       *)
(* connection dies.                                                        *)
OutputDelivered == message_length # 0 ~> (message_length = 0 \/ net_dead)
=============================================================================
