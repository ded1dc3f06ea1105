---------------------------- MODULE OutputQueue ----------------------------
(***************************************************************************)
(* What the output side of a connection promises: a bounded first-in       *)
(* first-out queue of bytes.  A line end enters it as CR LF or not at all, *)
(* and what the network takes is always the oldest part of the queue.      *)
(***************************************************************************)
EXTENDS Integers, Sequences

CONSTANTS SIZE, Text, NL, CR

VARIABLES
  queue,   \* the bytes accepted and not yet sent
  sent     \* the bytes the network has taken

vars == <<queue, sent>>

Init == queue = <<>> /\ sent = <<>>

Enqueue(c) ==
  /\ queue' = IF c = NL THEN queue \o <<CR, NL>> ELSE Append(queue, c)
  /\ Len(queue') <= SIZE
  /\ sent' = sent

Send(n) ==
  /\ sent' = sent \o SubSeq(queue, 1, n)
  /\ queue' = SubSeq(queue, n + 1, Len(queue))

Next ==
  \/ \E c \in Text \cup {NL} : Enqueue(c)
  \/ \E n \in 1..Len(queue) : Send(n)

Spec == Init /\ [][Next]_vars
=============================================================================
