----------------------------- MODULE MCTerminal -----------------------------
(***************************************************************************)
(* Both directions of a connection.  They share no state but NET_DEAD and  *)
(* are checked side by side: part says which one a behaviour is about.     *)
(***************************************************************************)
EXTENDS OutputBuffer, InputBuffer

CONSTANTS x, y

VARIABLE part

(* Line ends at the front, in the middle and at the end, and a message     *)
(* longer than the buffer.                                                 *)
MCMessages == {<<x, NL>>, <<NL, y>>, <<x, y, NL, x>>}

Xs(n) == [i \in 1..n |-> x]

(* Line mode: lines that end, go on and are empty, several in one read,    *)
(* erased characters, and reads that fill the buffer with text or with     *)
(* line ends.                                                              *)
Typing ==
  [type |-> "telnet", getChars |-> FALSE, snoopErrors |-> FALSE, bytes |-> 11,
   reads |-> {<<x>>, Xs(4), <<LF>>, <<LF, LF, LF, LF, LF>>, <<x, LF, x>>, <<DEL, IAC, x>>}]

(* A line longer than the buffer.                                          *)
Rambling == [Typing EXCEPT !.bytes = 14, !.reads = {Xs(1), Xs(5), <<LF>>}]

(* get_char() in the middle; no erase characters, so that characters can   *)
(* be counted.                                                             *)
Playing(kind) ==
  [type |-> kind, getChars |-> TRUE, snoopErrors |-> TRUE, bytes |-> 7,
   reads |-> {<<x>>, <<LF>>, <<x, LF, x>>, <<LF, x, LF>>}]

MCSessions == {Typing, Rambling, Playing("telnet"), Playing("ascii")}
-----------------------------------------------------------------------------
MCInit ==
  /\ Init /\ InputInit
  /\ \/ part = "input"
     \/ part = "output" /\ session = Typing

MCNext ==
  \/ part = "output" /\ Next /\ UNCHANGED <<part, inputVars>>
  \/ part = "input" /\ InputNext /\ UNCHANGED <<part, vars>>

(* The fairness of OutputBuffer.                                           *)
MCSpec ==
  /\ MCInit /\ [][MCNext]_<<part, vars, inputVars>>
  /\ WF_vars(NextByte \/ MakeRoom \/ Put \/ FlushReturns) /\ WF_vars(WriteReady) /\ SF_vars(Send)
=============================================================================
