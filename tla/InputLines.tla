----------------------------- MODULE InputLines -----------------------------
(***************************************************************************)
(* What the input side of a telnet connection promises: what is typed is   *)
(* cut into lines, an erase character takes back the character before it   *)
(* in its line, and the lines are handed to the mudlib one by one, each    *)
(* once, in the order they were typed.  Only a line that is still being    *)
(* typed may be thrown away, when the buffer is full.                      *)
(***************************************************************************)
EXTENDS Integers, Sequences, SequencesExt

CONSTANTS
  Chars,       \* ordinary characters
  NL, DEL      \* the line end and the erase character

VARIABLES
  lines,       \* complete lines not yet handed over
  partial,     \* the line being typed
  commands     \* the lines handed over, oldest first

vars == <<lines, partial, commands>>

Init == lines = <<>> /\ partial = <<>> /\ commands = <<>>

Erased(s) == IF s = <<>> THEN s ELSE Front(s)

(* Lines and rest after one more byte.                                     *)
Typed(s, b) ==
  CASE b = NL -> [lines |-> Append(s.lines, s.rest), rest |-> <<>>]
    [] b = DEL -> [s EXCEPT !.rest = Erased(@)]
    [] b \in Chars -> [s EXCEPT !.rest = Append(@, b)]
    [] OTHER -> s

Receive(bytes) ==
  /\ commands' = commands
  /\ \E rest \in {partial, IF lines = <<>> THEN <<>> ELSE partial} :
     \E before \in {[lines |-> lines, rest |-> rest]} :
       LET upto[n \in 0..Len(bytes)] == IF n = 0 THEN before ELSE Typed(upto[n - 1], bytes[n])
           s == upto[Len(bytes)]
       IN  lines' = s.lines /\ partial' = s.rest

Take ==
  /\ lines # <<>>
  /\ commands' = Append(commands, Head(lines))
  /\ lines' = Tail(lines) /\ partial' = partial
=============================================================================
