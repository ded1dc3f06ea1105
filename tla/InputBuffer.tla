---------------------------- MODULE InputBuffer ----------------------------
(***************************************************************************)
(* The input buffer of a connection (src/src/comm.c).  get_user_data()     *)
(* reads into text[]; on a telnet port copy_chars() turns a line end into  *)
(* blank, backspace, NUL; get_user_command() takes the commands, which are *)
(* NUL terminated, out again and telnet_neg() applies the backspaces.      *)
(* text is the part of the buffer up to text_end; the byte behind it is a  *)
(* NUL whenever it is read.                                                *)
(***************************************************************************)
EXTENDS Integers, Sequences, SequencesExt, FiniteSets

CONSTANTS
  MAX_TEXT,
  Sessions,      \* what connections are like: records of
                 \*   type         the kind of port, "telnet" or "ascii"
                 \*   getChars     whether LPC code calls get_char()
                 \*   snoopErrors  whether the snooper's receive_snoop() may fail
                 \*   reads        the byte sequences a read may find
                 \*   bytes        bound on the number of bytes read
  Chars,         \* ordinary characters
  LF, DEL, IAC,  \* line end, erase, a byte of a telnet negotiation
  SP, BS, NUL    \* what a line end becomes

ASSUME InputAssumption ==
  /\ MAX_TEXT \in Nat /\ MAX_TEXT >= 16 /\ MAX_TEXT % 3 # 0
  /\ \A s \in Sessions :
       /\ s.type \in {"telnet", "ascii"} /\ s.bytes \in Nat
       /\ s.getChars \in BOOLEAN /\ s.snoopErrors \in BOOLEAN
       /\ s.reads \subseteq Seq(Chars \cup {LF, DEL, IAC})
  /\ Chars \cap {LF, DEL, IAC, SP, BS, NUL} = {}
  /\ BS \notin {LF, DEL, SP, NUL} /\ SP \notin {LF, DEL, NUL} /\ NUL \notin {LF, DEL}
  /\ LF # DEL /\ IAC \notin {LF, DEL}

VARIABLES
  session,       \* which of the Sessions this connection is
  text, text_start,
  CMD_IN_BUF, SINGLE_CHAR,
  commands,      \* history: the commands handed to the mudlib
  bytes,         \* history: how many bytes were read,
  kept           \* and how many characters of them were not dropped

history == <<bytes, kept>>
inputVars == <<session, text, text_start, CMD_IN_BUF, SINGLE_CHAR, commands, bytes, kept>>

connection_type == session.type
text_end == Len(text)
InputByte == Chars \cup {LF, DEL, SP, BS, NUL}

(* The buffer has room for the NUL behind its end, whatever the read       *)
(* turned into: a line end takes three bytes, hence the division by 3 in   *)
(* get_user_data().                                                        *)
InBounds ==
  /\ session \in Sessions
  /\ text \in Seq(InputByte) /\ text_end <= MAX_TEXT - 1
  /\ text_start \in 0..text_end
  /\ CMD_IN_BUF \in BOOLEAN /\ SINGLE_CHAR \in BOOLEAN
  /\ bytes \in Nat /\ kept \in Nat

InputInit ==
  /\ session \in Sessions
  /\ text = <<>> /\ text_start = 0
  /\ CMD_IN_BUF = FALSE /\ SINGLE_CHAR = FALSE
  /\ commands = <<>> /\ bytes = 0 /\ kept = 0
-----------------------------------------------------------------------------
(* The first position from i on (counted from 1) that does, or does not,   *)
(* hold a NUL; the end if there is none.                                   *)
FirstNul(t, i) ==
  CHOOSE j \in i..(Len(t) + 1) :
    (j <= Len(t) => t[j] = NUL) /\ \A k \in i..(j - 1) : t[k] # NUL
SkipNuls(t, i) ==
  CHOOSE j \in i..(Len(t) + 1) :
    (j <= Len(t) => t[j] # NUL) /\ \A k \in i..(j - 1) : t[k] = NUL

(* Is there a complete command?                                            *)
cmd_in_buf(t, start) ==
  LET i == SkipNuls(t, start + 1)
  IN  i <= Len(t) /\ (SINGLE_CHAR \/ FirstNul(t, i) <= Len(t))

(* copy_chars() outside of telnet negotiations.                            *)
Copied(b) ==
  CASE b = LF  -> IF SINGLE_CHAR THEN <<LF>> ELSE <<SP, BS, NUL>>
    [] b = IAC -> <<>>
    [] OTHER   -> <<b>>
copy_chars(read) ==
  LET upto[i \in 0..Len(read)] == IF i = 0 THEN <<>> ELSE upto[i - 1] \o Copied(read[i])
  IN  upto[Len(read)]

(* telnet_neg() applies backspaces and deletes.                            *)
Applied(t, b) ==
  IF b \in {BS, DEL} THEN IF t = <<>> THEN t ELSE Front(t) ELSE Append(t, b)
telnet_neg(cmd) ==
  LET upto[i \in 0..Len(cmd)] == IF i = 0 THEN <<>> ELSE Applied(upto[i - 1], cmd[i])
  IN  upto[Len(cmd)]

(* Mutant of Space: the NUL behind the end is forgotten.                   *)
SpaceNoNul(end) == (MAX_TEXT - end) \div 3

(* How many bytes may be read with text up to end.                         *)
Space(end) == (MAX_TEXT - end - 1) \div 3

(* Making room: the text moves down; if that is not enough, it is dropped. *)
Room ==
  LET moved == SubSeq(text, text_start + 1, text_end)
  IN  CASE Space(text_end) >= MAX_TEXT \div 16 ->
             [text |-> text, start |-> text_start, space |-> Space(text_end)]
        [] Space(text_end) < MAX_TEXT \div 16 /\ Space(Len(moved)) >= MAX_TEXT \div 16 ->
             [text |-> moved, start |-> 0, space |-> Space(Len(moved))]
        [] OTHER -> [text |-> <<>>, start |-> 0, space |-> MAX_TEXT \div 3]

(* How many of the bytes of S a sequence holds from some position on.      *)
Count(s, start, S) == Cardinality({i \in DOMAIN s : i > start /\ s[i] \in S})

(* The history variables after a read for which room was made as Room says.*)
Seen(read, room) ==
  /\ bytes + Len(read) <= session.bytes /\ bytes' = bytes + Len(read)
  /\ kept' = kept + Count(read, 0, Chars)
       + Count(room.text, room.start, Chars) - Count(text, text_start, Chars)

(* process_io() reads only for users without CMD_IN_BUF.  An error in the  *)
(* snooper's receive_snoop() jumps back to backend().                      *)
get_user_data(read) ==
  /\ connection_type = "telnet" /\ ~CMD_IN_BUF
  /\ Len(read) \in 1..Room.space
  /\ text' = Room.text \o copy_chars(read) /\ text_start' = Room.start
  /\ \/ CMD_IN_BUF' = cmd_in_buf(text', text_start')
     \/ session.snoopErrors /\ CMD_IN_BUF' = CMD_IN_BUF
  /\ Seen(read, Room)
  /\ UNCHANGED <<session, SINGLE_CHAR, commands>>

(* The n-th smallest element of a set of numbers.                          *)
Nth(S, n) == CHOOSE i \in S : Cardinality({j \in S : j <= i}) = n

(* On an ascii port the lines are looked for in text[], where the data     *)
(* that was read never arrives.                                            *)
AsciiEnds == {i \in (text_start + 1)..text_end : text[i] = LF}
get_ascii_data(read) ==
  /\ connection_type = "ascii" /\ ~CMD_IN_BUF
  /\ Len(read) \in 1..(MAX_TEXT - 1)
  /\ LET line(n) == SubSeq(text, 1 + (IF n = 1 THEN text_start ELSE Nth(AsciiEnds, n - 1)),
                           Nth(AsciiEnds, n) - 1)
         n == Cardinality(AsciiEnds)
     IN  /\ commands' = commands \o [i \in 1..n |-> line(i)]
         /\ IF text_end \in AsciiEnds
              THEN text' = <<>> /\ text_start' = 0
              ELSE text' = text /\ text_start' = IF n = 0 THEN text_start ELSE Nth(AsciiEnds, n)
  /\ Seen(read, [text |-> text, start |-> text_start])
  /\ UNCHANGED <<session, CMD_IN_BUF, SINGLE_CHAR>>
-----------------------------------------------------------------------------
(* first_cmd_in_buf(): where the first command starts, and the buffer as   *)
(* it leaves it.  A partial command moves to the front.                    *)
first_cmd_in_buf ==
  LET i == SkipNuls(text, text_start + 1)
      moved == SubSeq(text, i, text_end)
  IN  CASE i > text_end -> [cmd |-> FALSE, text |-> <<>>, start |-> 0]
        [] i <= text_end /\ (SINGLE_CHAR \/ FirstNul(text, i) <= text_end) ->
             [cmd |-> TRUE, text |-> text, start |-> i - 1]
        [] i <= text_end /\ ~SINGLE_CHAR /\ FirstNul(text, i) > text_end ->
             IF Len(moved) > MAX_TEXT - 2
             THEN [cmd |-> TRUE, text |-> SubSeq(moved, 1, Len(moved) - 2) \o <<NUL>>, start |-> 0]
             ELSE [cmd |-> FALSE, text |-> moved, start |-> 0]

(* Mutant of next_cmd_in_buf: what was typed ahead is forgotten.           *)
NextClears(t, start) == [text |-> <<>>, start |-> 0]

(* next_cmd_in_buf(): past the command and its NULs, or an empty buffer.   *)
next_cmd_in_buf(t, start) ==
  LET i == SkipNuls(t, FirstNul(t, start + 1))
  IN  IF i <= Len(t) THEN [text |-> t, start |-> i - 1] ELSE [text |-> <<>>, start |-> 0]

(* get_user_command() when it comes to this user.  A command that goes to  *)
(* a get_char() function ends single character mode.                       *)
get_user_command ==
  /\ CMD_IN_BUF
  /\ LET first == first_cmd_in_buf
         next  == next_cmd_in_buf(first.text, first.start)
     IN  IF first.cmd
         THEN /\ commands' = Append(commands, telnet_neg(
                   SubSeq(first.text, first.start + 1, FirstNul(first.text, first.start + 1) - 1)))
              /\ text' = next.text /\ text_start' = next.start
              /\ CMD_IN_BUF' = cmd_in_buf(next.text, next.start)
              /\ SINGLE_CHAR' = FALSE
         ELSE /\ text' = first.text /\ text_start' = first.start
              /\ CMD_IN_BUF' = FALSE
              /\ UNCHANGED <<commands, SINGLE_CHAR>>
  /\ UNCHANGED <<session, history>>

(* get_char(): the next character is wanted.                               *)
get_char ==
  /\ session.getChars /\ ~SINGLE_CHAR
  /\ SINGLE_CHAR' = TRUE
  /\ UNCHANGED <<session, text, text_start, CMD_IN_BUF, commands, history>>

InputNext ==
  \/ \E read \in session.reads : get_user_data(read) \/ get_ascii_data(read)
  \/ get_user_command \/ get_char

InputSpec == InputInit /\ [][InputNext]_inputVars
-----------------------------------------------------------------------------
(* Where the complete commands waiting in the buffer end.                  *)
Ends == {i \in (text_start + 2)..text_end : text[i] = NUL /\ text[i - 1] # NUL}

(* The bytes since the last NUL, and the lines the NULs end.               *)
Piece(t, start, i) ==
  LET from == CHOOSE j \in start..i : (j = start \/ t[j] = NUL) /\ \A k \in (j + 1)..i : t[k] # NUL
  IN  SubSeq(t, from + 1, i)
CutNext(cut, t, start, i) ==
  IF t[i] = NUL /\ Piece(t, start, i - 1) # <<>>
  THEN Append(cut, telnet_neg(Piece(t, start, i - 1))) ELSE cut
Cut(t, start) ==
  LET upto[n \in 0..(Len(t) - start)] ==
        IF n = 0 THEN <<>> ELSE CutNext(upto[n - 1], t, start, start + n)
  IN  upto[Len(t) - start]

Lines == INSTANCE InputLines WITH
  NL      <- LF,
  lines   <- Cut(text, text_start),
  partial <- telnet_neg(Piece(text, text_start, text_end))

(* A telnet connection whose program never asks for single characters and  *)
(* whose snooper's receive_snoop() does not fail.                          *)
LineMode == session.type = "telnet" /\ ~session.getChars /\ ~session.snoopErrors

(* In line mode the buffer hands over what was typed, line by line: none   *)
(* is lost, split, joined to the next or repeated when the buffer is moved *)
(* or when several lines, or parts of lines, arrive in one read.           *)
LinesImplemented ==
  /\ Lines!Init
  /\ [][LineMode => (\E read \in session.reads : Lines!Receive(read)) \/ Lines!Take]_Lines!vars

(* comm.h:35 says of CMD_IN_BUF: "there is a full command in input         *)
(* buffer".  process_io() and get_user_command() rely on it: a command     *)
(* without the flag waits until more is typed.                             *)
FlagMeansCommand == LineMode => (CMD_IN_BUF <=> Ends # {})

(* The input buffer never overflows, and CMD_IN_BUF says whether there is  *)
(* a complete command: one without the flag would wait for more typing.    *)
InputSound == InBounds /\ FlagMeansCommand

(* Whatever get_char() does to commands typed ahead, each character is     *)
(* handed over once: those in commands and in the buffer are all that were *)
(* typed and not dropped because the buffer was full.  (Where characters   *)
(* are erased they cannot be counted.)                                     *)
CharsConserved ==
  (connection_type = "telnet" /\ \A read \in session.reads : ~Contains(read, DEL)) =>
  kept = Count(FlattenSeq(commands), 0, Chars) + Count(text, text_start, Chars)
=============================================================================
