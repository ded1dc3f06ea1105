------------------------------ MODULE LexInput ------------------------------
(***************************************************************************)
(* The compiler's character input (lex.c): the linked buffers that hold    *)
(* the part of the source file read so far, the text of included files and *)
(* the text of expanded macros, and the moves between them.                *)
(*                                                                         *)
(* The lexer reads *outp++.  A file is read MAXLINE characters at a time,  *)
(* and last_nl is the last newline of what has been read: passing it calls *)
(* refill_buffer().  An included file is read in front of the text that is *)
(* still to come, or in a buffer of its own; a macro's text is written in  *)
(* front of outp, or in a buffer of its own together with the rest of the  *)
(* line.  A character is a number: Text, a macro, an #include directive    *)
(* (its line stands as one character) or another directive.                *)
(***************************************************************************)
EXTENDS Integers, Sequences, SequencesExt

CONSTANTS
  DEFMAX, MAXLINE,      \* characters in a buffer, and read at a time
  Sources               \* the programs tried: [files, macros]
VARIABLES src, lex

lexVars == <<src, lex>>

NL == 0
LEX_EOF == -1
Garbage == -2           \* memory nothing was written to
NUL == -3
IsMacro(c) == c \in 10..19
IsInclude(c) == c \in 20..29
IsDirective(c) == c = 30
IncludedFile(c) == c - 20

Ptr(b, o) == [b |-> b, o |-> o]
Plus(p, n) == [p EXCEPT !.o = @ + n]

\* linked_buf_t.  room is what lies before and behind its characters.
NewBuf(type) == [type |-> type, mem |-> [i \in 0..DEFMAX |-> Garbage], buf_end |-> 0, outp |-> Ptr(0, 0), last_nl |-> Ptr(0, 0)]

cur(l) == Len(l.bufs)
At(l, p) == IF p.b \in 1..cur(l) /\ p.o \in 0..DEFMAX THEN l.bufs[p.b].mem[p.o] ELSE Garbage
\* A write outside a buffer, or to one that was freed, is remembered.
Write(l, p, c) == IF p.b \in 1..cur(l) /\ p.o \in 0..DEFMAX
                  THEN [l EXCEPT !.bufs[p.b].mem[p.o] = c] ELSE [l EXCEPT !.stray = TRUE]
CopyTo(l, p, s) == IF s = <<>> THEN l
                   ELSE IF p.b \in 1..cur(l) /\ p.o >= 0 /\ p.o + Len(s) <= DEFMAX + 1
                   THEN [l EXCEPT !.bufs[p.b].mem = [i \in 0..DEFMAX |-> IF i \in p.o..(p.o + Len(s) - 1) THEN s[i - p.o + 1] ELSE @[i]]]
                   ELSE [l EXCEPT !.stray = TRUE]
Chars(l, p, n) == [i \in 1..n |-> At(l, Plus(p, i - 1))]

lexerror(l) == [l EXCEPT !.lex_fatal = TRUE]

Rest(l) == LET f == src.files[l.file] IN SubSeq(f, l.pos[l.file] + 1, Len(f))
ReadNow(l) == IF Len(Rest(l)) <= MAXLINE THEN Rest(l) ELSE SubSeq(Rest(l), 1, MAXLINE)

\* The last newline in front of p.  The search does not stop at outp.
LastNewline(l, p) == Ptr(p.b, CHOOSE o \in -1..(p.o - 1) : /\ o >= 0 => l.bufs[p.b].mem[o] = NL
                                                           /\ \A i \in (o + 1)..(p.o - 1) : l.bufs[p.b].mem[i] # NL)

\* Wrong on purpose: a full read is taken for the last one.
EndedWhenFull(l, n, p) ==
  IF n <= MAXLINE THEN [Write(l, p, LEX_EOF) EXCEPT !.last_nl = p] ELSE [l EXCEPT !.last_nl = LastNewline(l, p)]

\* What every branch of refill_buffer() does once p, the end of what was read, is known.
Ended(l, n, p) ==
  IF n < MAXLINE THEN [Write(l, p, LEX_EOF) EXCEPT !.last_nl = p]
  ELSE IF LastNewline(l, p) = Plus(l.outp, -1)
  THEN lexerror([Write(l, Plus(p, -1), NL) EXCEPT !.last_nl = Plus(p, -1)])
  ELSE [l EXCEPT !.last_nl = LastNewline(l, p)]

\* read() of the next characters to p; buf_end follows them when the buffer's text ends there.
ReadTo(l, p, ends, s) ==
  Ended([CopyTo(l, p, s) EXCEPT !.pos[l.file] = @ + Len(s), !.bufs[cur(l)].buf_end = IF ends THEN p.o + Len(s) ELSE @],
        Len(s), Plus(p, Len(s)))
\* The characters from outp[-1] on are moved MAXLINE down, and the file is read behind them.
MoveDown(l, size, ends) ==
  ReadTo([CopyTo(l, Plus(l.outp, -MAXLINE - 1), Chars(l, Plus(l.outp, -1), size)) EXCEPT !.outp = Plus(@, -MAXLINE)],
         Plus(l.outp, -MAXLINE + size - 1), ends, ReadNow(l))
NewBuffer(l, size) ==
  LET new_outp == Ptr(cur(l) + 1, DEFMAX - MAXLINE - size - 5)
  IN ReadTo([CopyTo([l EXCEPT !.bufs = Append([@ EXCEPT ![cur(l)].last_nl = l.last_nl, ![cur(l)].outp = l.outp], NewBuf("include"))],
                    Plus(new_outp, -1), Chars(l, Plus(l.outp, -1), size)) EXCEPT !.outp = new_outp],
            Plus(new_outp, size - 1), TRUE, ReadNow(l))

FromFile(l) ==
  IF l.inc = <<>>
  THEN IF DEFMAX - l.bufs[cur(l)].buf_end > MAXLINE + 5
       THEN ReadTo(l, Ptr(cur(l), l.bufs[cur(l)].buf_end), TRUE, ReadNow(l))
       ELSE MoveDown(l, l.bufs[cur(l)].buf_end - l.outp.o + 1, TRUE)
  ELSE LET top == l.inc[1].outp
           elsewhere == l.bufs[cur(l)].type = "include" /\ top.b # cur(l)
           size == (IF elsewhere THEN l.bufs[cur(l)].buf_end ELSE top.o) - l.outp.o + 1
       IN IF l.outp.o > 2 * MAXLINE THEN MoveDown(l, size, elsewhere) ELSE NewBuffer(l, size)

Popped(l) == [l EXCEPT !.bufs = Front(@)]
BackIn(l, b) == [Popped(l) EXCEPT !.outp = b.outp, !.last_nl = b.last_nl]
refill_buffer(l) ==
  IF cur(l) > 1 /\ l.bufs[cur(l)].type = "add_input" /\ l.outp.o >= l.bufs[cur(l)].buf_end
  THEN LET b == l.bufs[cur(l) - 1]
       IN IF b.type = "add_input" \/ b.outp # Plus(b.last_nl, 1) THEN BackIn(l, b) ELSE FromFile(BackIn(l, b))
  ELSE FromFile(l)
RefillIfPast(l) == IF l.outp = Plus(l.last_nl, 1) THEN refill_buffer(l) ELSE l

\* The next newline or end of file at or behind p.
LineEnd(l, p) == Plus(p, CHOOSE n \in 0..(DEFMAX - p.o) :
                           /\ At(l, Plus(p, n)) \in {NL, LEX_EOF} \/ n = DEFMAX - p.o
                           /\ \A i \in 0..(n - 1) : At(l, Plus(p, i)) \notin {NL, LEX_EOF})
InOwnBuffer(l, s, q) ==
  IF At(l, q) # NL \/ (q.o - l.outp.o) + Len(s) >= DEFMAX - 11 THEN lexerror(l)
  ELSE LET rest == Chars(l, l.outp, q.o - l.outp.o + 1)
           new_outp == Ptr(cur(l) + 1, DEFMAX - 2 - Len(s) - Len(rest))
       IN Write(CopyTo([l EXCEPT !.bufs = Append([@ EXCEPT ![cur(l)].outp = Plus(q, 1), ![cur(l)].last_nl = l.last_nl],
                                                 [NewBuf("add_input") EXCEPT !.buf_end = DEFMAX - 2, !.outp = new_outp]),
                                 !.last_nl = Ptr(cur(l) + 1, DEFMAX - 3), !.outp = new_outp],
                       new_outp, s \o rest), Ptr(cur(l) + 1, DEFMAX - 2), NUL)
add_input(l, s) ==
  IF Len(s) >= DEFMAX - 10 THEN lexerror(l)
  ELSE IF l.outp.o < Len(s) + 5 THEN InOwnBuffer(l, s, LineEnd(l, l.outp))
  ELSE CopyTo([l EXCEPT !.outp = Plus(@, -Len(s))], Plus(l.outp, -Len(s)), s)

\* The #include line has been read, its newline or the end of file too.
IncludeRead(l, c) == IF c # LEX_EOF THEN l
                     ELSE [Write(Write(l, Plus(l.outp, -1), LEX_EOF), Plus(l.outp, -2), NL) EXCEPT !.outp = Plus(@, -1), !.last_nl = Plus(l.outp, -1)]
handle_include(l, f) ==
  refill_buffer([l EXCEPT !.inc = <<[file |-> l.file, outp |-> l.outp, last_nl |-> l.last_nl]>> \o @, !.file = f, !.pos[f] = 0])

\* yylex() at the end of an included file.
BackToIncluder(l, p) ==
  RefillIfPast(Write([(IF l.outp.o >= l.bufs[cur(l)].buf_end /\ cur(l) > 1 THEN Popped(l) ELSE l)
                      EXCEPT !.file = p.file, !.outp = p.outp, !.last_nl = p.last_nl, !.inc = Tail(@)], Plus(p.outp, -1), NL))

Deliver(l, c) == [l EXCEPT !.out = Append(@, c)]
\* yylex(): one character, c, at outp[-1] is acted on.
Lex(l, c) ==
  CASE c = LEX_EOF -> IF l.inc # <<>> THEN BackToIncluder(l, l.inc[1]) ELSE [l EXCEPT !.done = TRUE]
    [] c = NL -> RefillIfPast(l)
    [] IsInclude(c) /\ At(l, Plus(l.outp, -2)) = NL ->
         handle_include(IncludeRead([l EXCEPT !.outp = Plus(@, 1)], At(l, l.outp)), IncludedFile(c))
    [] IsDirective(c) /\ At(l, Plus(l.outp, -2)) = NL ->
         LET after == RefillIfPast([l EXCEPT !.outp = Plus(@, 1)])
         IN Deliver(Write([after EXCEPT !.outp = Plus(@, -1)], Plus(after.outp, -1), NL), c)
    [] IsMacro(c) -> add_input(l, src.macros[c])
    [] OTHER -> Deliver(l, c)
yylex(l) == Lex([l EXCEPT !.outp = Plus(@, 1)], At(l, l.outp))

start_new_file ==
  FromFile([bufs |-> <<[NewBuf("start") EXCEPT !.buf_end = DEFMAX \div 2, !.mem[(DEFMAX \div 2) - 1] = NL]>>,
            outp |-> Ptr(1, DEFMAX \div 2), last_nl |-> Ptr(1, (DEFMAX \div 2) - 1), inc |-> <<>>, file |-> 1,
            pos |-> [f \in DOMAIN src.files |-> 0], lex_fatal |-> FALSE, stray |-> FALSE, done |-> FALSE, out |-> <<>>])

LexInit == src \in Sources /\ lex = start_new_file
Live(l) == ~ l.lex_fatal /\ ~ l.done /\ ~ l.stray
Read == Live(lex) /\ lex' = yylex(lex) /\ UNCHANGED src
LexNext == Read
LexSpec == LexInit /\ [][LexNext]_lexVars

-----------------------------------------------------------------------------
(***************************************************************************)
(* What the buffers are for.                                               *)
(***************************************************************************)
RECURSIVE Meaning(_, _)
\* The tokens of a text, its includes and macros replaced.
Meaning(s, text) ==
  IF text = <<>> THEN <<>>
  ELSE LET c == Head(text)
       IN (CASE IsMacro(c) -> Meaning(s, s.macros[c])
             [] IsInclude(c) -> Meaning(s, s.files[IncludedFile(c)])
             [] c = NL -> <<>>
             [] OTHER -> <<c>>) \o Meaning(s, Tail(text))

\* The parser is given the characters of the program, of the files it includes
\* and of its macros, each once and in order, however the reads divide the files
\* and whichever buffer the text is in (refill_buffer() 953-1060, add_input()
\* 2485-2526, LEX_EOF in yylex() 1121-1154), and nothing is read or written
\* outside the buffers in use.
LexedInOrder == /\ ~ lex.stray
                /\ IsPrefix(lex.out, Meaning(src, src.files[1]))
                /\ lex.done => lex.out = Meaning(src, src.files[1])
=============================================================================
