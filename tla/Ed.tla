-------------------------------- MODULE Ed ----------------------------------
(***************************************************************************)
(* The line editor (ed.c, OLD_ED).  The text is a ring of lines through    *)
(* Line0, with the number of the current line, a pointer to it and the     *)
(* number of lines kept beside the ring.                                   *)
(*                                                                         *)
(* A buffer is a record of what the code keeps; a command takes a buffer   *)
(* and returns the buffer and a status.  A line of text is a sequence of   *)
(* characters, a pattern one character, and a command comes in parsed,     *)
(* with its addresses, as a member of Commands.  Autoindent is off.        *)
(* "wanted" is the text the commands should have made, kept on sequences.  *)
(***************************************************************************)
EXTENDS Integers, Sequences, FiniteSets, TLC, SequencesExt, FiniteSetsExt

CONSTANTS
    Commands,       \* what the user may type
    Typed,          \* the lines the user may type while appending
    Files,          \* what the file may hold: <<lines>>, or <<>> for no file
    ED_MAXLINE,     \* the size of a line, its end included
    MaxLines,       \* bound: the most lines of a text
    MaxTyped        \* bound: the most lines the user types in a session

Line0 == 0
NL    == "newline"  \* in a replacement: a line ends here
None  == "none"

VARIABLES
    buf,      \* the buffer, <<>> when no editor is active
    wanted,   \* the text it should hold
    clean,    \* the file holds that text
    typed     \* how many lines the user has typed

evars == <<buf, wanted, clean, typed>>

-----------------------------------------------------------------------------
(* The ring. *)

Steps(n) == [i \in 1 .. n |-> i]

Forward(b, p, n) == FoldLeft(LAMBDA q, i : b.node[q].next, p, Steps(n))

Backward(b, p, n) == FoldLeft(LAMBDA q, i : b.node[q].prev, p, Steps(n))

nextln(b, l) == IF l + 1 > b.LastLn THEN 0 ELSE l + 1

prevln(b, l) == IF l - 1 < 0 THEN b.LastLn ELSE l - 1

\* getptr(): from the nearer end.
getptr(b, num) ==
    IF 2 * num > b.LastLn /\ num <= b.LastLn
      THEN Backward(b, b.node[Line0].prev, b.LastLn - num)
      ELSE Forward(b, Line0, num)

gettxt(b, num) == b.node[getptr(b, num)].text

setCurLn(b, lin) == [b EXCEPT !.CurLn = lin, !.CurPtr = getptr(b, lin)]

nextCurLn(b) == [b EXCEPT !.CurLn = nextln(b, @), !.CurPtr = b.node[@].next]

prevCurLn(b) == [b EXCEPT !.CurLn = prevln(b, @), !.CurPtr = b.node[@].prev]

relink(b, a, x, y, z) == [b EXCEPT !.node = [[@ EXCEPT ![x].prev = a] EXCEPT ![y].next = z]]

\* ins(): one line after the current one, which it becomes.
Linked(b, new, nxt) ==
    [relink(relink(b, b.CurPtr, new, new, nxt), new, nxt, b.CurPtr, new)
        EXCEPT !.LastLn = @ + 1, !.CurLn = @ + 1, !.CurPtr = new]

NewLine(b, text, new) ==
    [b EXCEPT !.node = (new :> [prev |-> Line0, next |-> Line0, text |-> text, glob |-> FALSE]) @@ @]

insOne(b, text) ==
    LET new == CHOOSE i \in 1 .. Cardinality(DOMAIN b.node) : i \notin DOMAIN b.node
    IN Linked(NewLine(b, text, new), new, b.node[b.CurPtr].next)

\* The lines of a string.
Split(text) ==
    FoldLeft(LAMBDA lines, c : IF c = NL THEN Append(lines, <<>>)
                               ELSE [lines EXCEPT ![Len(lines)] = Append(@, c)], <<<<>>>>, text)

ins(b, text) == FoldLeft(insOne, b, Split(text))

\* The lines from first to last, which stay, are taken out of the ring.
Unlinked(b, first, last, n) ==
    LET freed == {Forward(b, b.node[first].next, i) : i \in 0 .. n - 1} \ {Line0}
    IN relink([b EXCEPT !.node = [i \in DOMAIN @ \ freed |-> @[i]], !.LastLn = @ - n], first, last, first, last)

Without(b, from, to) ==
    Unlinked(b, b.node[getptr(b, from)].prev, b.node[getptr(b, to)].next, to - from + 1)

Clamp(b, n) == IF n > b.LastLn THEN b.LastLn ELSE IF n < 1 THEN 1 ELSE n

CurBefore(b, from) == setCurLn(b, prevln(b, from))

\* del(): the range is cut to the text; the line before becomes the current one.
del(b, from, to) ==
    IF b.LastLn = 0 THEN b
    ELSE CurBefore(Without(b, Clamp(b, from), Clamp(b, to)), Clamp(b, from))

set_ed_buf ==
    [node |-> (Line0 :> [prev |-> Line0, next |-> Line0, text |-> <<>>, glob |-> FALSE]),
     CurLn |-> 0, CurPtr |-> Line0, LastLn |-> 0, mark |-> 0, oldpat |-> None,
     fchanged |-> FALSE, appending |-> FALSE]

\* The text as the ring has it.
Text(b) == [i \in 1 .. Cardinality(DOMAIN b.node) - 1 |-> b.node[Forward(b, Line0, i)].text]

-----------------------------------------------------------------------------
(* Patterns and addresses. *)

regexec(pat, text) == pat \in ToSet(text)

\* find(): all lines but the current one, Line0 too, in the given direction.
FindFrom(b, pat, dir, moved) ==
    LET Num(i) == IF dir THEN (moved.CurLn + i) % (b.LastLn + 1)
                         ELSE (moved.CurLn - i + b.LastLn + 1) % (b.LastLn + 1)
        Lin(i) == IF dir THEN Forward(b, moved.CurPtr, i) ELSE Backward(b, moved.CurPtr, i)
        Hit(i) == regexec(pat, b.node[Lin(i)].text)
    IN IF \E i \in 0 .. b.LastLn - 1 : Hit(i)
         THEN [b |-> moved, num |-> Num(Min({i \in 0 .. b.LastLn - 1 : Hit(i)}))]
         ELSE [b |-> IF dir THEN prevCurLn(moved) ELSE nextCurLn(moved), num |-> -1]

find(b, pat, dir) ==
    IF pat = None THEN [b |-> b, num |-> -1]
    ELSE FindFrom(b, pat, dir, IF dir THEN nextCurLn(b) ELSE prevCurLn(b))

\* optpat(): an empty pattern is the last one.
optpat(b, pat) == IF pat = "" THEN b ELSE [b EXCEPT !.oldpat = pat]

FindOld(b, dir) == find(b, b.oldpat, dir)

\* getnum(): a number, the current or the last line, a mark, a search.
getnum(b, a) ==
    CASE a.kind = "number" -> [b |-> b, num |-> a.n]
      [] a.kind = "."      -> [b |-> b, num |-> b.CurLn]
      [] a.kind = "$"      -> [b |-> b, num |-> b.LastLn]
      [] a.kind = "'"      -> [b |-> b, num |-> b.mark]
      [] a.kind \in {"/", "?"} -> FindOld(optpat(b, a.pat), a.kind = "/")

\* getone(): with what is added to it or taken from it.
Offset(r, off) ==
    IF r.num < 0 THEN r
    ELSE [r EXCEPT !.num = IF off >= 0 THEN @ + off ELSE Max({@ + off, 1})]

getone(b, a) == Offset(getnum(b, a), a.off)

\* getlst(): up to two addresses; one out of bounds is the last line, and after
\* a semicolon the first is the current line for the second.
Range1(b, n, many, ok) == [b |-> b, line1 |-> n, line2 |-> n, nlines |-> many, ok |-> ok]

InText(r) == IF r.num > r.b.LastLn THEN r.b.LastLn ELSE r.num

Range2(n1, r2) == [b |-> r2.b, line1 |-> n1, line2 |-> InText(r2), nlines |-> 2, ok |-> r2.num >= 0]

Second(r1, n1, addrs) ==
    IF r1.num < 0 THEN Range1(r1.b, 0, 0, FALSE)
    ELSE IF Len(addrs) = 1 THEN Range1(r1.b, n1, 1, TRUE)
    ELSE Range2(n1, getone(IF addrs[1].sep = ";" THEN setCurLn(r1.b, n1) ELSE r1.b, addrs[2]))

First(r1, addrs) == Second(r1, InText(r1), addrs)

getlst(b, addrs) ==
    IF addrs = <<>> THEN Range1(b, b.CurLn, 0, TRUE) ELSE First(getone(b, addrs[1]), addrs)

-----------------------------------------------------------------------------
(* The commands.  Each returns a buffer and a status: "ok", "line" (the    *)
(* current line is printed), "EOF" or an error.                            *)

Ok(b)    == [b |-> b, st |-> "ok"]
Bad(b)   == [b |-> b, st |-> "error"]
Changed(b) == [b EXCEPT !.fchanged = TRUE]

\* doprnt(): the last line printed becomes the current one.
doprnt(b, from0, to0) ==
    LET from == IF from0 < 1 THEN 1 ELSE from0
        to   == IF to0 > b.LastLn THEN b.LastLn ELSE to0
    IN IF to = 0 THEN b
       ELSE IF from > to THEN setCurLn(b, from)
       ELSE FoldLeft(LAMBDA c, i : nextCurLn(c), setCurLn(b, from), Steps(to - from))

\* append(): not under a global command.
append(b, line, glob) == IF glob THEN Bad(b) ELSE Ok([setCurLn(b, line) EXCEPT !.appending = TRUE])

\* join(): a line too long is an error before anything is deleted.
join(b, first, last) ==
    LET all == FlattenSeq([i \in 1 .. last - first + 1 |-> gettxt(b, first + i - 1)]) IN
    CASE first <= 0 \/ first > last \/ last > b.LastLn -> Bad(b)
      [] first > 0 /\ first = last -> Ok(setCurLn(b, first))
      [] OTHER -> IF Len(all) >= ED_MAXLINE THEN Bad(b) ELSE Ok(Changed(ins(del(b, first, last), all)))

\* move(): the block is taken out of the ring and put in after line num.
TakenOut(b, bef, aft, range) == [relink(b, bef, aft, bef, aft) EXCEPT !.LastLn = @ - range]

PutIn(b, first, last, before, after) ==
    relink(relink(b, before, first, last, after), last, after, before, first)

PutAfter(b, first, last, dest, range) ==
    setCurLn([PutIn(b, first, last, getptr(b, dest), getptr(b, nextln(b, dest))) EXCEPT !.LastLn = @ + range],
             dest + range)

MoveTo(b, line1, line2, dest, range) ==
    PutAfter(TakenOut(b, getptr(b, prevln(b, line1)), getptr(b, nextln(b, line2)), range),
             getptr(b, line1), getptr(b, line2), dest, range)

\* Wrong on purpose: the destination is not corrected for the lines taken out.
MoveForgetsShift(b, line1, line2, num) ==
    IF line1 <= num /\ num <= line2 THEN Bad(b)
    ELSE Ok(Changed(MoveTo(b, line1, line2, num, line2 - line1 + 1)))

move(b, line1, line2, num) ==
    IF line1 <= num /\ num <= line2 THEN Bad(b)
    ELSE Ok(Changed(MoveTo(b, line1, line2, IF num > line1 THEN num - (line2 - line1 + 1) ELSE num,
                           line2 - line1 + 1)))

\* transfer(): every line inserted pushes those still to be copied down when
\* it lies before them.
CopyBelow(r, i) ==
    IF r.lin > r.line2 THEN r
    ELSE [b |-> ins(r.b, gettxt(r.b, r.lin)), lin |-> r.lin + 2, line2 |-> r.line2 + 1]

CopyAll(b, line1, line2, n) ==
    FoldLeft(CopyBelow,
             [b |-> FoldLeft(LAMBDA c, i : ins(c, gettxt(c, line1 + i - 1)), b, Steps(n)),
              lin |-> line1 + 2 * n, line2 |-> line2 + n],
             Steps(line2)).b

transfer(b, line1, line2, num) ==
    LET mid == IF num < line2 THEN num ELSE line2
    IN Ok(Changed(CopyAll(setCurLn(b, num), line1, line2, IF mid < line1 THEN 0 ELSE mid - line1 + 1)))

\* The text with the first, or every, occurrence of the pattern replaced.
regsub(text, pat, rhs, gflg) ==
    LET first == Min({i \in DOMAIN text : text[i] = pat} \cup {Len(text) + 1}) IN
    FlattenSeq([i \in DOMAIN text |-> IF text[i] = pat /\ (gflg \/ i = first) THEN rhs ELSE <<text[i]>>])

\* subst(): the lines changed so far stay changed when one gets too long.
SubstIn(r, b, new, run) ==
    IF Len(new) >= ED_MAXLINE THEN [r EXCEPT !.b = b, !.running = FALSE, !.failed = TRUE]
    ELSE [r EXCEPT !.b = ins(del(b, b.CurLn, b.CurLn), new), !.running = run, !.n = @ + 1]

SubstLine(r, b, txt, c, run) ==
    IF regexec(b.oldpat, txt) THEN SubstIn(r, b, regsub(txt, b.oldpat, c.rhs, c.gflg), run)
    ELSE [r EXCEPT !.b = b, !.running = run]

SubstNext(r, b, c, lastline) == SubstLine(r, b, b.node[b.CurPtr].text, c, b.CurPtr # lastline)

Substs(done, c) ==
    IF done.failed \/ (done.n = 0 /\ ~c.gflg) THEN Bad(done.b)
    ELSE Ok(IF done.n > 0 THEN Changed(done.b) ELSE done.b)

subst(b, c, line1, line2) ==
    LET One(r, i) == IF r.running THEN SubstNext(r, nextCurLn(r.b), c, getptr(b, line2)) ELSE r
    IN Substs(FoldLeft(One, [b |-> CurBefore(b, line1), running |-> TRUE, failed |-> FALSE, n |-> 0],
                       Steps(b.LastLn + 1)), c)

\* doread(): all lines of the file after line lin; <<>> is a file that cannot be
\* opened, <<lines>> one that can.
doread(b, lin, file) ==
    IF file = <<>> THEN Bad(b) ELSE Ok(FoldLeft(insOne, setCurLn(b, lin), file[1]))

clrbuf(b) == del(b, 1, b.LastLn)

\* docmd(), in three parts.  The addresses are in a.  First the commands that
\* print.
Printing(a, c) ==
    LET b     == a.b
        deflt == a.line1 > a.line2 \/ a.line1 <= 0
    IN CASE c.cmd = "NL" ->
             IF a.nlines = 0 THEN IF nextln(b, b.CurLn) = 0 THEN Bad(b)
                                  ELSE [b |-> setCurLn(b, nextln(b, b.CurLn)), st |-> "line"]
             ELSE IF a.nlines = 2 THEN IF deflt THEN Bad(b) ELSE Ok(doprnt(b, a.line1, a.line2))
             ELSE [b |-> setCurLn(b, a.line2), st |-> "line"]
         [] c.cmd = "p" -> IF deflt THEN Bad(b) ELSE Ok(doprnt(b, a.line1, a.line2))
         [] c.cmd = "z" -> IF deflt THEN Bad(b) ELSE Ok(doprnt(b, a.line1 - c.before, a.line1 + c.after))

\* m and t: without addresses the line that is current after the search for the
\* destination.
Relocate(b, a, dest, cmd) ==
    LET from == IF a.nlines = 0 THEN dest.b.CurLn ELSE a.line1
        to   == IF a.nlines = 0 THEN dest.b.CurLn ELSE a.line2
    IN IF dest.num < 0 \/ dest.num > b.LastLn \/ from > to \/ from <= 0 THEN Bad(dest.b)
       ELSE IF cmd = "m" THEN move(dest.b, from, to, dest.num)
       ELSE transfer(dest.b, from, to, dest.num)

Appends(r, glob) == IF glob THEN r ELSE Ok(Changed(r.b))

AppendHere(b, glob) == Appends(append(b, b.CurLn, glob), glob)

NextAfter(b) == IF nextln(b, b.CurLn) # 0 THEN nextCurLn(b) ELSE b

SubstOld(b, a, c, deflt) ==
    IF b.oldpat = None \/ deflt THEN Bad(b) ELSE subst(b, c, a.line1, a.line2)

\* The commands that edit; an error may come after a change.
Editing(b, a, c, glob) ==
    LET deflt == a.line1 > a.line2 \/ a.line1 <= 0
    IN CASE c.cmd = "a" -> IF a.nlines > 1 THEN Bad(b) ELSE Appends(append(b, a.line1, glob), glob)
         [] c.cmd = "i" -> IF a.nlines > 1 THEN Bad(b) ELSE Appends(append(b, prevln(b, a.line1), glob), glob)
         [] c.cmd = "c" -> IF deflt THEN Bad(b) ELSE AppendHere(del(b, a.line1, a.line2), glob)
         [] c.cmd = "d" -> IF deflt THEN Bad(b) ELSE Ok(Changed(NextAfter(del(b, a.line1, a.line2))))
         [] c.cmd = "j" -> IF a.nlines = 0 /\ a.line1 > 0 THEN join(b, a.line1, b.CurLn + 1)
                           ELSE IF deflt THEN Bad(b) ELSE join(b, a.line1, a.line2)
         [] c.cmd = "k" -> Ok([b EXCEPT !.mark = a.line1])
         [] c.cmd \in {"m", "t"} -> Relocate(b, a, getone(b, c.dest), c.cmd)
         [] c.cmd = "s" -> SubstOld(optpat(b, c.pat), a, c, deflt)

\* dowrite(): only a file that cannot be opened is an error to its callers.
dowrite(c) == c.result # "unopened"

Inserted(r) == IF r.st = "error" THEN r ELSE Ok(Changed(r.b))

\* The commands about files, and the end.
Filing(a, c, glob) ==
    LET b    == a.b
        Reads == Ok([doread(clrbuf(b), 0, c.file).b EXCEPT !.fchanged = FALSE])
        Ends == [b |-> clrbuf(b), st |-> "EOF"]
        l1   == IF a.nlines = 0 THEN 1 ELSE a.line1
        l2   == IF a.nlines = 0 THEN b.LastLn ELSE a.line2
    IN CASE c.cmd = "e" -> IF a.nlines > 0 \/ b.fchanged THEN Bad(b) ELSE Reads
         [] c.cmd = "E" -> IF a.nlines > 0 THEN Bad(b) ELSE Reads
         [] c.cmd = "r" -> IF a.nlines > 1 THEN Bad(b)
                           ELSE Inserted(doread(b, IF a.nlines = 0 THEN b.LastLn ELSE a.line2, c.file))
         [] c.cmd = "w" -> IF l1 > l2 \/ l1 <= 0 \/ ~dowrite(c) THEN Bad(b) ELSE Ok([b EXCEPT !.fchanged = FALSE])
         [] c.cmd = "x" -> IF a.nlines = 0 /\ ~glob /\ dowrite(c) THEN Ends ELSE Bad(b)
         [] c.cmd = "q" -> IF b.fchanged \/ glob \/ a.nlines > 0 THEN Bad(b) ELSE Ends
         [] c.cmd = "Q" -> IF glob \/ a.nlines > 0 THEN Bad(b) ELSE Ends

docmd(a, c, glob) ==
    CASE c.cmd \in {"NL", "p", "z"} -> Printing(a, c)
      [] c.cmd \in {"e", "E", "r", "w", "x", "q", "Q"} -> Filing(a, c, glob)
      [] OTHER -> Editing(a.b, a, c, glob)

\* ckglob(): the lines the command is for are marked.
MarkGlobs(b, line1, line2, yes) ==
    LET on == {getptr(b, n) : n \in {m \in 1 .. b.LastLn :
                  /\ line1 <= m /\ m <= line2 /\ b.oldpat # None
                  /\ regexec(b.oldpat, gettxt(b, m)) = yes}}
    IN [b EXCEPT !.node = [p \in DOMAIN @ |-> IF p = Line0 THEN @[p] ELSE [@[p] EXCEPT !.glob = p \in on]]]

ckglob(a, c) ==
    LET line1 == IF a.nlines = 0 THEN 1 ELSE a.line1
        line2 == IF a.nlines = 0 THEN a.b.LastLn ELSE a.line2
    IN IF line1 > line2 \/ line1 <= 0 THEN Bad(a.b)
       ELSE Ok(MarkGlobs(optpat(a.b, c.gpat), line1, line2, c.glob = "g"))

\* doglob(): the first marked line becomes the current one, until none is left.
DoMarked(a, c) == IF a.ok THEN docmd(a, c, TRUE) ELSE Bad(a.b)

AtMarked(b, lin, ptr) == [b EXCEPT !.node[ptr].glob = FALSE, !.CurLn = lin, !.CurPtr = ptr]

OneMarked(b, lin, c) == DoMarked(getlst(AtMarked(b, lin, getptr(b, lin)), c.addrs), c)

Marked(b) == {n \in 1 .. b.LastLn : b.node[getptr(b, n)].glob}

doglob(b, c) ==
    LET One(r, i) == IF r.st = "error" \/ Marked(r.b) = {} THEN r ELSE OneMarked(r.b, Min(Marked(r.b)), c)
    IN FoldLeft(One, Ok(b), Steps(b.LastLn + 1))

\* ed_cmd(), without report_status(): a is getlst() of what was typed, g the
\* result of ckglob().
Done(r, c) ==
    IF r.st = "error" \/ r.st = "EOF" THEN r
    ELSE IF c.glob # "" THEN Ok(setCurLn(r.b, r.b.CurLn))
    ELSE IF r.st = "line" THEN Ok(doprnt(r.b, r.b.CurLn, r.b.CurLn))
    ELSE r

ed_cmd(a, g, c) ==
    IF ~a.ok THEN Bad(a.b)
    ELSE IF c.glob = "" THEN Done(docmd(a, c, FALSE), c)
    ELSE IF g.st = "error" THEN g ELSE Done(doglob(g.b, c), c)

-----------------------------------------------------------------------------
(* What the commands are for, on the text as a sequence of lines. *)

Part(t, i, j) == SubSeq(t, i, j)

\* The lines an s command gets to before one it cannot change.
Substituted(t, c, pat, S) ==
    LET New(n)  == regsub(t[n], pat, c.rhs, c.gflg)
        Stop(n) == IF regexec(pat, t[n]) THEN Len(New(n)) >= ED_MAXLINE ELSE c.glob # "" /\ ~c.gflg
        end     == Min({n \in S : Stop(n)} \cup {Len(t) + 1})
    IN FlattenSeq([n \in DOMAIN t |-> IF n \in S /\ n < end THEN Split(New(n)) ELSE <<t[n]>>])

\* What a command makes of lines l1 to l2 of the text; dest is where m and t put them.
MeaningAt(t, c, pat, l1, l2, dest) ==
    CASE c.cmd \in {"d", "c"} -> Part(t, 1, l1 - 1) \o Part(t, l2 + 1, Len(t))
      [] c.cmd = "j" -> Part(t, 1, l1 - 1) \o <<FlattenSeq(Part(t, l1, l2))>> \o Part(t, l2 + 1, Len(t))
      [] c.cmd = "m" -> IF dest < l1
                          THEN Part(t, 1, dest) \o Part(t, l1, l2) \o Part(t, dest + 1, l1 - 1) \o Part(t, l2 + 1, Len(t))
                          ELSE Part(t, 1, l1 - 1) \o Part(t, l2 + 1, dest) \o Part(t, l1, l2) \o Part(t, dest + 1, Len(t))
      [] c.cmd = "t" -> Part(t, 1, dest) \o Part(t, l1, l2) \o Part(t, dest + 1, Len(t))
      [] c.cmd = "s" -> Substituted(t, c, pat, l1 .. l2)
      [] c.cmd = "r" -> Part(t, 1, l2) \o c.file[1] \o Part(t, l2 + 1, Len(t))
      [] c.cmd \in {"e", "E"} -> IF c.file = <<>> THEN <<>> ELSE c.file[1]
      [] OTHER -> t

\* What it makes of the text when it is run for the lines S.
MeaningFor(t, c, pat, S) ==
    LET Sel(yes) == LET P == SetToSortSeq({n \in DOMAIN t : (n \in S) = yes}, <) IN [i \in DOMAIN P |-> t[P[i]]]
    IN CASE c.cmd = "d" -> Sel(FALSE)
         [] c.cmd = "m" -> Reverse(Sel(TRUE)) \o Sel(FALSE)          \* to line 0
         [] c.cmd = "t" -> FlattenSeq([n \in DOMAIN t |-> IF n \in S THEN <<t[n], t[n]>> ELSE <<t[n]>>])
         [] c.cmd = "s" -> Substituted(t, c, pat, S)
         [] OTHER -> t

\* The lines a command is for when the user gives none.
Meaning(t, c, a, pat, dest) ==
    IF a.nlines > 0 \/ c.cmd \notin {"m", "t", "j", "r"}
      THEN MeaningAt(t, c, pat, a.line1, a.line2, dest.num)
    ELSE CASE c.cmd \in {"m", "t"} -> MeaningAt(t, c, pat, dest.b.CurLn, dest.b.CurLn, dest.num)
           [] c.cmd = "j" -> MeaningAt(t, c, pat, a.line1, a.line1 + 1, dest.num)
           [] c.cmd = "r" -> MeaningAt(t, c, pat, 1, Len(t), dest.num)

\* A command that failed means nothing, but s keeps the lines changed before.
Asked(t, c, a, g, r) ==
    IF \/ r.st = "EOF" \/ ~a.ok
       \/ r.st = "error" /\ c.cmd # "s"
       \/ c.cmd = "s" /\ optpat(a.b, c.pat).oldpat = None
       \/ c.cmd = "s" /\ c.glob = "" /\ (a.line1 > a.line2 \/ a.line1 <= 0)
       \/ c.glob # "" /\ g.st = "error"
      THEN t
    ELSE IF c.glob = "" THEN Meaning(t, c, a, optpat(a.b, c.pat).oldpat, getone(a.b, c.dest))
    ELSE MeaningFor(t, c, optpat(g.b, c.pat).oldpat, {n \in DOMAIN t : g.b.node[getptr(g.b, n)].glob})

\* The names of the lines do not matter: they are counted through.
Tidy(b) ==
    LET n  == Cardinality(DOMAIN b.node) - 1
        At(i) == Forward(b, Line0, i)
        No(p) == IF p = Line0 THEN 0 ELSE CHOOSE i \in 1 .. n : At(i) = p
    IN IF {At(i) : i \in 1 .. n} # DOMAIN b.node \ {Line0} THEN b
       ELSE [b EXCEPT !.node = [i \in 0 .. n |-> [@[At(i)] EXCEPT !.prev = No(@), !.next = No(@)]], !.CurPtr = No(@)]

-----------------------------------------------------------------------------
EdInit == buf = <<>> /\ wanted = <<>> /\ clean = TRUE /\ typed = 0

Types == typed < MaxTyped /\ typed' = typed + 1

\* ed_start().
Start(file) ==
    /\ buf = <<>>
    /\ LET r == doread(set_ed_buf, 0, file) IN
       buf' = <<IF r.st = "ok" THEN Tidy(setCurLn(r.b, 1)) ELSE r.b>>
    /\ wanted' = (IF file = <<>> THEN <<>> ELSE file[1])
    /\ clean' = TRUE /\ typed' = 0

\* more_append(): a line, or the dot that ends the text.
MoreAppend(line) ==
    /\ buf # <<>> /\ buf[1].appending
    /\ buf[1].LastLn < MaxLines
    /\ buf' = <<Tidy(ins(buf[1], line))>>
    /\ wanted' = Part(wanted, 1, buf[1].CurLn) \o <<line>> \o Part(wanted, buf[1].CurLn + 1, Len(wanted))
    /\ clean' = FALSE
    /\ Types

Dot ==
    /\ buf # <<>> /\ buf[1].appending
    /\ buf' = <<[buf[1] EXCEPT !.appending = FALSE]>>
    /\ UNCHANGED <<wanted, clean, typed>>

\* ed_cmd() and report_status(), which frees the buffer at the end.
Command(c) ==
    /\ buf # <<>> /\ ~buf[1].appending
    /\ Types
    /\ \E a \in {getlst(buf[1], IF c.glob = "" THEN c.addrs ELSE c.range)} :
       \E g \in {ckglob(a, c)} : \E r \in {ed_cmd(a, g, c)} : \E t \in {Asked(wanted, c, a, g, r)} :
          /\ r.b.LastLn <= MaxLines
          /\ buf' = IF r.st = "EOF" THEN <<>> ELSE <<Tidy(r.b)>>
          /\ wanted' = IF r.st = "EOF" THEN <<>> ELSE t
          /\ clean' = \/ r.st = "EOF" /\ c.cmd = "Q"
                      \/ c.cmd \in {"e", "E"} /\ r.st = "ok" /\ c.file # <<>>
                      \/ c.cmd \in {"w", "x"} /\ r.st # "error" /\ c.result = "ok" /\ (a.nlines = 0 \/ clean)
                      \/ clean /\ t = wanted

\* save_ed_buffer(): the connection is lost, and the text goes where the master
\* object says.
Lost ==
    /\ buf # <<>>
    /\ buf' = <<>> /\ wanted' = <<>> /\ clean' = TRUE /\ typed' = 0

EdNext ==
    \/ \E f \in Files : Start(f)
    \/ \E line \in Typed : MoreAppend(line)
    \/ \E c \in Commands : Command(c)
    \/ Dot
    \/ Lost

EdSpec == EdInit /\ [][EdNext]_evars

-----------------------------------------------------------------------------
\* After any commands the ring is whole both ways, the number of lines is right,
\* and the pointer to the current line is in step with its number (ed.h: "CurLn
\* and CurPtr must be kept in step").
KeptInStep ==
    buf # <<>> =>
        LET b == buf[1] IN
        /\ Cardinality(DOMAIN b.node) = b.LastLn + 1
        /\ {Forward(b, Line0, i) : i \in 0 .. b.LastLn} = DOMAIN b.node
        /\ Forward(b, Line0, b.LastLn + 1) = Line0
        /\ \A p \in DOMAIN b.node : b.node[b.node[p].next].prev = p
        /\ b.CurLn \in 0 .. b.LastLn /\ b.CurPtr = Forward(b, Line0, b.CurLn)

\* The text is what the commands typed say it should be: deleted, moved, copied,
\* joined, substituted and read in where they say, also when they are run for
\* every line that matches and change the lines still to come.
EditsAsAsked == buf # <<>> => Text(buf[1]) = wanted

\* "You can't quit this way if there are any unsaved changes": what is not marked
\* as changed is in the file.
\* Refuted; see the README, section 6.
UnchangedMeansSaved == buf # <<>> => (buf[1].fchanged \/ clean)
=============================================================================
