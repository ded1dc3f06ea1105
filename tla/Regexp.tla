------------------------------- MODULE Regexp -------------------------------
(***************************************************************************)
(* Regular expressions (regexp.c): regcomp() turns a pattern into a linear *)
(* program of nodes joined by relative "next" pointers, regexec() runs it  *)
(* with backtracking, regsub() fills in a replacement.  The editor and the *)
(* efuns use all three.                                                    *)
(*                                                                         *)
(* A trial is a pattern and a string.  A pattern that comes with its tree  *)
(* is checked against what the tree means: the ways to match it, in the    *)
(* order of preference.                                                    *)
(***************************************************************************)
EXTENDS Integers, Sequences, FiniteSets, SequencesExt

CONSTANTS
    Patterns,      \* [exp, excompat, tree]: the characters and what they mean
    Strings,
    Sources,       \* replacement texts
    NSUBEXP,
    MaxRoom        \* bound: the room for the result of regsub()

VARIABLES pat, str, r, found, new

rvars == <<pat, str, r, found, new>>

-----------------------------------------------------------------------------
(* regcomp(): first which characters are operators.                        *)
Operators == {".", "*", "+", "?", "|", "$", "^", "[", "]"}
Op(c)    == [c |-> c, special |-> TRUE]
Plain(c) == [c |-> c, special |-> FALSE]

RECURSIVE Marked(_, _)
Marked(exp, excompat) ==
    IF exp = <<>> THEN <<>>
    ELSE LET c == exp[1] IN
         IF c # "\\"
         THEN <<IF c \in Operators \/ (c \in {"(", ")"} /\ ~excompat) THEN Op(c) ELSE Plain(c)>>
              \o Marked(Tail(exp), excompat)
         ELSE IF Len(exp) = 1 \/ exp[2] \in {"{", "}"} THEN <<Op("error")>>
         ELSE <<IF exp[2] \in {"<", ">"} \/ (exp[2] \in {"(", ")"} /\ excompat) THEN Op(exp[2])
                ELSE Plain(exp[2])>> \o Marked(SubSeq(exp, 3, Len(exp)), excompat)

\* The compiler's state: the input, the nodes, the count of (); flags are what
\* regpiece() and the others pass up, ret is the node they return.
Node(op, arg) == [op |-> op, arg |-> arg, next |-> 0]

Failed(c) == [c EXCEPT !.err = TRUE]

Peek(c) == IF c.in = <<>> THEN Plain("") ELSE c.in[1]
Eaten(c) == IF c.in = <<>> THEN c ELSE [c EXCEPT !.in = Tail(@)]

regnode(c, op, arg) == [c EXCEPT !.prog = Append(@, Node(op, arg)), !.ret = Len(c.prog) + 1]

regnext(prog, p) ==
    IF prog[p].next = 0 THEN 0 ELSE IF prog[p].op = "BACK" THEN p - prog[p].next ELSE p + prog[p].next

RECURSIVE LastNode(_, _)
LastNode(prog, p) == IF regnext(prog, p) = 0 THEN p ELSE LastNode(prog, regnext(prog, p))

Linked(c, scan, val) ==
    [c EXCEPT !.prog[scan].next = IF c.prog[scan].op = "BACK" THEN scan - val ELSE val - scan]
regtail(c, p, val) == Linked(c, LastNode(c.prog, p), val)

\* A new node at the end, which the chain from p leads to.
Followed(c, p, op) == regtail(regnode(c, op, <<>>), p, Len(c.prog) + 1)

\* The operand of a BRANCH, STAR or PLUS is the node behind it.
regoptail(c, p, val) == IF c.prog[p].op = "BRANCH" THEN regtail(c, p + 1, val) ELSE c

\* The nodes from opnd on move up; their pointers are relative.
reginsert(c, op, opnd) ==
    [c EXCEPT !.prog = SubSeq(@, 1, opnd - 1) \o <<Node(op, <<>>)>> \o SubSeq(@, opnd, Len(@)), !.ret = opnd]

IsMult(t) == t.special /\ t.c \in {"*", "+", "?"}

\* How many plain characters the input begins with.
Run(in) == Cardinality({n \in 1 .. Len(in) : \A i \in 1 .. n : ~in[i].special})

Chars(in, n) == [i \in 1 .. n |-> in[i].c]

\* The members of a [] class: characters and ranges of the alphabet.
Alphabet == <<"a", "b", "c">>
At(ch) == CHOOSE i \in DOMAIN Alphabet : Alphabet[i] = ch
InAlphabet(ch) == \E i \in DOMAIN Alphabet : Alphabet[i] = ch

RECURSIVE Class(_, _)
Class(c, set) ==
    LET t == Peek(c) IN
    CASE c.in = <<>> -> [c |-> Failed(c), set |-> set]
      [] c.in # <<>> /\ t = Op("]") -> [c |-> Eaten(c), set |-> set]
      [] c.in # <<>> /\ t = Plain("-") ->
             LET to == Peek(Eaten(c)) IN
             IF to.c = "" \/ to = Op("]") THEN Class(Eaten(c), set \cup {"-"})
             ELSE IF ~InAlphabet(c.prev) \/ ~InAlphabet(to.c) \/ At(c.prev) > At(to.c)
               THEN [c |-> Failed(c), set |-> set]
             ELSE Class([Eaten(Eaten(c)) EXCEPT !.prev = to.c],
                        set \cup {Alphabet[i] : i \in At(c.prev) .. At(to.c)})
      [] OTHER -> Class([Eaten(c) EXCEPT !.prev = t.c], set \cup {t.c})

ClassBody(c) ==
    IF Peek(c) \in {Op("]"), Plain("-")} THEN Class([Eaten(c) EXCEPT !.prev = Peek(c).c], {Peek(c).c})
    ELSE Class(c, {})

Flags(c, f) == [c EXCEPT !.flags = f]

RECURSIVE reg(_, _), regbranch(_, _), regpiece(_), regatom(_), Branches(_, _), TailsTo(_, _, _), Joined(_, _, _), OneMore(_, _, _)

\* A run of plain characters, less the last if an operator follows it.
PlainRun(c) ==
    LET n == Run(c.in)
        m == IF n > 1 /\ n < Len(c.in) /\ IsMult(c.in[n + 1]) THEN n - 1 ELSE n
    IN Flags([regnode(c, "EXACTLY", Chars(c.in, m)) EXCEPT !.in = SubSeq(@, m + 1, Len(@))],
             {"HASWIDTH"} \cup IF m = 1 THEN {"SIMPLE"} ELSE {})

ClassNode(body, op) == Flags(regnode(body.c, op, body.set), {"HASWIDTH", "SIMPLE"})
InParens(d) == Flags(d, d.flags \cap {"HASWIDTH", "SPSTART"})

regatom(c) ==
    LET t == Peek(c) IN
    CASE ~t.special -> IF c.in = <<>> THEN Failed(c) ELSE PlainRun(c)
      [] t = Op("^") -> Flags(regnode(Eaten(c), "BOL", <<>>), {})
      [] t = Op("$") -> Flags(regnode(Eaten(c), "EOL", <<>>), {})
      [] t = Op("<") -> Flags(regnode(Eaten(c), "WORDSTART", <<>>), {})
      [] t = Op(">") -> Flags(regnode(Eaten(c), "WORDEND", <<>>), {})
      [] t = Op(".") -> Flags(regnode(Eaten(c), "ANY", <<>>), {"HASWIDTH", "SIMPLE"})
      [] t = Op("[") -> IF Peek(Eaten(c)) = Op("^") THEN ClassNode(ClassBody(Eaten(Eaten(c))), "ANYBUT")
                        ELSE ClassNode(ClassBody(Eaten(c)), "ANYOF")
      [] t = Op("(") -> InParens(reg(Eaten(c), TRUE))
      [] OTHER -> Failed(c)

\* x* is (x&|), & being a way back; x+ is x(&|), x? is (x|).
BackTo(c, p) == regoptail(regoptail(regnode(c, "BACK", <<>>), p, Len(c.prog) + 1), p, p)
Starred(c, p) == Followed(Followed(BackTo(c, p), p, "BRANCH"), p, "NOTHING")
PlusBack(c, p) == regtail(regnode(c, "BACK", <<>>), Len(c.prog) + 1, p)
Plussed(c, p, next) == Followed(Followed(PlusBack(c, p), next, "BRANCH"), p, "NOTHING")
Optional(c, p) == regoptail(Followed(c, p, "NOTHING"), p, Len(c.prog) + 1)

Repeated(a, p) ==
    CASE Peek(a).c = "*" -> IF "SIMPLE" \in a.flags THEN reginsert(a, "STAR", p) ELSE Starred(reginsert(a, "BRANCH", p), p)
      [] Peek(a).c = "+" -> IF "SIMPLE" \in a.flags THEN reginsert(a, "PLUS", p)
                            ELSE Plussed(Followed(a, p, "BRANCH"), p, Len(a.prog) + 1)
      [] OTHER -> Optional(Followed(reginsert(a, "BRANCH", p), p, "BRANCH"), p)

Piece(a) ==
    LET c == Peek(a).c
    IN IF a.err \/ ~IsMult(Peek(a)) THEN a
       ELSE IF c # "?" /\ "HASWIDTH" \notin a.flags THEN Failed(a)
       ELSE IF IsMult(Peek(Eaten(a))) THEN Failed(a)
       ELSE Flags([Eaten(Repeated(a, a.ret)) EXCEPT !.ret = a.ret], IF c = "+" THEN {"HASWIDTH"} ELSE {"SPSTART"})

regpiece(c) == Piece(regatom(c))

\* regbranch(): pieces joined one after the other; chain is the latest.
Joined(c, chain, p) ==
    regbranch(Flags(IF chain = 0 \/ p.err THEN p ELSE regtail(p, chain, p.ret),
                    c.flags \cup (p.flags \cap ({"HASWIDTH"} \cup IF chain = 0 THEN {"SPSTART"} ELSE {}))), p.ret)

regbranch(c, chain) ==
    IF c.err THEN c
    ELSE IF c.in = <<>> \/ Peek(c) \in {Op("|"), Op(")")}
      THEN IF chain = 0 THEN [regnode(c, "NOTHING", <<>>) EXCEPT !.flags = c.flags] ELSE c
      ELSE Joined(c, chain, regpiece(c))

\* The alternatives, each joined to the first; the flags are what all have.
OneMore(k, head, err) ==
    IF err THEN k ELSE IF Peek(k) = Op("|") /\ k.in # <<>> THEN Branches(Eaten(k), head) ELSE [k EXCEPT !.ret = head]

Alternative(c, first, b) ==
    OneMore(Flags(IF b.err \/ first = 0 THEN b ELSE regtail(b, first, b.ret),
                  (c.flags \cap b.flags) \cup ((c.flags \cup b.flags) \cap {"SPSTART"})),
            IF first = 0 THEN b.ret ELSE first, b.err)

Branches(c, first) ==
    Alternative(c, first, [regbranch(Flags(regnode(c, "BRANCH", <<>>), {}), 0) EXCEPT !.ret = Len(c.prog) + 1])

TailsTo(c, br, ender) == IF br = 0 THEN c ELSE TailsTo(regoptail(c, br, ender), regnext(c.prog, br), ender)

Ended(b, paren, no) == TailsTo(regtail(regnode(b, IF paren THEN "CLOSE" ELSE "END", no), b.ret, Len(b.prog) + 1),
                               b.ret, Len(b.prog) + 1)
Closed(b, paren, no) ==
    IF b.err THEN b
    ELSE IF paren THEN IF Peek(b) = Op(")") THEN [Eaten(Ended(b, paren, no)) EXCEPT !.ret = b.ret] ELSE Failed(b)
    ELSE IF b.in = <<>> THEN [Ended(b, paren, no) EXCEPT !.ret = b.ret] ELSE Failed(b)

Opened(c) == regnode(Flags([c EXCEPT !.npar = @ + 1], {"HASWIDTH"}), "OPEN", c.npar)

reg(c, paren) ==
    IF paren /\ c.npar >= NSUBEXP THEN Failed(c)
    ELSE Closed(IF paren THEN Branches(Opened(c), Len(c.prog) + 1) ELSE Branches(Flags(c, {"HASWIDTH"}), 0), paren, c.npar)

\* The literal strings every match has: the top level of the only alternative.
RECURSIVE Literals(_, _)
Literals(prog, scan) ==
    IF scan = 0 THEN <<>>
    ELSE (IF prog[scan].op = "EXACTLY" THEN <<prog[scan].arg>> ELSE <<>>) \o Literals(prog, regnext(prog, scan))

Longest(ss) == FoldLeft(LAMBDA l, s : IF Len(s) >= Len(l) THEN s ELSE l, <<>>, ss)

Compiled(c, only) ==
    [ok |-> TRUE, prog |-> c.prog,
     regstart |-> IF only /\ c.prog[2].op = "EXACTLY" THEN c.prog[2].arg[1] ELSE "",
     reganch  |-> only /\ c.prog[2].op = "BOL",
     regmust  |-> IF only /\ "SPSTART" \in c.flags THEN Longest(Literals(c.prog, 2)) ELSE <<>>]

Checked(c) == IF c.err THEN [ok |-> FALSE] ELSE Compiled(c, c.prog[regnext(c.prog, 1)].op = "END")

regcomp(exp, excompat) ==
    Checked(reg([in |-> Marked(exp, excompat), prog |-> <<>>, npar |-> 1, ret |-> 0, flags |-> {}, err |-> FALSE,
                 prev |-> ""], FALSE))

-----------------------------------------------------------------------------
(* regexec().  The input is a position from 1; caps are startp and endp.   *)
No == [ok |-> FALSE]
NoCaps == [n \in 1 .. NSUBEXP - 1 |-> [s |-> 0, e |-> 0]]
Yes(i) == [ok |-> TRUE, end |-> i, caps |-> NoCaps]

WordPart(ch) == ch # " "
Here(s, i) == IF i <= Len(s) THEN s[i] ELSE ""
Begins(s, i, lit) == i + Len(lit) - 1 <= Len(s) /\ SubSeq(s, i, i + Len(lit) - 1) = lit

Single(node, ch) ==
    /\ ch # ""
    /\ CASE node.op = "ANY" -> TRUE [] node.op = "EXACTLY" -> ch = node.arg[1]
         [] node.op = "ANYOF" -> ch \in node.arg [] node.op = "ANYBUT" -> ch \notin node.arg

\* regrepeat(): how many characters from i on are matched.
regrepeat(node, s, i) == Cardinality({n \in i .. Len(s) : \A k \in i .. n : Single(node, s[k])})

RECURSIVE regmatch(_, _, _, _), Alternatives(_, _, _, _), Backing(_, _, _, _, _, _)

\* STAR and PLUS: as many as there are, then fewer.
Backing(prog, s, nxt, i, no, min) ==
    IF no < min THEN No
    ELSE LET could == prog[nxt].op # "EXACTLY" \/ Here(s, i + no) = prog[nxt].arg[1]
             m == IF could THEN regmatch(prog, s, nxt, i + no) ELSE No
         IN IF m.ok THEN m ELSE Backing(prog, s, nxt, i, no - 1, min)

Alternatives(prog, s, scan, i) ==
    IF scan = 0 \/ prog[scan].op # "BRANCH" THEN No
    ELSE LET m == regmatch(prog, s, scan + 1, i)
         IN IF m.ok THEN m ELSE Alternatives(prog, s, regnext(prog, scan), i)

\* Wrong on purpose: an outer, earlier pass through () overwrites a later one.
SetsAlways(m, no, field, i) == [m EXCEPT !.caps[no][field] = i]

\* startp and endp are set on the way back, unless a later pass has set them.
SetsCap(m, no, field, i) == IF m.caps[no][field] = 0 THEN [m EXCEPT !.caps[no][field] = i] ELSE m

regmatch(prog, s, scan, i) ==
    LET node == prog[scan]
        nxt  == regnext(prog, scan)
        Go(j) == regmatch(prog, s, nxt, j)
        On(b, j) == IF b THEN Go(j) ELSE No
    IN CASE node.op = "END" -> Yes(i)
         [] node.op = "BOL" -> On(i = 1, i)
         [] node.op = "EOL" -> On(i > Len(s), i)
         [] node.op = "WORDSTART" -> On(i = 1 \/ (i <= Len(s) /\ ~WordPart(s[i - 1]) /\ WordPart(s[i])), i)
         [] node.op = "WORDEND" -> On(i > Len(s) \/ (i > 1 /\ WordPart(s[i - 1]) /\ ~WordPart(s[i])), i)
         [] node.op = "EXACTLY" -> On(Begins(s, i, node.arg), i + Len(node.arg))
         [] node.op \in {"ANY", "ANYOF", "ANYBUT"} -> On(Single(node, Here(s, i)), i + 1)
         [] node.op \in {"NOTHING", "BACK"} -> Go(i)
         [] node.op \in {"OPEN", "CLOSE"} ->
                LET m == Go(i) IN IF m.ok THEN SetsCap(m, node.arg, IF node.op = "OPEN" THEN "s" ELSE "e", i) ELSE No
         [] node.op = "BRANCH" ->
                IF prog[nxt].op # "BRANCH" THEN regmatch(prog, s, scan + 1, i) ELSE Alternatives(prog, s, scan, i)
         [] node.op \in {"STAR", "PLUS"} ->
                Backing(prog, s, nxt, i, regrepeat(prog[scan + 1], s, i), IF node.op = "STAR" THEN 0 ELSE 1)

RECURSIVE Trying(_, _, _)
Trying(p, s, i) ==
    IF i > Len(s) + 1 \/ (p.regstart # "" /\ i > Len(s)) THEN No
    ELSE IF p.regstart # "" /\ s[i] # p.regstart THEN Trying(p, s, i + 1)
    ELSE LET m == regmatch(p.prog, s, 1, i)
         IN IF m.ok THEN [m EXCEPT !.ok = TRUE] @@ [start |-> i] ELSE Trying(p, s, i + 1)

regexec(p, s) ==
    IF p.regmust # <<>> /\ ~\E i \in 1 .. Len(s) : Begins(s, i, p.regmust) THEN No
    ELSE IF p.reganch THEN LET m == regmatch(p.prog, s, 1, 1) IN IF m.ok THEN m @@ [start |-> 1] ELSE No
    ELSE Trying(p, s, 1)

\* regsub(): & and \1 ... stand for what was matched; n is the room, the zero
\* byte at the end included.
Part(m, s, no) ==
    IF no = 0 THEN SubSeq(s, m.start, m.end - 1)
    ELSE IF m.caps[no].s = 0 \/ m.caps[no].e = 0 THEN <<>> ELSE SubSeq(s, m.caps[no].s, m.caps[no].e - 1)

regsub(m, s, source, n) ==
    LET put == FoldLeft(LAMBDA o, t :
                   LET add == CASE t = "&" -> Part(m, s, 0) [] t = "\\1" -> Part(m, s, 1) [] OTHER -> <<t>>
                   IN IF ~o.ok \/ Len(o.text) + Len(add) > n THEN [o EXCEPT !.ok = FALSE]
                      ELSE [o EXCEPT !.text = @ \o add],
                   [ok |-> TRUE, text |-> <<>>], source)
    IN IF put.ok /\ Len(put.text) < n THEN put ELSE No

-----------------------------------------------------------------------------
(* What a tree means: the ends of its matches from i on, with their ()s,   *)
(* the preferred ones first.                                               *)
Way(i, caps) == [end |-> i, caps |-> caps]

RECURSIVE Ways(_, _, _, _), Repeats(_, _, _, _)
Then(t, s, ways) == FlattenSeq([k \in DOMAIN ways |-> Ways(t, s, ways[k].end, ways[k].caps)])

Repeats(t, s, i, caps) ==
    LET more == SelectSeq(Ways(t, s, i, caps), LAMBDA w : w.end > i)
    IN FlattenSeq([k \in DOMAIN more |-> Repeats(t, s, more[k].end, more[k].caps)]) \o <<Way(i, caps)>>

Ways(t, s, i, caps) ==
    CASE t[1] = "char"  -> IF Here(s, i) = t[2] THEN <<Way(i + 1, caps)>> ELSE <<>>
      [] t[1] = "any"   -> IF i <= Len(s) THEN <<Way(i + 1, caps)>> ELSE <<>>
      [] t[1] = "class" -> IF i <= Len(s) /\ ((s[i] \in t[2]) <=> t[3]) THEN <<Way(i + 1, caps)>> ELSE <<>>
      [] t[1] = "bol"   -> IF i = 1 THEN <<Way(i, caps)>> ELSE <<>>
      [] t[1] = "eol"   -> IF i > Len(s) THEN <<Way(i, caps)>> ELSE <<>>
      [] t[1] = "empty" -> <<Way(i, caps)>>
      [] t[1] = "cat"   -> Then(t[3], s, Ways(t[2], s, i, caps))
      [] t[1] = "or"    -> Ways(t[2], s, i, caps) \o Ways(t[3], s, i, caps)
      [] t[1] = "*"     -> Repeats(t[2], s, i, caps)
      [] t[1] = "+"     -> LET w == Ways(t[2], s, i, caps)
                           IN FlattenSeq([k \in DOMAIN w |-> Repeats(t[2], s, w[k].end, w[k].caps)])
      [] t[1] = "?"     -> Ways(t[2], s, i, caps) \o <<Way(i, caps)>>
      [] t[1] = "group" -> LET w == Ways(t[3], s, i, caps)
                           IN [k \in DOMAIN w |-> [w[k] EXCEPT !.caps[t[2]] = [s |-> i, e |-> w[k].end]]]

Starts(t, s) == {i \in 1 .. Len(s) + 1 : Ways(t, s, i, NoCaps) # <<>>}

-----------------------------------------------------------------------------
RegexpInit ==
    /\ pat \in Patterns /\ str \in Strings
    /\ r = <<>> /\ found = <<>> /\ new = <<>>

Compile ==
    /\ r = <<>>
    /\ r' = <<regcomp(pat.exp, pat.excompat)>>
    /\ UNCHANGED <<pat, str, found, new>>

Execute ==
    /\ r # <<>> /\ found = <<>> /\ r[1].ok
    /\ found' = <<regexec(r[1], str)>>
    /\ UNCHANGED <<pat, str, r, new>>

Substitute ==
    /\ found # <<>> /\ new = <<>> /\ found[1].ok
    /\ \E src \in Sources, n \in 0 .. MaxRoom :
          new' = <<[src |-> src, n |-> n, out |-> regsub(found[1], str, src, n)]>>
    /\ UNCHANGED <<pat, str, r, found>>

RegexpNext == Compile \/ Execute \/ Substitute

RegexpSpec == RegexpInit /\ [][RegexpNext]_rvars

\* A pattern that means something is compiled, and regexec() finds the first
\* place it matches at, there the preferred match, and what each () matched
\* last: the tricks of the program (literal runs, STAR, regmust, regstart,
\* reganch) change nothing.  regsub() gives the replacement or nothing when it
\* does not fit with its zero byte.
RegexpMeansPattern ==
    /\ r # <<>> /\ pat.tree # <<>> => r[1].ok
    /\ found # <<>> /\ pat.tree # <<>> =>
          LET at == Starts(pat.tree, str)
              first == CHOOSE i \in at : \A j \in at : i <= j
          IN /\ found[1].ok <=> at # {}
             /\ at # {} => LET w == Ways(pat.tree, str, first, NoCaps)[1]
                           IN /\ found[1].start = first
                              /\ found[1].end = w.end
                              /\ found[1].caps = w.caps
    /\ new # <<>> =>
          LET whole == FlattenSeq([k \in DOMAIN new[1].src |->
                           CASE new[1].src[k] = "&" -> Part(found[1], str, 0)
                             [] new[1].src[k] = "\\1" -> Part(found[1], str, 1)
                             [] OTHER -> <<new[1].src[k]>>])
          IN IF Len(whole) < new[1].n THEN new[1].out.ok /\ new[1].out.text = whole ELSE ~new[1].out.ok
=============================================================================
