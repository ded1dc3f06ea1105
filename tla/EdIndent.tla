------------------------------ MODULE EdIndent ------------------------------
(***************************************************************************)
(* The I command of the editor (ed.c, indent_code): an operator-precedence *)
(* parser over the tokens of LPC that moves each line to the indentation   *)
(* its first token gets.  A line is the width of its leading white space   *)
(* and its tokens; the text is indented twice, the second time from what   *)
(* the first left.                                                         *)
(***************************************************************************)
EXTENDS Integers, Sequences, SequencesExt

CONSTANTS
    Programs,       \* the texts: sequences of lines [ws, toks, want, was]
    SHIFTWIDTH,
    STACKSZ

VARIABLES
    todo,     \* the lines still to be indented
    done,     \* the lines that have been
    st,       \* the static variables of the indenter
    pass      \* the first or the second time

ivars == <<todo, done, st, pass>>

-----------------------------------------------------------------------------
\* How tightly a token binds as the top of the stack (f) and as the next (g).
Tokens == <<"SEMICOLON", "LBRACKET", "RBRACKET", "LOPERATOR", "ROPERATOR", "LHOOK", "LHOOK2", "RHOOK", "TOKEN",
            "ELSE", "IF", "FOR", "WHILE", "XDO", "XEOT">>
Table(row) == [t \in ToSet(Tokens) |-> row[CHOOSE i \in DOMAIN Tokens : Tokens[i] = t]]

f == Table(<<7, 1, 7, 1, 2, 1, 1, 6, 4, 2, 6, 7, 7, 2, 0>>)
g == Table(<<2, 2, 1, 7, 1, 5, 5, 1, 3, 6, 2, 2, 2, 2, 0>>)

\* What indent_code() sets up.  after_keyword_t is not among it: it has the
\* value the last use of the command has left.
indent_code(after) ==
    [stack |-> <<"XEOT">>, ind |-> <<0>>, quote |-> FALSE, in_ppcontrol |-> FALSE, in_comment |-> "no",
     shi |-> 0, after_keyword |-> after, errs |-> FALSE]

\* shift(): a line keeps no less than no white space.
shift(ws, shi) == IF ws + shi < 0 THEN 0 ELSE ws + shi

\* The token a word of the line is.
TokenOf(word, s) ==
    CASE word = "{" -> "LBRACKET"                       [] word = "}" -> "RBRACKET"
      [] word = "(" -> IF s.after_keyword THEN "LOPERATOR" ELSE "LHOOK"
      [] word = "[" -> "LHOOK"                          [] word = "({" -> "LHOOK2"
      [] word \in {")", "]", "})"} -> "RHOOK"           [] word = ";" -> "SEMICOLON"
      [] word = "if" -> "IF"       [] word = "else" -> "ELSE"   [] word = "for" -> "FOR"
      [] word = "while" -> "WHILE" [] word = "do" -> "XDO"      [] OTHER -> "TOKEN"

Pop(s) == [s EXCEPT !.stack = Tail(@), !.ind = Tail(@)]

\* The handle is reduced: at least the top goes.
RECURSIVE Reduced(_)
Reduced(s) ==
    LET t == Pop(s) IN IF f[Head(t.stack)] >= g[Head(s.stack)] THEN Reduced(t) ELSE t

\* The indentation of a token, and the one after it.
Before(top, token, i) ==
    IF \/ token = "LBRACKET" /\ top \in {"ROPERATOR", "ELSE", "XDO"}
       \/ token = "RBRACKET"
       \/ token = "IF" /\ top = "ELSE"
      THEN i - SHIFTWIDTH
    ELSE IF token \in {"RHOOK", "ROPERATOR"} THEN i - SHIFTWIDTH \div 2 ELSE i

After(top, token, i) ==
    CASE token \in {"LBRACKET", "ROPERATOR", "ELSE", "XDO"} -> i + SHIFTWIDTH
      [] token \in {"LOPERATOR", "LHOOK", "LHOOK2"} -> i + SHIFTWIDTH \div 2
      [] token = "SEMICOLON" /\ top \in {"ROPERATOR", "ELSE"} -> i - SHIFTWIDTH
      [] OTHER -> i

\* Wrong on purpose: the shift is not relative to where the line is.
ShiftFromMargin(to, ws) == to

\* How far a line moves.
ShiftTo(to, ws) == to - ws

\* The parser takes one token; l is the line: where it was, where it is now,
\* and whether it is still to be indented.
RECURSIVE Parse(_, _, _, _)
Parse(s, l, word, given) ==
    LET top   == Head(s.stack)
        token == IF top = "LOPERATOR" /\ given = "RHOOK" THEN "ROPERATOR" ELSE given
        i     == Before(top, token, Head(s.ind))
        label == word = "case" /\ top = "LBRACKET"
        shi   == IF l.do THEN ShiftTo(i, l.ws) - (IF label THEN SHIFTWIDTH ELSE 0) ELSE s.shi
    IN IF f[top] > g[token] THEN Parse(Reduced(s), l, word, token)
       ELSE IF Len(s.stack) = STACKSZ THEN [s |-> [s EXCEPT !.errs = TRUE], l |-> l]
       ELSE [s |-> [s EXCEPT !.stack = <<token>> \o @, !.ind = <<After(top, token, i)>> \o @, !.shi = shi,
                             !.after_keyword = token \in {"IF", "FOR", "WHILE", "XDO"}],
             l |-> IF l.do THEN [l EXCEPT !.now = shift(l.ws, shi), !.do = FALSE] ELSE l]

\* One word of a line, in a comment, in a string that began on an earlier line,
\* or for the parser.
Word(r, word) ==
    LET s == r.s
        l == r.l
    IN CASE s.errs -> r
         [] ~s.errs /\ s.in_comment # "no" -> IF word = "*/" THEN [r EXCEPT !.s.in_comment = "no"] ELSE r
         [] ~s.errs /\ s.in_comment = "no" /\ s.quote ->
                IF word = "\"" THEN Parse([s EXCEPT !.quote = FALSE], l, word, "TOKEN") ELSE r
         [] ~s.errs /\ s.in_comment = "no" /\ ~s.quote /\ word \in {"/*", "//"} ->
                LET shi == ShiftTo(Head(s.ind), l.ws) IN
                [s |-> [s EXCEPT !.in_comment = word, !.shi = shi],
                 l |-> IF l.do THEN [l EXCEPT !.now = shift(l.ws, shi), !.do = FALSE] ELSE l]
         [] ~s.errs /\ s.in_comment = "no" /\ ~s.quote /\ word = "\"\\" ->     \* to be continued
                LET p == Parse(s, l, word, "TOKEN") IN [p EXCEPT !.s.quote = TRUE]
         [] OTHER -> Parse(s, l, word, TokenOf(word, s))

\* indent(): one line.
indent(s0, line) ==
    LET toks == line.toks
        s    == IF s0.quote THEN [s0 EXCEPT !.shi = 0] ELSE s0
        l    == [ws |-> line.ws, now |-> line.ws, do |-> FALSE]
        Scan(t, k) == FoldLeft(Word, [s |-> t, l |-> k], toks)
        last == IF toks = <<>> THEN "" ELSE toks[Len(toks)]
        Done(r) ==   \* a // comment ends with its line, unless it is empty; a string does not
            [r EXCEPT !.s.in_comment = IF @ = "//" /\ last # "//" THEN "no" ELSE @,
                      !.s.errs = @ \/ (r.s.quote /\ last \notin {"", "\\", "\"\\"})]
    IN CASE s.quote -> Done(Scan(s, l))
         [] ~s.quote /\ (s.in_ppcontrol \/ (toks # <<>> /\ toks[1] = "#")) ->
                [s |-> [s EXCEPT !.in_ppcontrol = toks # <<>> /\ toks[Len(toks)] = "\\"], l |-> l]
         [] ~s.quote /\ ~s.in_ppcontrol /\ toks = <<>> -> [s |-> s, l |-> [l EXCEPT !.now = 0]]
         [] ~s.quote /\ ~s.in_ppcontrol /\ toks # <<>> /\ toks[1] # "#" /\ s.in_comment # "no" ->
                Done(Scan(s, [l EXCEPT !.now = shift(line.ws, s.shi)]))
         [] OTHER -> Done(Scan(s, [l EXCEPT !.do = TRUE]))

-----------------------------------------------------------------------------
IndentInit ==
    /\ todo \in Programs
    /\ done = <<>>
    /\ st \in {indent_code(after) : after \in BOOLEAN}
    /\ pass = 1

\* The next line, until an error.
IndentLine ==
    /\ todo # <<>> /\ ~st.errs
    /\ LET r == indent(st, Head(todo)) IN
       /\ st' = r.s
       /\ done' = Append(done, [Head(todo) EXCEPT !.ws = r.l.now])
    /\ todo' = Tail(todo)
    /\ UNCHANGED pass

\* The command again, on what it has made.
Again ==
    /\ todo = <<>> /\ pass = 1
    /\ todo' = [i \in DOMAIN done |-> [done[i] EXCEPT !.was = done[i].ws]] /\ done' = <<>>
    /\ st' = indent_code(st.after_keyword)
    /\ pass' = 2

IndentNext == IndentLine \/ Again

IndentSpec == IndentInit /\ [][IndentNext]_ivars

-----------------------------------------------------------------------------
\* Every line is indented as deep as the statement it belongs to is nested
\* ("want"), whatever the white space was: in blocks, after if, else, for and
\* while with and without braces, and inside brackets.
IndentMatchesNesting == \A i \in DOMAIN done : done[i].want >= 0 => done[i].ws = done[i].want

\* "Find how much the comment has shifted, so the same shift can be used if the
\* comment continues on the next line": a text that is indented stays as it is
\* when it is indented again, the lines inside its comments as well.
IndentedOnce == pass = 2 => \A i \in DOMAIN done : done[i].ws = done[i].was
=============================================================================
