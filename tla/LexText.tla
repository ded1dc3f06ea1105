------------------------------ MODULE LexText ------------------------------
(***************************************************************************)
(* The lexer's transformations of text (lex.c, preprocess.c): the value of *)
(* an #if condition, the expansion of macros, text and array blocks, and   *)
(* the path of an included file.  Each is checked against what the text    *)
(* means, over a set of trials.                                            *)
(***************************************************************************)
EXTENDS Integers, Sequences, SequencesExt, FiniteSetsExt

CONSTANTS
  Trials,               \* what is tried: records with a field kind
  EXPANDMAX,            \* macro expansions in a line
  MAXCHUNK, NUMCHUNKS   \* characters in a chunk of a block, and chunks
VARIABLE trial
-----------------------------------------------------------------------------
(***************************************************************************)
(* Conditions: cond_get_exp() reads tokens with precedence climbing.       *)
(***************************************************************************)
\* optab2: the priorities of the binary operators.
Priority == [ o \in {"?", "||", "&&", "|", "^", "&", "==", "!=", "<", "<=", ">", ">=", "<<", ">>", "+", "-", "*", "/", "%"} |->
  CASE o = "?" -> 1 [] o = "||" -> 2 [] o = "&&" -> 3 [] o = "|" -> 4 [] o = "^" -> 5 [] o = "&" -> 6
    [] o \in {"==", "!="} -> 7 [] o \in {"<", "<=", ">", ">="} -> 8 [] o \in {"<<", ">>"} -> 9
    [] o \in {"+", "-"} -> 10 [] OTHER -> 11 ]
Unary == {"~", "!", "-", "+"}
Truth(b) == IF b THEN 1 ELSE 0
Abs(x) == IF x < 0 THEN -x ELSE x
Sgn(x) == IF x < 0 THEN -1 ELSE 1
Quotient(x, y) == Sgn(x) * Sgn(y) * (Abs(x) \div Abs(y))
\* A machine word is a sequence of bits; Width of them are enough for the trials.
Width == 6
Bit(x, i) == (x \div 2^i) % 2
Word(x) == LET u == x % 2^Width IN IF u >= 2^(Width - 1) THEN u - 2^Width ELSE u
Bits(x, y, Op(_, _)) == Word(FoldSet(LAMBDA i, a : a + 2^i * Truth(Op(Bit(x, i) = 1, Bit(y, i) = 1)), 0, 0..(Width - 1)))
Apply1(o, v) == CASE o = "~" -> -v - 1 [] o = "!" -> Truth(v = 0) [] o = "-" -> -v [] OTHER -> v
Apply2(o, x, y) ==
  CASE o = "*" -> x * y [] o = "+" -> x + y [] o = "-" -> x - y
    [] o = "/" -> IF y = 0 THEN x ELSE Quotient(x, y)
    [] o = "%" -> IF y = 0 THEN x ELSE x - y * Quotient(x, y)
    [] o = "<<" -> x * 2^y [] o = ">>" -> x \div 2^y
    [] o = "<" -> Truth(x < y) [] o = "<=" -> Truth(x <= y) [] o = ">" -> Truth(x > y) [] o = ">=" -> Truth(x >= y)
    [] o = "==" -> Truth(x = y) [] o = "!=" -> Truth(x # y)
    [] o = "&" -> Bits(x, y, LAMBDA a, b : a /\ b) [] o = "|" -> Bits(x, y, LAMBDA a, b : a \/ b)
    [] o = "^" -> Bits(x, y, LAMBDA a, b : a # b)
    [] o = "&&" -> Truth(x # 0 /\ y # 0) [] OTHER -> Truth(x # 0 \/ y # 0)

\* A token is a record: a number, a name, an operator or a bracket.
Num(n) == [t |-> "num", v |-> n]
Op(o) == [t |-> "op", o |-> o]
Name(x) == [t |-> "name", n |-> x]
IsOp(ts, o) == ts # <<>> /\ ts[1].t = "op" /\ ts[1].o = o

\* exgetc(): names are replaced: defined(X) by 0 or 1, a macro by its text, another name by 0.
RECURSIVE exgetc(_, _, _)
exgetc(ts, defs, n) ==
  IF ts = <<>> \/ ts[1].t # "name" THEN ts
  ELSE IF ts[1].n = "defined" THEN <<Num(Truth(ts[3].n \in DOMAIN defs))>> \o SubSeq(ts, 5, Len(ts))
  ELSE IF ts[1].n \in DOMAIN defs /\ n <= EXPANDMAX THEN exgetc(defs[ts[1].n].exps \o Tail(ts), defs, n + 1)
  ELSE <<Num(0)>> \o Tail(ts)

Got(v, rest, err) == [v |-> v, rest |-> rest, err |-> err]
RECURSIVE cond_get_exp(_, _, _)
RECURSIVE CondRest(_, _, _)
cond_get_exp(ts0, priority, defs) ==
  LET ts == exgetc(ts0, defs, 0)
  IN IF ts = <<>> THEN Got(0, ts, TRUE)
     ELSE IF IsOp(ts, "(")
     THEN LET in == cond_get_exp(Tail(ts), 0, defs)
              more == exgetc(in.rest, defs, 0)
          IN CondRest(Got(in.v, IF more = <<>> THEN more ELSE Tail(more), in.err \/ ~ IsOp(more, ")")), priority, defs)
     ELSE IF ts[1].t = "op"
     THEN IF ts[1].o \notin Unary \cup DOMAIN Priority THEN Got(0, Tail(ts), TRUE)
          ELSE LET arg == cond_get_exp(Tail(ts), 12, defs)
               IN CondRest(Got(Apply1(ts[1].o, arg.v), arg.rest, arg.err \/ ts[1].o \notin Unary), priority, defs)
     ELSE CondRest(Got(ts[1].v, Tail(ts), FALSE), priority, defs)
CondElse(g, second, priority, defs) ==
  LET more == exgetc(second.rest, defs, 0)
      third == cond_get_exp(Tail(more), 1, defs)
  IN IF ~ IsOp(more, ":") THEN Got(0, more, TRUE)
     ELSE CondRest(Got(IF g.v # 0 THEN second.v ELSE third.v, third.rest, g.err \/ second.err \/ third.err), priority, defs)
CondOp(g, o, second, priority, defs) ==
  IF o = "?" THEN CondElse(g, second, priority, defs)
  ELSE CondRest(Got(Apply2(o, g.v, second.v), second.rest, g.err \/ second.err \/ (o \in {"/", "%"} /\ second.v = 0)), priority, defs)
CondRest(g, priority, defs) ==
  LET ts == exgetc(g.rest, defs, 0)
  IN IF ts = <<>> \/ ts[1].t # "op" THEN [g EXCEPT !.rest = ts]
     ELSE IF ts[1].o \notin DOMAIN Priority
     THEN IF ts[1].o \in Unary THEN Got(0, ts, TRUE) ELSE [g EXCEPT !.rest = ts]
     ELSE IF priority >= Priority[ts[1].o] THEN [g EXCEPT !.rest = ts]
     ELSE CondOp(g, ts[1].o, cond_get_exp(Tail(ts), Priority[ts[1].o], defs), priority, defs)

\* What C makes of the condition: the value of its tree.
RECURSIVE TreeValue(_)
TreeValue(e) == CASE e.t = "leaf" -> e.v
                  [] e.t = "un" -> Apply1(e.o, TreeValue(e.a))
                  [] e.t = "bin" -> Apply2(e.o, TreeValue(e.a), TreeValue(e.b))
                  [] OTHER -> IF TreeValue(e.a) # 0 THEN TreeValue(e.b) ELSE TreeValue(e.c)
Bracket(s) == <<Op("(")>> \o s \o <<Op(")")>>
RECURSIVE Written(_, _)
\* The tree written with the brackets C's precedences need in a place of that priority.
Written(e, priority) ==
  CASE e.t = "leaf" -> e.toks
    [] e.t = "un" -> <<Op(e.o)>> \o Written(e.a, 12)
    [] e.t = "bin" -> LET s == Written(e.a, Priority[e.o] - 1) \o <<Op(e.o)>> \o Written(e.b, Priority[e.o])
                      IN IF Priority[e.o] <= priority THEN Bracket(s) ELSE s
    [] OTHER -> LET s == Written(e.a, 1) \o <<Op("?")>> \o Written(e.b, 1) \o <<Op(":")>> \o Written(e.c, 1)
                IN IF priority >= 1 THEN Bracket(s) ELSE s
CondMeans(tr) == cond_get_exp(Written(tr.tree, 0), 0, tr.defs) = Got(TreeValue(tr.tree), <<>>, FALSE)
-----------------------------------------------------------------------------
(***************************************************************************)
(* Macros.  A definition is [nargs, exps]; an argument's place in exps is  *)
(* [t |-> "mark", n].                                                      *)
(***************************************************************************)
Position(params, x) == CHOOSE i \in 1..Len(params) : params[i] = x /\ \A j \in 1..(i - 1) : params[j] # x
Mark(params, t) == IF t.t = "name" /\ t.n \in Range(params) THEN [t |-> "mark", n |-> Position(params, t.n)] ELSE t
handle_define(params, body) == [nargs |-> Len(params), exps |-> [i \in DOMAIN body |-> Mark(params, body[i])]]

\* The arguments of a call from behind its bracket: split at commas outside brackets.
RECURSIVE Arguments(_, _, _)
Arguments(ts, depth, args) ==
  IF ts = <<>> THEN [ok |-> FALSE, args |-> args, rest |-> ts]
  ELSE LET c == ts[1]
           add == [args EXCEPT ![Len(args)] = Append(@, c)]
       IN CASE c = Op(",") /\ depth = 0 -> Arguments(Tail(ts), 0, Append(args, <<>>))
            [] c = Op(")") /\ depth = 0 -> [ok |-> TRUE, args |-> args, rest |-> Tail(ts)]
            [] c = Op("(") -> Arguments(Tail(ts), depth + 1, add)
            [] c = Op(")") -> Arguments(Tail(ts), depth - 1, add)
            [] OTHER -> Arguments(Tail(ts), depth, add)
Filled(exps, args) == FlattenSeq([i \in DOMAIN exps |-> IF exps[i].t = "mark" THEN args[exps[i].n] ELSE <<exps[i]>>])

\* expand_define() of the name at the head of the text: the text that is read next.
CallExpanded(d, call) == IF ~ call.ok \/ Len(call.args) # d.nargs THEN [ok |-> FALSE, text |-> <<>>]
                         ELSE [ok |-> TRUE, text |-> Filled(d.exps, call.args) \o call.rest]
expand_define(ts, d) ==
  IF d.nargs = -1 THEN [ok |-> TRUE, text |-> d.exps \o Tail(ts)]
  ELSE IF ~ IsOp(Tail(ts), "(") THEN [ok |-> FALSE, text |-> <<>>]
  ELSE IF d.nargs = 0 THEN [ok |-> IsOp(SubSeq(ts, 3, Len(ts)), ")"), text |-> d.exps \o SubSeq(ts, 4, Len(ts))]
  ELSE CallExpanded(d, Arguments(SubSeq(ts, 3, Len(ts)), 0, <<<<>>>>))
\* yylex() of a whole line: what is read, a macro's text included.
RECURSIVE Lexed(_, _, _, _)
LexedNext(e, defs, n, out) == IF ~ e.ok THEN [ok |-> FALSE, out |-> out] ELSE Lexed(e.text, defs, n + 1, out)
Lexed(ts, defs, n, out) ==
  IF ts = <<>> THEN [ok |-> TRUE, out |-> out]
  ELSE IF ts[1].t = "name" /\ ts[1].n \in DOMAIN defs
  THEN IF n > EXPANDMAX THEN [ok |-> FALSE, out |-> out] ELSE LexedNext(expand_define(ts, defs[ts[1].n]), defs, n, out)
  ELSE Lexed(Tail(ts), defs, n, Append(out, ts[1]))

\* A call as a tree, as it is written, and as it is meant: the arguments first.
RECURSIVE CallText(_)
CallText(e) == IF e.t = "leaf" THEN <<e.tok>>
               ELSE IF e.args = <<>> THEN <<Name(e.n)>>
               ELSE <<Name(e.n), Op("(")>> \o
                    FlattenSeq([i \in DOMAIN e.args |-> (IF i > 1 THEN <<Op(",")>> ELSE <<>>) \o CallText(e.args[i])]) \o <<Op(")")>>
RECURSIVE CallMeaning(_, _)
CallMeaning(e, defs) ==
  IF e.t = "leaf" THEN <<e.tok>>
  ELSE LET d == defs[e.n]
       IN FlattenSeq([i \in DOMAIN d.exps |-> CASE d.exps[i].t = "mark" -> CallMeaning(e.args[d.exps[i].n], defs)
                                               [] d.exps[i].t = "name" /\ d.exps[i].n \in DOMAIN defs ->
                                                    CallMeaning([t |-> "call", n |-> d.exps[i].n, args |-> <<>>], defs)
                                               [] OTHER -> <<d.exps[i]>>])
MacroMeans(tr) == Lexed(CallText(tr.tree), tr.defs, 0, <<>>) = [ok |-> TRUE, out |-> CallMeaning(tr.tree, tr.defs)]
-----------------------------------------------------------------------------
(***************************************************************************)
(* Text and array blocks.  A character is "x", a quote, a backslash or the *)
(* terminator, one character long; the lines up to the one that begins     *)
(* with the terminator are copied into chunks.                             *)
(***************************************************************************)
Chunks(header) == [chunk |-> <<header>>, start |-> [c |-> 1, p |-> Len(header)], res |-> 0]
Opening(kind) == IF kind = "array" THEN <<"(", "{", "quote">> ELSE <<"quote">>
Separator(kind) == IF kind = "array" THEN <<"quote", ",", "quote">> ELSE <<"backslash", "n">>

Put(k, c) == [k EXCEPT !.chunk[Len(k.chunk)] = Append(@, c)]
NewChunkEarly(k) == IF k.res = 0 /\ Len(Last(k.chunk)) = MAXCHUNK THEN [k EXCEPT !.chunk = Append([@ EXCEPT ![Len(@)] = Front(@)], <<>>)] ELSE k
\* NEWCHUNK
NewChunk(k) == IF k.res = 0 /\ Len(Last(k.chunk)) = MAXCHUNK - 1
               THEN IF Len(k.chunk) = NUMCHUNKS THEN [k EXCEPT !.res = -2] ELSE [k EXCEPT !.chunk = Append(@, <<>>)]
               ELSE k
PutChar(k, c) == IF k.res # 0 THEN k ELSE Put(k, c)
Copy(k, c) == IF c \in {"quote", "backslash"} THEN PutChar(NewChunk(PutChar(NewChunk(k), "backslash")), c) ELSE PutChar(NewChunk(k), c)
CopyLine(k, line) == FoldLeft(Copy, k, line)

LineOf(k) == SubSeq(k.chunk[k.start.c], k.start.p + 1, Len(k.chunk[k.start.c]))
Terminates(k) == LineOf(k) # <<>> /\ LineOf(k)[1] = "END" /\ (Len(LineOf(k)) > 1 => LineOf(k)[2] # "x")
\* Room for the separator and the terminator is made in one chunk.
Separated(k, kind) ==
  LET room == Len(Last(k.chunk)) + 1 + Len(Separator(kind)) + 2 <= MAXCHUNK
      m == IF room THEN k ELSE [k EXCEPT !.chunk = Append(@, <<>>)]
      n == [m EXCEPT !.chunk[Len(m.chunk)] = @ \o Separator(kind)]
  IN IF ~ room /\ Len(k.chunk) = NUMCHUNKS THEN [k EXCEPT !.res = -2]
     ELSE [n EXCEPT !.start = [c |-> Len(n.chunk), p |-> Len(Last(n.chunk))]]

\* "Ick. go back and unprotect": one chunk of the rest of the terminator's line.  The
\* first backslash is dropped and the loop copies the character behind it unseen; at the
\* end of the chunk that is the NUL, and what lies behind the chunk ("stray") is moved too.
RECURSIVE Unprotected(_)
Unprotected(s) == IF s = <<>> THEN <<>>
                  ELSE <<s[1]>> \o Unprotected(SubSeq(s, IF Len(s) > 1 /\ s[2] = "backslash" THEN 3 ELSE 2, Len(s)))
Unprotect(s) ==
  LET i == SelectInSeq(s, LAMBDA c : c = "backslash")
  IN IF i = 0 THEN s
     ELSE SubSeq(s, 1, i - 1) \o (IF i = Len(s) THEN <<"stray">> ELSE Unprotected(SubSeq(s, i + 1, Len(s))))
\* get_array_block() puts the rest back as it is, protected.
PutBack(kind, s) == IF kind = "array" THEN s ELSE Unprotect(s)
Before(k, kind) ==
  LET keep == k.start.p - (IF kind = "text" THEN 0 ELSE IF k.start.c = 1 /\ k.start.p = 3 THEN 1 ELSE 2)
  IN FlattenSeq(SubSeq(k.chunk, 1, k.start.c - 1)) \o SubSeq(k.chunk[k.start.c], 1, keep)
Behind(k, kind) ==
  PutBack(kind, SubSeq(k.chunk[k.start.c], k.start.p + 2, Len(k.chunk[k.start.c])))
  \o FlattenSeq([i \in 1..(Len(k.chunk) - k.start.c) |-> PutBack(kind, k.chunk[k.start.c + i])])
BlockEnd(k, kind) == [res |-> 1, rest |-> Behind(k, kind),
                      text |-> Before(k, kind) \o (IF kind = "array" THEN <<"}", ")">> ELSE <<"quote">>)]
Failed(res) == [res |-> res, text |-> <<>>, rest |-> <<>>]
\* The chunks with all lines copied, the one of the terminator last.
RECURSIVE Copied(_, _, _)
CopiedLine(k, lines, kind) ==
  IF k.res # 0 THEN k
  ELSE IF Terminates(k) THEN [k EXCEPT !.res = 1]
  ELSE IF Tail(lines) = <<>> THEN [k EXCEPT !.res = -1]
  ELSE Copied(Separated(k, kind), Tail(lines), kind)
Copied(k, lines, kind) == IF k.res # 0 THEN k ELSE CopiedLine(CopyLine(k, lines[1]), lines, kind)
Block(k, kind) == IF k.res = 1 THEN BlockEnd(k, kind) ELSE Failed(k.res)
get_array_block(lines) == Block(Copied(Chunks(Opening("array")), lines, "array"), "array")
get_text_block(lines) == Block(Copied(Chunks(Opening("text")), lines, "text"), "text")

\* The block as it is meant: its lines quoted.
Quoted(line) == FlattenSeq([i \in DOMAIN line |-> IF line[i] \in {"quote", "backslash"} THEN <<"backslash", line[i]>> ELSE <<line[i]>>])
BlockText(kind, body) ==
  IF kind = "text" THEN <<"quote">> \o FlattenSeq([i \in DOMAIN body |-> Quoted(body[i]) \o Separator("text")]) \o <<"quote">>
  ELSE <<"(", "{">> \o FlattenSeq([i \in DOMAIN body |-> (IF i > 1 THEN <<",">> ELSE <<>>) \o <<"quote">> \o Quoted(body[i]) \o <<"quote">>]) \o <<"}", ")">>
NoBackslashes(s) == SelectSeq(s, LAMBDA c : c \notin {"backslash", "stray"})
BlockLines(tr) == Append(tr.body, <<"END">> \o tr.rest)
BlockOf(tr) == IF tr.block = "array" THEN get_array_block(BlockLines(tr)) ELSE get_text_block(BlockLines(tr))
\* A chunk behind the terminator ends between a backslash and the character it protects.
CutApart(tr) ==
  LET k == Copied(Chunks(Opening(tr.block)), BlockLines(tr), tr.block)
      upTo(i) == SubSeq(k.chunk[k.start.c], k.start.p + 2, Len(k.chunk[k.start.c]))
                 \o FlattenSeq(SubSeq(k.chunk, k.start.c + 1, i))
  IN \E i \in k.start.c..(Len(k.chunk) - 1) :
       FoldLeft(LAMBDA open, c : ~ open /\ c = "backslash", FALSE, upTo(i))
\* What follows the terminator is read next: as it was written behind a text block whose
\* chunks do not cut it apart, as it was protected behind an array block.
BlockMeans(tr) ==
  LET got == BlockOf(tr)
  IN \/ got.res = -2
     \/ /\ got.res = 1 /\ got.text = BlockText(tr.block, tr.body)
        /\ \/ tr.block = "text" /\ got.rest = tr.rest
           \/ tr.block = "text" /\ CutApart(tr) /\ NoBackslashes(got.rest) = NoBackslashes(tr.rest)
           \/ tr.block = "array" /\ got.rest = Quoted(tr.rest)
-----------------------------------------------------------------------------
(***************************************************************************)
(* merge(): the path of an included file from the path of the including    *)
(* one, both sequences of components.                                      *)
(***************************************************************************)
RECURSIVE Merged(_, _)
Merged(dest, from) ==
  IF from = <<>> THEN dest
  ELSE IF from[1] = ".." /\ Len(from) > 1 THEN IF dest = <<>> THEN dest ELSE Merged(Front(dest), Tail(from))
  ELSE IF from[1] = "." /\ Len(from) > 1 THEN Merged(dest, Tail(from))
  ELSE Merged(Append(dest, from[1]), Tail(from))
merge(current_file, name, absolute) == Merged(IF absolute THEN <<>> ELSE Front(current_file), name)
\* inc_open(): the directories of the include path are not tried for a name with dots in a row.
inc_open(name, exists, merged, dirs) ==
  IF merged \in exists THEN merged
  ELSE IF ".." \in Range(name) THEN <<>>
  ELSE LET found == SelectSeq(dirs, LAMBDA d : d \o name \in exists) IN IF found = <<>> THEN <<>> ELSE found[1] \o name
\* A path with .. left in it only names a directory.
PathMeans(tr) == LET p == inc_open(tr.name, tr.exists, merge(tr.file, tr.name, tr.absolute), tr.dirs)
                 IN /\ ".." \notin Range(p)
                    /\ p # <<>> => p \in tr.exists
-----------------------------------------------------------------------------
TextInit == trial = [kind |-> "none"]
TextNext == trial.kind = "none" /\ trial' \in Trials
TextSpec == TextInit /\ [][TextNext]_trial

\* An #if condition has the value C gives it (cond_get_exp(), preprocess.c
\* 187-396); a macro call within macro calls expands to what its arguments and
\* its body say, although the lexer replaces outer calls first and reads the
\* result again (expand_define(), lex.c 2612-2757); a block comes out as its
\* lines, whatever the chunk they lie in (get_array_block(), get_text_block(),
\* lex.c 487-785), and what stands behind its terminator is read next, except for
\* two deviations of the code (RestAsWritten): behind an array block every quote
\* and backslash has a backslash before it, behind a text block a backslash at the end
\* of a chunk may be lost; and no #include leaves the mudlib (merge(), inc_open(), lex.c
\* 230-383).
TextMeansWhatItSays ==
  CASE trial.kind = "cond" -> CondMeans(trial)
    [] trial.kind = "macro" -> MacroMeans(trial)
    [] trial.kind = "block" -> BlockMeans(trial)
    [] trial.kind = "path" -> PathMeans(trial)
    [] OTHER -> TRUE

\* "Put back trailing portion after terminator" (lex.c 551, 688): the line of the
\* terminator goes on as it was written.  It does not if it has quotes or backslashes.
\* Refuted; see the README, section 6.
RestAsWritten == trial.kind = "block" /\ BlockOf(trial).res = 1 => BlockOf(trial).rest = trial.rest
=============================================================================
