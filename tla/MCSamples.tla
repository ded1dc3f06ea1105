------------------------------ MODULE MCSamples ------------------------------
(***************************************************************************)
(* The values, patterns, commands and texts that the components of         *)
(* MCValues are tried on.                                                  *)
(***************************************************************************)
EXTENDS Integers, Sequences, SequencesExt, TLC

(***************************************************************************)
(* The applications of operators: every operator on every pair of values,  *)
(* bytes of strings and buffers, and ranges with bounds inside and outside. *)
(***************************************************************************)
Of(t, v) == [type |-> t, held |-> v]
Number(n) == Of("number", n)
Chars(s) == Of("string", [i \in DOMAIN s |-> [shown |-> "char", of |-> s[i]]])

OperandValues ==
    <<Number(0), Number(3), Number(6), Number(-7), Of("real", 0), Of("real", 96), Of("real", -64),
      Chars(<<>>), Chars(<<1>>), Chars(<<1, 2>>), Of("buffer", <<0, 5>>), Of("buffer", <<7>>),
      Of("array", <<1, 2, 1>>), Of("array", <<2>>), Of("mapping", 1 :> 2),
      Of("mapping", 2 :> 3 @@ 1 :> 4), Of("object", 1), Of("function", 1)>>

\* Shifts and bits of negative numbers depend on the machine.
MCBits == {i \in DOMAIN OperandValues : OperandValues[i].type = "number" => OperandValues[i].held >= 0}

Pairs(ops, at) == {[op |-> t[1], l |-> OperandValues[t[2]], r |-> OperandValues[t[3]]] : t \in ops \X at \X at}

MCBinary ==
    Pairs({"+", "-", "*", "/", "%", "<", ">", "<=", ">=", "==", "!=", "index", "rindex",
           "+=", "-=", "*=", "/=", "%="}, DOMAIN OperandValues) \cup
    Pairs({"&", "|", "^", "<<", ">>", "&=", "|=", "^=", "<<=", ">>="}, MCBits)

MCBytes ==
    [op : {"byte =", "byte +=", "++", "--"}, l : {Of(t, n) : t \in {"char", "byte"}, n \in {1, 5, 255}},
     r : {Number(k) : k \in {0, 1, 251}}]

MCSeqs == {Chars(<<1, 2, 3>>), Of("buffer", <<1, 2, 3>>), Of("array", <<1, 2, 3>>)}
MCCodes == [from : BOOLEAN, to : BOOLEAN]
MCAts == (-2 .. 5) \X (-2 .. 5)

MCRanges == [op : {"range", "extract"}, code : MCCodes, at : MCAts, r : MCSeqs]

MCPuts ==
    UNION {[op : {"range ="}, code : MCCodes, at : MCAts, l : {s},
            r : {Of(s.type, SubSeq(s.held, 1, n)) : n \in 0 .. 3}] : s \in MCSeqs}

OperatorTrials == MCBinary \cup MCBytes \cup MCRanges \cup MCPuts
-----------------------------------------------------------------------------
(***************************************************************************)
(* Patterns for the regular expressions: trees, written out with the       *)
(* brackets they need, and texts that are no patterns.                     *)
(***************************************************************************)
Atoms == {<<"char", "a">>, <<"char", "b">>, <<"any">>, <<"class", {"a", "b"}, TRUE>>, <<"class", {"a"}, FALSE>>}

\* Trees that match no empty string, and what may stand for them.
Wide1 == Atoms \cup {<<"cat", a, b>> : a, b \in {<<"char", "a">>, <<"char", "b">>}}
         \cup {<<"or", <<"char", "a">>, <<"cat", <<"char", "a">>, <<"char", "b">>>>>>}
Wide2 == {<<m, a>> : m \in {"*", "+", "?"}, a \in Wide1}
Wide3 == Wide2 \cup {<<m, <<"+", a>>>> : m \in {"*", "+"}, a \in {<<"char", "a">>, <<"or", <<"char", "b">>, <<"char", "a">>>>}}
PatternTrees == {<<"cat", a, b>> : a \in Wide3, b \in {<<"char", "a">>, <<"char", "b">>, <<"eol">>, <<"*", <<"char", "b">>>>}}
           \cup {<<"or", a, b>> : a \in Wide2, b \in {<<"char", "b">>, <<"empty">>}}
           \cup {<<"cat", a, b>> : a \in {<<"bol">>, <<"char", "a">>, <<"cat", <<"char", "b">>, <<"char", "a">>>>}, b \in Wide3}

\* A tree with its groups numbered from left to right, and its text.
RECURSIVE PatternText(_, _, _)
Parens(x, ex) == LET o == IF ex THEN <<"\\", "(">> ELSE <<"(">>
                    c == IF ex THEN <<"\\", ")">> ELSE <<")">>
                IN o \o x \o c

PatternText(t, n, ex) ==
    LET Inner(u, k) == PatternText(u, k, ex)
        Grouped(u, k) == LET in == Inner(u, k + 1)
                         IN [text |-> Parens(in.text, ex), tree |-> <<"group", k, in.tree>>, n |-> in.n]
        Tight(u, k) == IF u[1] \in {"cat", "or", "*", "+", "?"} THEN Grouped(u, k) ELSE Inner(u, k)
    IN CASE t[1] = "char"  -> [text |-> <<t[2]>>, tree |-> t, n |-> n]
         [] t[1] = "any"   -> [text |-> <<".">>, tree |-> t, n |-> n]
         [] t[1] = "class" -> [text |-> IF t[3] THEN <<"[", "a", "-", "b", "]">> ELSE <<"[", "^", "a", "]">>, tree |-> t, n |-> n]
         [] t[1] = "bol"   -> [text |-> <<"^">>, tree |-> t, n |-> n]
         [] t[1] = "eol"   -> [text |-> <<"$">>, tree |-> t, n |-> n]
         [] t[1] = "empty" -> [text |-> <<>>, tree |-> t, n |-> n]
         [] t[1] = "cat"   -> LET a == IF t[2][1] = "or" THEN Grouped(t[2], n) ELSE Inner(t[2], n)
                                  b == IF t[3][1] = "or" THEN Grouped(t[3], a.n) ELSE Inner(t[3], a.n)
                              IN [text |-> a.text \o b.text, tree |-> <<"cat", a.tree, b.tree>>, n |-> b.n]
         [] t[1] = "or"    -> LET a == Inner(t[2], n) b == Inner(t[3], a.n)
                              IN [text |-> a.text \o <<"|">> \o b.text, tree |-> <<"or", a.tree, b.tree>>, n |-> b.n]
         [] OTHER -> LET a == Tight(t[2], n) IN [text |-> Append(a.text, t[1]), tree |-> <<t[1], a.tree>>, n |-> a.n]

MCPatterns ==
    {LET w == PatternText(t, 1, ex) IN [exp |-> w.text, excompat |-> ex, tree |-> w.tree] : t \in PatternTrees, ex \in BOOLEAN}
    \cup {[exp |-> e, excompat |-> FALSE, tree |-> <<>>] :
              e \in UNION {[1 .. n -> {"a", "(", ")", "*", "|", "[", "]", "\\", "<"}] : n \in 0 .. 3}}

MCStrings == UNION {[1 .. n -> {"a", "b"}] : n \in 0 .. 3}
MCSources == {<<"&", "b", "\\1">>}
-----------------------------------------------------------------------------
(***************************************************************************)
(* The values that are saved and restored: the characters that need an     *)
(* escape, objects (which cannot be saved), structures inside structures,  *)
(* and one that is too deep.                                               *)
(***************************************************************************)
SavedNumber(n) == <<"number", n>>
SavedString(s) == <<"string", s>>
SavedArray(s) == <<"array", s>>
SavedObject == <<"object", 1>>

MCLeaves ==
    {SavedNumber(0), SavedNumber(-12), <<"real", 75>>, SavedObject} \cup
    {SavedString(s) : s \in {<<>>, <<"a", "\"">>, <<"\\">>, <<"\n", ",">>, <<"]", ")">>, <<"\\", "\"">>}}

MCFlat ==
    {SavedArray(<<>>), SavedArray(<<SavedNumber(7), SavedString(<<",", "a">>)>>), SavedArray(<<SavedObject, SavedNumber(3)>>),
     <<"class", <<SavedString(<<"/">>), <<"real", 5>>>>>>, <<"mapping", <<>>>>,
     <<"mapping", <<<<SavedString(<<":">>), SavedNumber(1)>>, <<SavedNumber(2), SavedObject>>>>>>}

MCNested ==
    {SavedArray(<<a, b>>) : a, b \in MCFlat} \cup {<<"class", <<a, SavedNumber(1)>>>> : a \in MCFlat} \cup
    {<<"mapping", <<<<a, b>>, <<SavedNumber(4), a>>>>>> : a, b \in MCFlat}

MCDeep == {SavedArray(<<SavedArray(<<SavedArray(<<>>), SavedNumber(1)>>)>>)}

MCFirst == MCLeaves \cup MCFlat \cup MCNested \cup MCDeep
MCOther == {SavedNumber(0), SavedString(<<"\\", "\"">>), SavedArray(<<SavedArray(<<>>), SavedNumber(1)>>)} \cup MCDeep
MCLater == {SavedNumber(0), SavedObject} \cup MCDeep
-----------------------------------------------------------------------------
(***************************************************************************)
(* The commands a user of the editor types: each with and without an       *)
(* address list, alone and under g and v; and the files that are edited.   *)
(***************************************************************************)
MCTyped == {<<"x">>, <<"y">>}
Addr(k) == [kind |-> k, n |-> 0, off |-> 0, pat |-> "x", sep |-> ","]
Num(i) == [Addr("number") EXCEPT !.n = i]
MCOne == {Num(0), [Addr(".") EXCEPT !.off = -1], Addr("'"), Addr("/"), Addr("?")}
MCLists == {<<>>} \cup {<<a>> : a \in MCOne} \cup {<<Num(1), Num(2)>>, <<Num(2), Addr("$")>>,
    <<[Addr("/") EXCEPT !.sep = ";"], [Addr(".") EXCEPT !.off = 1]>>}
PlainCommand == [cmd |-> "p", addrs |-> <<>>, glob |-> "", range |-> <<>>, gpat |-> "x", pat |-> "x", rhs |-> <<>>, gflg |-> FALSE,
    dest |-> Addr("."), file |-> <<>>, result |-> "ok", before |-> 0, after |-> 0]
Cmd(k) == [PlainCommand EXCEPT !.cmd = k]
MCLines == {Cmd(k) : k \in {"NL", "a", "i", "c", "d", "j", "k", "p"}}
   \cup {[Cmd(k) EXCEPT !.dest = d] : k \in {"m", "t"}, d \in {Num(0), [Addr("$") EXCEPT !.off = -1]}}
   \cup {[Cmd("s") EXCEPT !.rhs = x[1], !.gflg = x[2], !.pat = x[3]] :
              x \in {<<<<"y">>, FALSE, "x">>, <<<<"y", "x">>, TRUE, "x">>, <<<<"newline">>, TRUE, "">>}}
   \cup {[Cmd("z") EXCEPT !.before = x[1], !.after = x[2]] : x \in {<<11, 10>>}}
   \cup {[Cmd("r") EXCEPT !.file = <<<< <<"x">> >>>>]}
MCAlone == {[Cmd(k) EXCEPT !.file = f] : k \in {"e", "E"}, f \in {<<>>, <<<< <<"x">>, <<"y">> >>>>}}
   \cup {Cmd("q"), Cmd("Q")} \cup {[Cmd(k) EXCEPT !.result = w] : k \in {"w", "x"}, w \in {"ok", "failed", "unopened"}}
MCGlob == {[c EXCEPT !.glob = v] : v \in {"g", "v"}, c \in {Cmd("d"), Cmd("p"), Cmd("k"), Cmd("a"), [Cmd("m") EXCEPT !.dest = Num(0)], Cmd("t"), [Cmd("s") EXCEPT !.rhs = <<"y">>],
   [Cmd("s") EXCEPT !.rhs = <<"newline">>, !.gflg = TRUE], [Cmd("s") EXCEPT !.rhs = <<"y", "x">>]}}
MCCommands == {[c EXCEPT !.addrs = a] : c \in MCLines, a \in MCLists} \cup MCAlone \cup {Cmd("r")}
   \cup {[c EXCEPT !.range = a] : c \in MCGlob, a \in {<<>>, <<Num(2), Addr("$")>>}}
   \cup {[Cmd("w") EXCEPT !.addrs = <<Num(1)>>]}
MCFiles == {<<>>, <<<< <<"x">>, <<"y">>, <<"y", "x">> >>>>}
-----------------------------------------------------------------------------
(***************************************************************************)
(* Programs to indent: statements inside statements, with and without      *)
(* braces, written out line by line with the depth of each.                *)
(***************************************************************************)
Shift == 4

L(toks, d) == [ws |-> (7 * Len(toks)) % 5, toks |-> toks, want |-> d, was |-> -1]
Cond(k) == <<k, "(", "t", ")">>
In(d) == d + Shift
RECURSIVE LinesOf(_, _)
BodyLines(s, d) == IF s[1] = "block" THEN LinesOf(s, d) ELSE LinesOf(s, In(d))
LinesOf(s, d) ==
    CASE s[1] = "stmt"  -> <<L(<<"t", ";">>, d)>>
      [] s[1] = "call"  -> <<L(<<"t", "(", "t">>, d), L(<<"t", ")", ";">>, d + Shift \div 2)>>
      [] s[1] = "array" -> <<L(<<"t", "({">>, d), L(<<"t">>, d + Shift \div 2), L(<<"})", ";">>, d)>>
      [] s[1] = "block" -> <<L(<<"{">>, d)>> \o FlattenSeq([i \in DOMAIN s[2] |-> LinesOf(s[2][i], In(d))]) \o <<L(<<"}">>, d)>>
      [] s[1] = "if"    -> <<L(Cond("if"), d)>> \o BodyLines(s[2], d)
      [] s[1] = "while" -> <<L(Cond("while"), d)>> \o BodyLines(s[2], d)
      [] s[1] = "do"    -> <<L(<<"do">>, d)>> \o BodyLines(s[2], d) \o <<L(Cond("while") \o <<";">>, d)>>
      [] s[1] = "else"  -> <<L(Cond("if"), d)>> \o BodyLines(s[2], d) \o
              (IF s[3][1] \in {"if", "else"}
                 THEN LET r == LinesOf(s[3], d) IN <<L(<<"else">> \o r[1].toks, d)>> \o Tail(r)
               ELSE <<L(<<"else">>, d)>> \o BodyLines(s[3], d))
      [] s[1] = "note"  -> <<L(<<"/*", "t">>, -1), L(<<"t", "*/">>, -1)>>
      [] s[1] = "hash"  -> <<L(<<"#", "t", "\\">>, -1), L(<<"t">>, -1)>>
      [] s[1] = "label" -> <<L(<<"case", "t">>, d - Shift)>>
      [] s[1] = "line"  -> <<L(<<"t", ";", "//", "t">>, d)>>
      [] s[1] = "text"  -> <<L(<<"t", "\"\\">>, d), L(<<"t", "\"", ";">>, -1)>>
FlatStatements == {<<"stmt">>, <<"call">>, <<"array">>, <<"line">>, <<"text">>}
\* A do ... while that is the body of another statement without braces is the one
\* thing the precedences get wrong: the while gets the indentation of the outer one.
BracelessBodies(T) == {x \in T : x[1] # "do"}
Wrapped(T) == {<<k, x>> : k \in {"if", "while", "do"}, x \in BracelessBodies(T)}
   \cup {<<"block", <<x, y>>>> : x \in T, y \in T \cup {<<"note">>, <<"hash">>}}
   \cup {<<"block", <<<<"label">>, x>>>> : x \in T}
Elses(T) == {<<"else", x, y>> : x \in {t \in T : t[1] \in {"stmt", "block", "while"}}, y \in BracelessBodies(T)}
Nested1 == Wrapped(FlatStatements) \cup Elses({<<"stmt">>, <<"block", <<<<"stmt">>>>>>, <<"if", <<"stmt">>>>})
Nested0 == {<<"stmt">>} \cup Wrapped({<<"stmt">>}) \cup Elses({<<"stmt">>})
Nested2 == Wrapped(Nested0) \cup Elses(Nested0)
Then == {<<"stmt">>, <<"do", <<"stmt">>>>}
Fun(ss) == <<L(<<"t", "(", "t", ")">>, 0), L(<<"{">>, 0)>> \o FlattenSeq([i \in DOMAIN ss |-> LinesOf(ss[i], In(0))]) \o <<L(<<"}">>, 0), L(<<>>, 0), L(<<"t", ";">>, 0)>>
MCTexts == {Fun(<<x, y>>) : x \in Nested1 \cup Nested2, y \in Then} \cup {Fun(<<<<"else", x, <<"stmt">>>>>>) : x \in {y \in Nested2 : y[1] = "block"}}
=============================================================================
