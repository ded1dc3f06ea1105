------------------------------ MODULE MCLexText ------------------------------
(***************************************************************************)
(* Trials for the lexer's transformations of text.                         *)
(***************************************************************************)
EXTENDS LexText, TLC

Leaf(n) == [t |-> "leaf", v |-> n, toks |-> <<Num(n)>>]
Leaves == {Leaf(0), Leaf(2), Leaf(3)}
Named == {[t |-> "leaf", v |-> 1, toks |-> <<Name("defined"), Op("("), Name("M"), Op(")")>>],
          [t |-> "leaf", v |-> 3, toks |-> <<Name("M")>>], [t |-> "leaf", v |-> 0, toks |-> <<Name("X")>>]}
Un(o, a) == [t |-> "un", o |-> o, a |-> a]
Bin(o, a, b) == [t |-> "bin", o |-> o, a |-> a, b |-> b]
If(a, b, c) == [t |-> "if", a |-> a, b |-> b, c |-> c]
Ops == {"||", "&&", "|", "^", "&", "==", "<", "<<", "-", "*"}
Two == {Bin(o, a, Leaf(2)) : o \in Ops, a \in {Leaf(0), Leaf(3)}}
Trees == {Bin(o, x, Leaf(3)) : o \in DOMAIN Priority \ {"?"}, x \in Two} \cup {Bin(o, Leaf(3), x) : o \in Ops \cup {"/", "%", ">>", "!=", ">=", ">", "<=", "+"}, x \in Two}
         \cup {Un(o, x) : o \in Unary, x \in Two \cup {Un(o, Leaf(2)) : o \in Unary}} \cup {Bin(o, Un(u, Leaf(2)), Leaf(3)) : o \in Ops, u \in Unary}
         \cup {If(x, Leaf(2), y) : x \in Two, y \in Two} \cup {If(Leaf(0), x, y) : x \in Two, y \in Leaves}
         \cup {Bin(o, If(x, Leaf(2), Leaf(3)), Leaf(3)) : o \in Ops, x \in Leaves \cup Named} \cup {Bin(o, x, y) : o \in Ops, x \in Named, y \in Named}
NonZero(e) == e.t = "bin" /\ e.o \in {"/", "%"} => TreeValue(e.b) # 0
\* Shifts by a negative number are undefined.
Shifts(e) == e.t = "bin" /\ e.o \in {"<<", ">>"} => TreeValue(e.b) >= 0
Conds == {[kind |-> "cond", tree |-> e, defs |-> [m \in {"M"} |-> [nargs |-> -1, exps |-> <<Num(3)>>]]] : e \in {x \in Trees : NonZero(x) /\ Shifts(x)}}

a0 == Name("a")
Defs == [m \in {"O", "F", "G", "H"} |->
          CASE m = "O" -> [nargs |-> -1, exps |-> <<Num(1), Name("b")>>]
            [] m = "F" -> handle_define(<<"p">>, <<Op("["), Name("p"), Op("]"), Name("p")>>)
            [] m = "G" -> handle_define(<<"p", "q">>, <<Name("q"), Name("O"), Name("p")>>)
            [] OTHER -> handle_define(<<"p", "q">>, <<Op("("), Name("q"), Op(";"), Name("p"), Op(")")>>)]
Call(n, args) == [t |-> "call", n |-> n, args |-> args]
Calls0 == {[t |-> "leaf", tok |-> a0], [t |-> "leaf", tok |-> Num(1)], Call("O", <<>>)}
Calls1 == Calls0 \cup {Call("F", <<x>>) : x \in Calls0} \cup {Call(g, <<x, y>>) : g \in {"G", "H"}, x \in Calls0, y \in Calls0}
Calls2 == {Call("F", <<x>>) : x \in Calls1} \cup {Call(g, <<x, y>>) : g \in {"G", "H"}, x \in Calls1, y \in Calls0}
Calls == {[kind |-> "macro", tree |-> x, defs |-> Defs] : x \in Calls2}

LineTexts == {<<>>, <<"x">>, <<"quote">>, <<"backslash", "x">>, <<"x", "quote", "x">>, <<"x", "END">>, <<"END", "x">>}
Bodies == UNION {[1..n -> LineTexts] : n \in 0..3}
\* What follows the terminator: a string and an escaped character among it, and enough of
\* both to be cut by the end of a chunk at every place.
Rests == {<<>>, <<",", "x">>, <<"quote">>, <<",", "quote", "x", "quote">>, <<"backslash">>, <<",", "quote", "backslash", "n", "quote">>,
          <<"backslash", "quote", "backslash", "x", "quote", "backslash", ",", "quote">>}
Blocks == {[kind |-> "block", block |-> b, body |-> s, rest |-> r] : b \in {"text", "array"}, s \in Bodies, r \in Rests}

Component == {"a", "..", ".", "f"}
Names3 == UNION {[1..n -> Component] : n \in 1..3}
Paths == {[kind |-> "path", name |-> n, absolute |-> ab, file |-> f, dirs |-> <<<<"inc">>, <<"a">>>>,
           exists |-> {<<"f">>, <<"a", "f">>, <<"inc", "f">>, <<"..", "f">>, <<"inc", "..", "..", "f">>, <<"a", "..", "..", "f">>}] :
            n \in Names3, ab \in BOOLEAN, f \in {<<"o">>, <<"a", "o">>, <<"a", "b", "o">>}}
MCTrials == Conds \cup Calls \cup Blocks \cup Paths
=============================================================================
