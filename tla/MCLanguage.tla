----------------------------- MODULE MCLanguage -----------------------------
(***************************************************************************)
(* From the text of a program to its evaluation: the stages of the         *)
(* compiler and of the interpreter share no state here and are checked     *)
(* side by side.  part says which one a behaviour is about; the            *)
(* preprocessor and the evaluation have their own variables, the others    *)
(* share v1..v9, which are 0 where a part does not use them.               *)
(***************************************************************************)
EXTENDS Preprocessor, LpcTree, Evaluation

VARIABLES part, v1, v2, v3, v4, v5, v6, v7, v8, v9

(***************************************************************************)
(* For LexInput: four files, each including the next, and macros that fit  *)
(* in front of outp or need a buffer of their own.                         *)
(***************************************************************************)
Eol == 0

Macros == (10 :> <<4, 5>>) @@ (11 :> <<6, 7, 8, 10, 6, 7, 8>>)
Lines(some, n) == {FlattenSeq(q) : q \in UNION {[1..i -> some] : i \in 0..n}}

MCSources == {[files |-> <<<<22, Eol>> \o a, b, c, d>>, macros |-> Macros] :
                a \in {<<>>, <<11, 1, Eol>>, <<30, Eol>>, <<3, 2, 1, Eol, 1, 1>>},
                b \in {<<23, Eol>>, <<11, Eol, 23, Eol>>, <<30, Eol, 23, Eol, 10, Eol>>},
                c \in Lines({<<2, 3, Eol>>, <<11, 1, Eol>>, <<30, Eol>>, <<24, Eol>>}, 3) \cup {<<2, Eol, 24>>},
                d \in {<<>>, <<3, Eol>>, <<11, 1, Eol>>, <<30, Eol, 3, Eol, 3, 2, Eol>>, <<1, Eol, 3, 2, 1, Eol, 3, 3>>}}

(***************************************************************************)
(* For LpcMachine.  Locals: 1 is an array or a number, 2 a small number, 3 *)
(* is 0 at first, 4 holds the elements of an inner foreach.                *)
(***************************************************************************)
N(n) == <<"num", n>>
X == <<"var", 1>>
Y == <<"var", 2>>
I == <<"var", 3>>
Z == <<"var", 4>>
Use(e) == <<"expr", <<"call", "use", <<e>>>>>>
Fail(e) == <<"expr", <<"call", "fail", <<e>>>>>>
UseTwo(a, b) == <<"call", "use", <<a, b, N(0)>>>>
Do(ss) == <<"block", ss>>
When(c, s) == <<"if", c, s, <<"empty">>>>

Tests == <<
  Y, <<"not", Y>>, <<"lt", Y, N(2)>>, <<"eq", Y, N(1)>>, <<"ne", Y, N(0)>>, <<"ne", X, Y>>,
  <<"ge", I, Y>>, <<"le", I, Y>>, <<"gt", I, Y>>, <<"not", <<"gt", Y, N(1)>>>>, <<"not", <<"ge", Y, N(1)>>>>,
  <<"and", X, Y>>, <<"or", <<"or", Y, UseTwo(Y, X)>>, X>>,
  <<"and", <<"and", Y, <<"lt", Y, N(2)>>>>, <<"or", I, X>>>>,
  <<"not", <<"and", Y, X>>>>, <<"cond", <<"not", X>>, Y, N(300)>>, <<"set", 3, Y>>,
  <<"comma", <<"set", 3, <<"call", "use", <<Y>>>>>>, <<"eq", I, N(-3)>>>>,
  <<"eq", <<"catch", Fail(Y)>>, N(0)>>, <<"catch", When(<<"lt", X, Y>>, Use(I))>>,
  <<"timed", Use(Y)>> >>

\* What becomes of a test: a statement, a branch, a value, an argument
Testing(c) == <<
  <<"expr", c>>, <<"if", c, Use(N(1)), Use(N(2))>>, <<"if", c, <<"empty">>, Use(N(2))>>,
  When(c, <<"expr", <<"inc", 3>>>>), <<"return", <<"cond", c, X, N(70)>>>>,
  <<"expr", <<"cond", c, I, Y>>>>, <<"return", UseTwo(Y, c)>>,
  <<"return", <<"not", c>>>>, <<"expr", <<"eq", <<"call", "use", <<N(8)>>>>, c>>>>,
  <<"if", c, When(<<"not", X>>, Use(N(5))), <<"if", Y, Use(N(6)), Use(N(7))>>>> >>

\* Loop bodies: 3 counts in most loops
Bodies == <<
  Use(I), Do(<<When(<<"eq", I, N(1)>>, <<"continue">>), Use(I)>>),
  Do(<<When(<<"eq", I, N(1)>>, <<"break">>), Use(I)>>),
  <<"switch", I, <<<<"case", 0, 0>>, Use(N(10)), <<"case", 1, 1>>, <<"continue">>, <<"default">>, <<"break">>>>>>,
  <<"foreach", 4, X, Do(<<When(<<"eq", Z, N(2)>>, <<"return", I>>), Use(Z)>>)>>,
  <<"foreach", 4, X, Do(<<When(<<"eq", Z, I>>, <<"break">>), Use(Z)>>)>>,
  <<"expr", <<"catch", Do(<<Use(I), Fail(I), Use(X)>>)>>>>,
  When(<<"gt", I, N(0)>>, <<"return", <<"catch", <<"foreach", 4, X, Fail(Z)>>>>>>) >>

Loops(b) == <<
  <<"while", <<"dec", 2>>, Do(<<b>>)>>,
  <<"for", <<"set", 3, N(0)>>, <<"lt", I, Y>>, <<"inc", 3>>, b>>,
  <<"for", <<"set", 3, N(0)>>, <<"lt", I, N(2)>>, <<"inc", 3>>, b>>,
  <<"for", <<"set", 3, N(0)>>, <<"lt", I, <<"cond", X, N(2), Y>>>>, <<"inc", 3>>, b>>,
  <<"do", b, <<"lt", <<"inc", 3>>, N(3)>>>>,
  <<"foreach", 3, X, b>>,
  <<"for", N(0), N(1), <<"inc", 3>>, Do(<<When(<<"gt", I, N(2)>>, <<"break">>), b>>)>>,
  <<"while", <<"not", <<"ge", <<"inc", 3>>, N(3)>>>>, b>>,
  <<"while", <<"ne", <<"dec", 2>>, N(0)>>, Do(<<b, <<"expr", <<"inc", 3>>>>>>)>>,
  <<"do", b, N(0)>> >>

\* Functions in which a variable dies
Dying == <<
  Do(<<Use(X), <<"expr", <<"set", 1, N(1)>>>>, <<"return", X>>>>),
  Do(<<Use(X), <<"expr", <<"set", 1, <<"call", "use", <<X>>>>>>>>, <<"return", UseTwo(X, X)>>>>),
  Do(<<Use(X), When(Y, <<"expr", <<"set", 1, N(1)>>>>), Use(X)>>),
  Do(<<Use(X), <<"foreach", 3, X, When(I, <<"expr", <<"set", 1, N(1)>>>>)>>, Use(X)>>),
  Do(<<Use(X), <<"switch", Y, <<<<"case", 1, 1>>, <<"expr", <<"set", 1, Y>>>>, <<"case", 2, 2>>, Use(X)>>>>,
       <<"return", X>>>>),
  Do(<<When(Y, <<"return", X>>), Use(X)>>) >>

\* Functions in which the optimizer takes a variable for dead that is not:
\* an assignment that && or an error leaves out, a read in time_expression()
Undead == <<
  Do(<<Use(X), <<"expr", <<"and", Y, <<"set", 1, N(1)>>>>>>, Use(X)>>),
  Do(<<Use(X), <<"expr", <<"catch", <<"expr", <<"set", 1, <<"call", "fail", <<Y>>>>>>>>>>>>, Use(X)>>),
  Do(<<Use(X), <<"expr", <<"timed", Use(X)>>>>>>) >>

\* Functions that return out of a catch { }
Returning == << Do(<<<<"expr", <<"catch", Do(<<<<"return", N(5)>>>>)>>>>, Use(Y)>>) >>

(***************************************************************************)
(* Switches: labels at every subset of Keys, or with ranges, each label's  *)
(* statements falling through to the next label's after an even one.       *)
(***************************************************************************)
Keys == <<9, 7, 6, 4, 3, 2, 0>>
Ranged == <<
  <<<<0, 2>>>>, <<<<0, 2>>, <<4, 4>>>>, <<<<1, 1>>, <<3, 5>>>>, <<<<0, 0>>, <<2, 4>>, <<6, 7>>>>,
  <<<<0, 1>>, <<2, 3>>, <<5, 8>>>>, <<<<0, 0>>, <<1, 1>>, <<3, 4>>, <<6, 6>>, <<8, 9>>>>,
  <<<<1, 2>>, <<3, 3>>, <<4, 4>>, <<7, 9>>>>, <<<<0, 0>>, <<2, 2>>, <<3, 3>>, <<4, 4>>, <<6, 8>>>> >>
Labels == Ranged \o
  [i \in 1 .. 127 |-> LET ks == SelectSeq([j \in 1 .. 7 |-> IF (i \div 2^(j-1)) % 2 = 1 THEN Keys[j] ELSE -1],
                                        LAMBDA k : k >= 0)
                      IN [j \in DOMAIN ks |-> <<ks[j], ks[j]>>]]
Switch(v, labels, default) ==
  Do(<<<<"switch", v,
         FlattenSeq([i \in DOMAIN labels |->
           <<<<"case", labels[i][1], labels[i][2]>>, Use(N(labels[i][1]))>>
             \o (IF labels[i][1] % 2 = 0 THEN <<>> ELSE <<<<"break">>>>)])
         \o (IF default THEN <<<<"default">>, Use(N(66))>> ELSE <<>>)>>, Use(N(11))>>)

Array == [t |-> "arr", n |-> 1]
Nu(n) == [t |-> "num", n |-> n]
Args == << <<Array, Nu(0), Nu(0), Nu(0)>>, <<Array, Nu(2), Nu(0), Nu(0)>>, <<Nu(0), Nu(1), Nu(0), Nu(0)>> >>

WithArgs(body, opt) == [i \in DOMAIN Args |-> [body |-> body, args |-> Args[i], optimize |-> opt]]
All(bodies, opt) == FlattenSeq([i \in DOMAIN bodies |-> WithArgs(bodies[i], opt)])
MCElements == << <<1, 2>> >>

Straight == FlattenSeq([i \in DOMAIN Tests |-> Testing(Tests[i])])
Looping == FlattenSeq([i \in DOMAIN Bodies |-> Loops(Bodies[i])])
Switching == FlattenSeq([i \in DOMAIN Labels |-> [v \in 1 .. 12 |->
               [body |-> Switch(N(v - 2), Labels[i], i % 2 = 0), args |-> Args[1], optimize |-> FALSE]]])

MCFunctions == All(Straight, FALSE) \o All(Looping, FALSE) \o All(Looping, TRUE)
               \o All(Dying, TRUE) \o All(Undead, FALSE) \o Switching
MCUndead == All(Undead, TRUE)
MCReturning == All(Returning, FALSE)

(***************************************************************************)
(* For Programs: texts of files that inherit each other.                   *)
(***************************************************************************)
Inherit(from, mods) == [k |-> "inherit", file |-> from, mods |-> mods]
Proto(name) == [k |-> "proto", name |-> name, mods |-> {}]
Def(name, mods) == [k |-> "def", name |-> name, mods |-> mods]
Var(init) == [k |-> "var", init |-> init]

MCFunctionNames == <<"f", "g">>

(* Overloading by the file itself, by a later and by an earlier inherit, by *)
(* a prototype before and after the inherit, and the same file inherited   *)
(* twice on different ways.                                                *)
MCPrograms ==
    [f \in {"a", "b", "c", "d"} |->
        CASE f = "a" -> {<<Var(TRUE), Def("g", {"STATIC"}), Def("f", {"PRIVATE"})>>,
                            <<Proto("f"), Def("g", {})>>}
          [] f = "b" -> {<<Inherit("a", {}), Var(FALSE), Def("f", {})>>, <<Proto("f"), Inherit("a", {}), Proto("g")>>}
          [] f = "c" -> {<<Inherit("a", {}), Inherit("b", {})>>, <<Def("g", {}), Inherit("b", {}), Var(TRUE)>>,
                            <<Inherit("b", {"STATIC"}), Proto("f"), Inherit("a", {}), Def("f", {})>>}
          [] f = "d" -> {<<Inherit("c", {}), Inherit("a", {}), Inherit("b", {})>>,
                            <<Inherit("b", {}), Inherit("c", {"PRIVATE"}), Def("g", {})>>}]
-----------------------------------------------------------------------------
Input == INSTANCE LexInput WITH
  Sources <- MCSources, DEFMAX <- 22, MAXLINE <- 5, src <- v1, lex <- v2

Texts == INSTANCE MCLexText WITH
  Trials <- {}, EXPANDMAX <- 20, MAXCHUNK <- 12, NUMCHUNKS <- 3, trial <- v1

Text == INSTANCE LexText WITH
  Trials <- Texts!MCTrials, EXPANDMAX <- 20, MAXCHUNK <- 12, NUMCHUNKS <- 3, trial <- v1

Machine == INSTANCE LpcMachine WITH
  Functions <- MCFunctions, Elements <- MCElements, MaxLog <- 8, PushMask <- 63, PushMax <- 3, ByteMax <- 255,
  fun <- v1, code <- v2, pc <- v3, locals <- v4, stack <- v5, handlers <- v6, log <- v7, status <- v8, value <- v9

\* The functions that return out of a catch { }.
FromCatch == INSTANCE LpcMachine WITH
  Functions <- MCReturning, Elements <- MCElements, MaxLog <- 8, PushMask <- 63, PushMax <- 3, ByteMax <- 255,
  fun <- v1, code <- v2, pc <- v3, locals <- v4, stack <- v5, handlers <- v6, log <- v7, status <- v8, value <- v9

Inheritance == INSTANCE Programs WITH
  Sources <- MCPrograms, Names <- MCFunctionNames, NO_INDEX <- 9, APPLY_CACHE_SIZE <- 2, MaxCompiles <- 4,
  progs <- v1, ids <- v2, cache <- v3, found <- v4
-----------------------------------------------------------------------------
others == <<v1, v2, v3, v4, v5, v6, v7, v8, v9>>

From5 == v5 = 0 /\ v6 = 0 /\ v7 = 0 /\ v8 = 0 /\ v9 = 0
From3 == v3 = 0 /\ v4 = 0 /\ From5

Init ==
  /\ PreInit /\ EvaluationInit
  /\ \/ part = "preprocessor" /\ v1 = 0 /\ v2 = 0 /\ From3
     \/ part = "input" /\ Input!LexInit /\ From3
     \/ part = "text" /\ Text!TextInit /\ v2 = 0 /\ From3
     \/ part = "code" /\ Machine!Init
     \/ part = "programs" /\ Inheritance!ProgramsInit /\ From5
     \/ part = "evaluation" /\ v1 = 0 /\ v2 = 0 /\ From3

Next ==
  \/ part = "preprocessor" /\ PreNext /\ UNCHANGED <<part, others, m>>
  \/ part = "input" /\ Input!LexNext /\ UNCHANGED <<part, v3, v4, v5, v6, v7, v8, v9, preVars, m>>
  \/ part = "text" /\ Text!TextNext /\ UNCHANGED <<part, v2, v3, v4, v5, v6, v7, v8, v9, preVars, m>>
  \/ part = "code" /\ Machine!Next /\ UNCHANGED <<part, preVars, m>>
  \/ part = "programs" /\ Inheritance!ProgramsNext /\ UNCHANGED <<part, v5, v6, v7, v8, v9, preVars, m>>
  \/ part = "evaluation" /\ EvaluationNext /\ UNCHANGED <<part, others, preVars>>

Spec == Init /\ [][Next]_<<part, others, preVars, m>>

\* Functions with a return inside catch { }, which the compiler accepts.
ReturningInit == PreInit /\ EvaluationInit /\ part = "returning" /\ FromCatch!Init
ReturningNext == FromCatch!NextReturning /\ UNCHANGED <<part, preVars, m>>
ReturningSpec == ReturningInit /\ [][ReturningNext]_<<part, others, preVars, m>>
-----------------------------------------------------------------------------
(***************************************************************************)
(* The properties; PreprocessorSound and EvaluationSound are those of      *)
(* their modules.                                                          *)
(***************************************************************************)
\* The characters the compiler gets are those of the files in the order of the
\* includes and expansions, through every split, merge and release of the
\* input buffers.
LexedInOrder == part = "input" => Input!LexedInOrder

\* Conditions of #if mean what C's precedences say, macros expand to what their
\* text says, text and array blocks keep their lines, what follows a block is read
\* next (as written, but for the quotes and backslashes behind an array block or at the
\* end of a chunk), and include names are resolved to the file they name.
TextMeansWhatItSays == part = "text" => Text!TextMeansWhatItSays

\* The code of a function does what its text says, under #pragma optimize too,
\* and every statement leaves the stack as high as it found it.
CodeMeansText == part = "code" => Machine!CodeMeansText /\ Machine!StackBalanced

\* However inherits and overloads are nested and recompiled, a call reaches the
\* function the language says, through the compressed tables and the cache of
\* apply_low() alike.
ProgramsSound == part = "programs" => Inheritance!ProgramsSound

\* What CodeMeansText says, for functions with a return inside catch { }.
ReturnLeavesCatch == part = "returning" => FromCatch!CodeMeansText
=============================================================================
