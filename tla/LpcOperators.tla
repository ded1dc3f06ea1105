---------------------------- MODULE LpcOperators ----------------------------
(***************************************************************************)
(* The operators of LPC: what the interpreter does with one (interpret.c,  *)
(* eoperators.c), what the C code generated from LPC does with it          *)
(* (cfuns.c), and what happens to the references on the stack.             *)
(*                                                                         *)
(* A trial is one application.  An expression operator finds its operands  *)
(* l and r on the stack and leaves a value; an assignment operator finds   *)
(* r and a pointer to a variable that holds l.  The outcome says what was  *)
(* left: the value, the variable, which operands gave up the reference     *)
(* they held ("gone", in order, a reference given up twice appearing       *)
(* twice), and after an error which operands are still on the stack, where *)
(* the unwinding of the error finds and frees them.                        *)
(*                                                                         *)
(* Reals are counted in 1/Scale, exactly; a string is a sequence of        *)
(* characters, or of the decimal text of a number taken as one character   *)
(* (sprintf %d, %f); numbers are not taken to their width.                 *)
(***************************************************************************)
EXTENDS Integers, Sequences, FiniteSets, TLC, Bitwise

CONSTANTS
    Trials,      \* the applications tried: [op, l, r] and for indexing [op, l, r, at]
    Scale        \* the denominator of reals

VARIABLES
    trial,       \* the application under way
    interpreted, \* the outcome of the interpreter, <<>> before
    generated    \* the outcome of the generated C code, <<>> before

vars == <<trial, interpreted, generated>>

Value(t, v)  == [type |-> t, held |-> v]
Num(n)       == Value("number", n)
Real(n)      == Value("real", n)
Str(s)       == Value("string", s)
Char(c)      == [shown |-> "char", of |-> c]

References == {"string", "buffer", "array", "mapping", "object", "function"}
Numeric    == {"number", "real"}

Same(a, b) == a.type = b.type /\ a.held = b.held

Both(l, r, t) == l.type = t /\ r.type = t

Operands == {"l", "r"}

\* An application that leaves a value.
Gives(value, gone) ==
    [kind |-> "value", value |-> value, var |-> <<>>, gone |-> gone, left |-> {}]

\* error(): what is still on the stack is freed when the error unwinds it.
Fails(left) == [kind |-> "error", value |-> <<>>, var |-> <<>>, gone |-> <<>>, left |-> left]

\* An assignment operator that leaves a value and changes its variable.
Stores(value, var, gone) == [Gives(value, gone) EXCEPT !.var = <<var>>]

Crash == [Fails({}) EXCEPT !.kind = "crash"]

-----------------------------------------------------------------------------
(* Numbers. *)

\* The number as a count of 1/Scale.
Scaled(x) == IF x.type = "real" THEN x.held ELSE x.held * Scale

\* Conversion of a real to an integer cuts toward zero.
Cut(n) == IF n >= 0 THEN n \div Scale ELSE -((-n) \div Scale)

Quotient(a, b) ==
    LET Abs(n) == IF n < 0 THEN -n ELSE n
        q      == Abs(a) \div Abs(b)
    IN IF (a < 0) = (b < 0) THEN q ELSE -q

Remainder(a, b) == a - b * Quotient(a, b)

\* + - * / on two numbers, two reals, or one of each.
Arith(op, l, r) ==
    LET a == Scaled(l)
        b == Scaled(r)
        whole == Both(l, r, "number")
    IN CASE op = "+" -> IF whole THEN Num(l.held + r.held) ELSE Real(a + b)
         [] op = "-" -> IF whole THEN Num(l.held - r.held) ELSE Real(a - b)
         [] op = "*" -> IF whole THEN Num(l.held * r.held) ELSE Real((a * b) \div Scale)
         [] op = "/" -> IF whole THEN Num(Quotient(l.held, r.held)) ELSE Real(Quotient(a * Scale, b))

Truth(b) == Num(IF b THEN 1 ELSE 0)

Text(x) == <<[shown |-> x.type, of |-> x.held]>>

\* strcmp(a, b) < 0
Before(a, b) ==
    \E n \in 0 .. Len(a) :
        /\ n <= Len(b) /\ SubSeq(a, 1, n) = SubSeq(b, 1, n)
        /\ \/ n = Len(a) /\ n < Len(b)
           \/ n < Len(a) /\ n < Len(b) /\ a[n + 1].of < b[n + 1].of

Less(l, r) == IF l.type = "string" THEN Before(l.held, r.held) ELSE Scaled(l) < Scaled(r)

Relation(op, l, r) ==
    CASE op = "<" -> Less(l, r) [] op = ">" -> Less(r, l)
      [] op = "<=" -> ~Less(r, l) [] op = ">=" -> ~Less(l, r)

-----------------------------------------------------------------------------
(* Arrays and mappings, by what they hold (array.c and mapping.c are      *)
(* modelled for themselves in LpcValues).                                  *)

Joined(m, n) == n @@ m

Composed(m, n) == [k \in {j \in DOMAIN m : m[j] \in DOMAIN n} |-> n[m[k]]]

Without(a, b) == SelectSeq(a, LAMBDA x : \A i \in DOMAIN b : b[i] # x)

Common(a, b) == SelectSeq(a, LAMBDA x : \E i \in DOMAIN b : b[i] = x)

-----------------------------------------------------------------------------
(* The interpreter.  The operands that hold no reference do not matter to  *)
(* what is gone, so an operand is named whatever its type.                 *)

\* case F_ADD.
F_ADD(l, r) ==
    CASE {l.type, r.type} \subseteq Numeric -> Gives(Arith("+", l, r), <<>>)
      [] l.type = "string" /\ r.type \in Numeric -> Gives(Str(l.held \o Text(r)), <<"l">>)
      [] l.type \in Numeric /\ r.type = "string" -> Gives(Str(Text(l) \o r.held), <<"r">>)
      [] Both(l, r, "string")  -> Gives(Str(l.held \o r.held), <<"l", "r">>)
      [] Both(l, r, "buffer")  -> Gives(Value("buffer", l.held \o r.held), <<"r", "l">>)
      [] Both(l, r, "array")   -> Gives(Value("array", l.held \o r.held), <<"l", "r">>)
      [] Both(l, r, "mapping") -> Gives(Value("mapping", Joined(l.held, r.held)), <<"r", "l">>)
      [] OTHER -> Fails(IF r.type \in Numeric THEN {"l"} ELSE Operands)

\* Wrong on purpose: the stack pointer is not put back before the error.
SubtractForgetsRight(l, r) ==
    CASE {l.type, r.type} \subseteq Numeric -> Gives(Arith("-", l, r), <<>>)
      [] Both(l, r, "array") -> Gives(Value("array", Without(l.held, r.held)), <<"l", "r">>)
      [] OTHER -> Fails({"l"})

\* case F_SUBTRACT.
F_SUBTRACT(l, r) ==
    CASE {l.type, r.type} \subseteq Numeric -> Gives(Arith("-", l, r), <<>>)
      [] Both(l, r, "array") -> Gives(Value("array", Without(l.held, r.held)), <<"l", "r">>)
      [] OTHER -> Fails(Operands)

\* case F_MULTIPLY.
F_MULTIPLY(l, r) ==
    CASE {l.type, r.type} \subseteq Numeric -> Gives(Arith("*", l, r), <<>>)
      [] Both(l, r, "mapping") -> Gives(Value("mapping", Composed(l.held, r.held)), <<"r", "l">>)
      [] OTHER -> Fails(Operands)

\* case F_DIVIDE; the divisor, a number, is already popped when it is zero.
F_DIVIDE(l, r) ==
    CASE {l.type, r.type} \subseteq Numeric ->
             IF r.held = 0 THEN Fails({"l"}) ELSE Gives(Arith("/", l, r), <<>>)
      [] OTHER -> Fails(Operands)

\* case F_MOD.
F_MOD(l, r) ==
    CASE Both(l, r, "number") ->
             IF r.held = 0 THEN Fails({"l"}) ELSE Gives(Num(Remainder(l.held, r.held)), <<>>)
      [] OTHER -> Fails(Operands)

\* f_ge(), f_gt(), f_le() and f_lt().
f_compare(op, l, r) ==
    CASE {l.type, r.type} \subseteq Numeric -> Gives(Truth(Relation(op, l, r)), <<>>)
      [] Both(l, r, "string") -> Gives(Truth(Relation(op, l, r)), <<"r", "l">>)
      [] OTHER -> Fails(Operands)

\* f_eq(): strings by content, the other references by address.  The
\* operands of a trial are different arrays, mappings, ..., unless equal.
f_eq(l, r) ==
    CASE {l.type, r.type} \subseteq Numeric -> Gives(Truth(Scaled(l) = Scaled(r)), <<>>)
      [] l.type = r.type -> Gives(Truth(l.held = r.held), <<"r", "l">>)
      [] OTHER -> Gives(Truth(FALSE), <<"r", "l">>)

\* f_ne().
f_ne(l, r) ==
    CASE {l.type, r.type} \subseteq Numeric -> Gives(Truth(Scaled(l) # Scaled(r)), <<>>)
      [] l.type = r.type -> Gives(Truth(l.held # r.held), <<"r", "l">>)
      [] OTHER -> Gives(Truth(TRUE), <<"r", "l">>)

\* & | ^ on numbers.
Bits(op, a, b) == CASE op = "&" -> a & b [] op = "|" -> a | b [] op = "^" -> a ^^ b

Shift(op, a, n) == IF op = "<<" THEN a * 2 ^ n ELSE a \div (2 ^ n)

\* f_and(): arrays as well as numbers.
f_and(l, r) ==
    CASE Both(l, r, "array")  -> Gives(Value("array", Common(l.held, r.held)), <<"r", "l">>)
      [] Both(l, r, "number") -> Gives(Num(Bits("&", l.held, r.held)), <<>>)
      [] OTHER -> Fails(Operands)

\* f_or(), f_xor().
f_bits(op, l, r) ==
    IF Both(l, r, "number") THEN Gives(Num(Bits(op, l.held, r.held)), <<>>) ELSE Fails(Operands)

\* f_lsh(), f_rsh().
f_shift(op, l, r) ==
    IF Both(l, r, "number") THEN Gives(Num(Shift(op, l.held, r.held)), <<>>) ELSE Fails(Operands)

-----------------------------------------------------------------------------
(* Assignment operators: l is what the variable holds. *)

\* A number and a real: the variable keeps its type.
Kept(l, x) == IF l.type = "number" /\ x.type = "real" THEN Num(Cut(x.held)) ELSE x

\* case F_ADD_EQ.  A real += a number adds, and then takes the branch of
\* the missing else: the error comes after the sum has been stored.
F_ADD_EQ(l, r) ==
    LET sum == F_ADD(l, r) IN
    CASE l.type = "string" /\ r.type \in Numeric \cup {"string"} ->
             Stores(sum.value, sum.value, <<"l", "r">>)
      [] l.type = "number" /\ r.type \in Numeric ->
             LET x == Kept(l, sum.value) IN Stores(x, x, <<>>)
      [] Both(l, r, "real") -> Stores(sum.value, sum.value, <<>>)
      [] l.type = "real" /\ r.type = "number" ->
             [Fails({"r"}) EXCEPT !.var = <<sum.value>>]
      [] l.type = r.type /\ l.type \in {"buffer", "array"} ->
             Stores(sum.value, sum.value, <<"r", "l">>)
      [] Both(l, r, "mapping") -> Stores(sum.value, sum.value, <<"r">>)
      [] OTHER -> Fails({"r"})

\* f_sub_eq().
f_sub_eq(l, r) ==
    LET rest == F_SUBTRACT(l, r) IN
    CASE {l.type, r.type} \subseteq Numeric -> Stores(rest.value, Kept(l, rest.value), <<>>)
      [] Both(l, r, "array") -> Stores(rest.value, rest.value, <<"l", "r">>)
      [] OTHER -> Fails({"r"})

\* f_mult_eq(): the composition in place returns no mapping, and what it
\* returns is pushed.
f_mult_eq(l, r) ==
    CASE {l.type, r.type} \subseteq Numeric ->
             LET x == Arith("*", l, r) IN Stores(x, Kept(l, x), <<>>)
      [] Both(l, r, "mapping") -> Crash
      [] OTHER -> Fails({"r"})

\* f_div_eq().
f_div_eq(l, r) ==
    CASE {l.type, r.type} \subseteq Numeric ->
             IF r.held = 0 THEN Fails({"r"})
             ELSE LET x == Arith("/", l, r) IN Stores(x, Kept(l, x), <<>>)
      [] OTHER -> Fails({"r"})

\* f_mod_eq().
f_mod_eq(l, r) ==
    IF Both(l, r, "number") /\ r.held # 0
      THEN LET x == Num(Remainder(l.held, r.held)) IN Stores(x, x, <<>>)
      ELSE Fails({"r"})

\* f_and_eq(), f_or_eq(), f_xor_eq(): numbers only.
f_bits_eq(op, l, r) ==
    IF Both(l, r, "number")
      THEN LET x == Num(Bits(op, l.held, r.held)) IN Stores(x, x, <<>>)
      ELSE Fails({"r"})

\* f_lsh_eq(), f_rsh_eq().
f_shift_eq(op, l, r) ==
    IF Both(l, r, "number")
      THEN LET x == Num(Shift(op, l.held, r.held)) IN Stores(x, x, <<>>)
      ELSE Fails({"r"})

\* What is wanted of a byte of a string or a buffer (T_LVALUE_BYTE): a byte,
\* and in a string not the zero that would end it.
Byte(l, n) ==
    IF l.type = "char" /\ n % 256 = 0 THEN Fails({}) ELSE
    LET x == Value(l.type, n % 256) IN Stores(Num(n % 256), x, <<>>)

\* F_ASSIGN and F_VOID_ASSIGN through a T_LVALUE_BYTE, F_ADD_EQ of one.
AssignByte(op, l, r) ==
    IF r.type # "number" THEN Fails({"r"})
    ELSE Byte(l, IF op = "=" THEN r.held ELSE l.held + r.held)

\* F_INC, F_DEC, F_PRE_INC, F_PRE_DEC, F_POST_INC, F_POST_DEC.  A real is
\* stepped by the increment of its bits as an integer in F_PRE_INC, which no
\* value of the model stands for: the trials have none.
Bump(op, l) ==
    LET step == IF op = "++" THEN 1 ELSE -1 IN
    CASE l.type = "number" -> LET x == Num(l.held + step) IN Stores(x, x, <<>>)
      [] l.type = "real"   -> LET x == Real(l.held + step * Scale) IN Stores(x, x, <<>>)
      [] l.type \in {"char", "byte"} -> Byte(l, l.held + step)
      [] OTHER -> Fails({})

-----------------------------------------------------------------------------
(* Indexing and ranges.  "l" is the index or the pair of bounds, r what is *)
(* indexed; "<" in the name counts from the end.                           *)

FromEnd(r, n) == Len(r.held) - n

Element(r, i) ==
    CASE r.type = "array"  -> Num(r.held[i + 1])
      [] r.type = "buffer" -> Num(IF i = Len(r.held) THEN 0 ELSE r.held[i + 1])
      [] r.type = "string" -> Num(IF i = Len(r.held) THEN 0 ELSE r.held[i + 1].of)

\* case F_INDEX: a string and a buffer may be read one past the end, where a
\* string has its zero.
F_INDEX(l, r) ==
    CASE r.type = "mapping" ->
             Gives(IF l.type = "number" /\ l.held \in DOMAIN r.held THEN Num(r.held[l.held]) ELSE Num(0), <<"l", "r">>)
      [] r.type \in {"array", "buffer", "string"} /\ l.type = "number" ->
             IF l.held < 0 \/ l.held > Len(r.held) \/ (r.type = "array" /\ l.held = Len(r.held))
               THEN Fails(Operands) ELSE Gives(Element(r, l.held), <<"r">>)
      [] OTHER -> Fails(Operands)

\* case F_RINDEX.
F_RINDEX(l, r) ==
    CASE r.type \in {"array", "buffer", "string"} /\ l.type = "number" ->
             LET i == FromEnd(r, l.held) IN
             IF i < 0 \/ i > Len(r.held) \/ (r.type = "array" /\ i = Len(r.held))
               THEN Fails(Operands) ELSE Gives(Element(r, i), <<"r">>)
      [] OTHER -> Fails(Operands)

\* The part of a string: from and to are cut to it one after the other.
SliceString(s, from, to) ==
    LET f == IF from < 0 THEN 0 ELSE from IN
    IF to < f \/ f >= Len(s) THEN <<>>
    ELSE IF to >= Len(s) - 1 THEN SubSeq(s, f + 1, Len(s))
    ELSE SubSeq(s, f + 1, to + 1)

SliceBuffer(s, from, to) ==
    LET f == IF from < 0 THEN 0 ELSE from IN
    IF to < f \/ f >= Len(s) THEN <<>>
    ELSE SubSeq(s, f + 1, (IF to >= Len(s) THEN Len(s) - 1 ELSE to) + 1)

slice_array(s, from, to) ==
    LET f == IF from < 0 THEN 0 ELSE from
        t == IF to >= Len(s) THEN Len(s) - 1 ELSE to
    IN IF f > t THEN <<>> ELSE SubSeq(s, f + 1, t + 1)

\* f_range(): code tells which bounds count from the end.
f_range(code, at, r) ==
    LET to   == IF code.to THEN FromEnd(r, at[2]) ELSE at[2]
        from == IF code.from THEN FromEnd(r, at[1]) ELSE at[1]
    IN CASE r.type = "string" -> Gives(Str(SliceString(r.held, from, to)), <<"r">>)
         [] r.type = "buffer" -> Gives(Value("buffer", SliceBuffer(r.held, from, to)), <<"r">>)
         [] r.type = "array"  -> Gives(Value("array", slice_array(r.held, from, to)), <<"r">>)
         [] OTHER -> Fails({"r"})

\* f_extract_range(): to the end.
f_extract_range(code, at, r) ==
    LET from == IF code.from THEN FromEnd(r, at[1]) ELSE at[1]
        f    == IF from < 0 THEN 0 ELSE from
    IN CASE r.type \in {"string", "buffer"} ->
                Gives(Value(r.type, IF f >= Len(r.held) THEN <<>> ELSE SubSeq(r.held, f + 1, Len(r.held))), <<"r">>)
         [] r.type = "array" -> Gives(Value("array", slice_array(r.held, from, Len(r.held) - 1)), <<"r">>)
         [] OTHER -> Fails({"r"})

\* push_lvalue_range(): the bounds of a range that is assigned to must lie
\* in the value; ind2 is one past the second.
LvalueRange(code, at, l) ==
    LET ind2 == (IF code.to THEN FromEnd(l, at[2]) ELSE at[2]) + 1
        ind1 == IF code.from THEN FromEnd(l, at[1]) ELSE at[1]
    IN IF ind1 \in 0 .. Len(l.held) /\ ind2 \in 0 .. Len(l.held) THEN <<ind1, ind2>> ELSE <<>>

\* assign_lvalue_range() and copy_lvalue_range().  A buffer that changes its
\* length gets fsize bytes of the header of the other buffer instead of its
\* contents: Header stands for them.
Header(n) == [i \in 1 .. n |-> -1]

copy_lvalue_range(code, at, l, r) ==
    LET ind == LvalueRange(code, at, l)
        size == ind[2] - ind[1]
        new == IF l.type = "buffer" /\ Len(r.held) # size THEN Header(Len(r.held)) ELSE r.held
    IN IF ind = <<>> \/ l.type # r.type THEN Fails({"r"})
       ELSE Stores(r, Value(l.type, SubSeq(l.held, 1, ind[1]) \o new \o SubSeq(l.held, ind[2] + 1, Len(l.held))),
                   <<"r">>)

\* The same when the value of the assignment is used: it stays on the stack.
assign_lvalue_range(code, at, l, r) == copy_lvalue_range(code, at, l, r)

-----------------------------------------------------------------------------
Relations   == {"<", ">", "<=", ">="}
Assignments == {"+=", "-=", "*=", "/=", "%=", "&=", "|=", "^=", "<<=", ">>="}

\* The instruction of an operator on values, by interpreter or library.
Instruction(op, l, r) ==
    CASE op = "+" -> F_ADD(l, r)       [] op = "-" -> F_SUBTRACT(l, r)
      [] op = "*" -> F_MULTIPLY(l, r)  [] op = "/" -> F_DIVIDE(l, r)
      [] op = "%" -> F_MOD(l, r)       [] op \in Relations -> f_compare(op, l, r)
      [] op = "==" -> f_eq(l, r)       [] op = "!=" -> f_ne(l, r)
      [] op = "&" -> f_and(l, r)       [] op \in {"|", "^"} -> f_bits(op, l, r)
      [] op \in {"<<", ">>"} -> f_shift(op, l, r)
      [] op = "+=" -> F_ADD_EQ(l, r)   [] op = "-=" -> f_sub_eq(l, r)
      [] op = "*=" -> f_mult_eq(l, r)  [] op = "/=" -> f_div_eq(l, r)
      [] op = "%=" -> f_mod_eq(l, r)   [] op = "&=" -> f_bits_eq("&", l, r)
      [] op = "|=" -> f_bits_eq("|", l, r) [] op = "^=" -> f_bits_eq("^", l, r)
      [] op = "<<=" -> f_shift_eq("<<", l, r) [] op = ">>=" -> f_shift_eq(">>", l, r)
      [] op = "index" -> F_INDEX(l, r) [] op = "rindex" -> F_RINDEX(l, r)
      [] op \in {"++", "--"} -> Bump(op, l)
      [] op \in {"byte =", "byte +="} -> AssignByte(IF op = "byte =" THEN "=" ELSE "+", l, r)

-----------------------------------------------------------------------------
(* The C code generated from LPC calls a library of its own for most        *)
(* operators, a copy of the interpreter's instructions; the others call the *)
(* functions of eoperators.c.                                               *)

c_add(l, r) == F_ADD(l, r)

c_subtract(l, r) == F_SUBTRACT(l, r)

c_multiply(l, r) == F_MULTIPLY(l, r)

c_divide(l, r) == F_DIVIDE(l, r)

c_mod(l, r) == F_MOD(l, r)

c_le(l, r) == f_compare("<=", l, r)

c_gt(l, r) == f_compare(">", l, r)

c_ge(l, r) == f_compare(">=", l, r)

\* c_lt() has moved sp when it compares strings, and compares the value below
\* with the left one: any answer.
c_lt(l, r, any) ==
    IF Both(l, r, "string") THEN Gives(Truth(any), <<"r", "l">>) ELSE f_compare("<", l, r)

c_index(l, r) == F_INDEX(l, r)

c_rindex(l, r) == F_RINDEX(l, r)

\* A byte without the interpreter's look for a zero.
PlainByte(l, n) == LET x == n % 256 IN Stores(Num(x), Value(l.type, x), <<>>)

\* c_inc(), c_dec(), c_pre_inc(), c_pre_dec(), c_post_inc(), c_post_dec().
c_bump(op, l) ==
    IF l.type \in {"char", "byte"} THEN PlainByte(l, IF op = "++" THEN l.held + 1 ELSE l.held - 1)
    ELSE Bump(op, l)

\* c_add_eq().
c_add_eq(l, r) == F_ADD_EQ(l, r)

\* c_assign() and c_void_assign() of a byte, c_add_eq() of one.
c_assign(op, l, r) ==
    IF r.type # "number" THEN Fails({"r"})
    ELSE PlainByte(l, IF op = "byte =" THEN r.held ELSE l.held + r.held)

Generated(op, l, r, any) ==
    CASE op = "+" -> c_add(l, r)      [] op = "-" -> c_subtract(l, r)
      [] op = "*" -> c_multiply(l, r) [] op = "/" -> c_divide(l, r)
      [] op = "%" -> c_mod(l, r)      [] op = "<" -> c_lt(l, r, any)
      [] op = "<=" -> c_le(l, r)      [] op = ">" -> c_gt(l, r) [] op = ">=" -> c_ge(l, r)
      [] op = "+=" -> c_add_eq(l, r)  [] op \in {"++", "--"} -> c_bump(op, l)
      [] op = "index" -> c_index(l, r) [] op = "rindex" -> c_rindex(l, r)
      [] op \in {"byte =", "byte +="} -> c_assign(op, l, r)
      [] OTHER -> Instruction(op, l, r)

-----------------------------------------------------------------------------
Ranges == {"range", "extract", "range ="}

Ranged(t) ==
    CASE t.op = "range"   -> f_range(t.code, t.at, t.r)
      [] t.op = "extract" -> f_extract_range(t.code, t.at, t.r)
      [] t.op = "range =" -> assign_lvalue_range(t.code, t.at, t.l, t.r)

Init ==
    /\ trial \in Trials
    /\ interpreted = <<>>
    /\ generated = <<>>

\* eval_instruction() meets the operator.
Interpret ==
    /\ interpreted = <<>>
    /\ interpreted' = <<IF trial.op \in Ranges THEN Ranged(trial)
                       ELSE Instruction(trial.op, trial.l, trial.r)>>
    /\ UNCHANGED <<trial, generated>>

\* The generated code comes to the operator.
Generate ==
    /\ generated = <<>> /\ trial.op \notin Ranges
    /\ \E any \in BOOLEAN : generated' = <<Generated(trial.op, trial.l, trial.r, any)>>
    /\ UNCHANGED <<trial, interpreted>>

Next == Interpret \/ Generate

Spec == Init /\ [][Next]_vars

-----------------------------------------------------------------------------
Outcomes == {interpreted[i] : i \in DOMAIN interpreted} \cup {generated[i] : i \in DOMAIN generated}

Times(o, x) == Cardinality({i \in DOMAIN o.gone : o.gone[i] = x})

\* Every reference an operator takes off the stack is given up exactly once:
\* freed, or passed on in the result; after an error the operands that hold a
\* reference are still on the stack, from where error() frees them, and the
\* variable of an assignment still holds its own.
NothingLost ==
    \A o \in Outcomes :
        LET stacked == IF trial.op \in Assignments \cup {"range =", "byte =", "byte +=", "++", "--"}
                         THEN {"r"} ELSE Operands
            Owed(x)  == x \in DOMAIN trial /\ trial[x].type \in References
        IN /\ o.kind = "value" => \A x \in stacked : Owed(x) => Times(o, x) = 1
           /\ o.kind = "error" => \A x \in stacked : Owed(x) => x \in o.left
           /\ o.kind = "error" => o.gone = <<>>
           /\ \A x \in Operands : Times(o, x) <= 1

Plain(op) ==
    CASE op = "+=" -> "+" [] op = "-=" -> "-" [] op = "*=" -> "*" [] op = "/=" -> "/"
      [] op = "%=" -> "%" [] op = "&=" -> "&" [] op = "|=" -> "|" [] op = "^=" -> "^"
      [] op = "<<=" -> "<<" [] op = ">>=" -> ">>"

\* Where x op= y is not x = x op y: a number += a string is refused, a real +=
\* a number is an error with the sum stored, &= knows no arrays, and *= of
\* mappings pushes no mapping.
Apart(op, l, r) ==
    \/ op = "+=" /\ l.type = "number" /\ r.type = "string"
    \/ op = "+=" /\ l.type = "real" /\ r.type \in {"number", "string"}
    \/ op = "&=" /\ Both(l, r, "array")
    \/ op = "*=" /\ Both(l, r, "mapping")

\* Apart from the cases above x op= y does what x = x op y does, for every
\* type of x and y: it fails when the operator fails, leaves x alone then, and
\* otherwise x holds the result, cut to an integer where x was one.
AssignAgrees ==
    \A o \in Outcomes :
        trial.op \in Assignments /\ ~Apart(trial.op, trial.l, trial.r) =>
            LET p == Instruction(Plain(trial.op), trial.l, trial.r) IN
            /\ o.kind = p.kind
            /\ o.kind = "error" => o.var = <<>>
            /\ o.kind = "value" => Same(o.var[1], Kept(trial.l, p.value))

\* The elements of s from index f up to index t, in order.
Part(s, f, t) ==
    LET wanted == {i \in DOMAIN s : f <= i - 1 /\ i - 1 <= t}
        Lowest == CHOOSE i \in wanted : \A j \in wanted : i <= j
    IN IF wanted = {} THEN <<>> ELSE SubSeq(s, Lowest, Lowest + Cardinality(wanted) - 1)

\* A range takes exactly the elements whose index lies between its bounds, from
\* a string, a buffer and an array alike and for bounds outside of them; a
\* range that is assigned to leaves the elements before and after it, and reads
\* back what was assigned (a buffer that changes its length excepted).
SlicesAgree ==
    \A o \in Outcomes :
        trial.op \in Ranges /\ o.kind = "value" =>
            LET s    == IF trial.op = "range =" THEN trial.l.held ELSE trial.r.held
                n    == Len(s)
                from == IF trial.code.from THEN n - trial.at[1] ELSE trial.at[1]
                to   == CASE trial.op = "extract" -> n - 1
                          [] OTHER -> IF trial.code.to THEN n - trial.at[2] ELSE trial.at[2]
                m    == Len(trial.r.held)
            IN IF trial.op # "range =" THEN o.value.held = Part(s, from, to)
               ELSE LET x == o.var[1].held IN
                    /\ Part(x, 0, from - 1) = Part(s, 0, from - 1)
                    /\ Part(x, from + m, Len(x)) = Part(s, to + 1, n)
                    /\ trial.l.type = "buffer" \/ Part(x, from, from + m - 1) = trial.r.held
=============================================================================
