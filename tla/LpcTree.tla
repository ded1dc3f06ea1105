------------------------------ MODULE LpcTree ------------------------------
(***************************************************************************)
(* The parse trees of the LPC compiler: what the grammar's actions build   *)
(* from a function body (grammar.y.pre, trees.c), and what the optimizer   *)
(* of generate.c then changes in them.                                     *)
(*                                                                         *)
(* A function body is written as nested tuples, <<construct, parts...>>:   *)
(*   num n, var i, set i e, dec i, inc i, not e, eq|ne|lt|le|gt|ge a b,    *)
(*   and|or a b, cond c a b, comma a b, call f args, catch s, timed s;     *)
(*   expr e, if c s t, while c s, do s c, for e c i s, foreach i e s,      *)
(*   switch e items, break, continue, return e, block ss, empty            *)
(* with the items of a switch being statements and <<"case", low, high>>   *)
(* (a single label has high = low) and <<"default">>.                      *)
(***************************************************************************)
EXTENDS Integers, Sequences, SequencesExt, TLC

(***************************************************************************)
(* Nodes.  v, l and r are the unions of parse_node_t: an opcode, a number, *)
(* a node or, for an argument list, a sequence of nodes.                   *)
(***************************************************************************)
Nil == [kind |-> "nil"]
Node(kind, v, l, r) == [kind |-> kind, v |-> v, l |-> l, r |-> r]
IS_NODE(n, kind, v) == n.kind = kind /\ n.v = v
Number(n) == Node("number", n, Nil, Nil)
Local(i) == Node("opcode_1", "LOCAL", i, Nil)
LocalLvalue(i) == Node("opcode_1", "LOCAL_LVALUE", i, Nil)
Unary(op, r) == Node("unary", op, Nil, r)
Binary(op, l, r) == Node("binary", op, l, r)

Loop(type, block, inc, test) ==
  [kind |-> "loop", type |-> type, v |-> block, l |-> inc, r |-> test]

\* CREATE_STATEMENTS, and the grammar's rules that leave it out for an empty part
Statements(l, r) == Node("two_values", 0, l, r)
Joined(l, r) ==
  IF l.kind # "nil" /\ r.kind # "nil" THEN Statements(l, r)
  ELSE IF l.kind = "nil" THEN r ELSE l

(***************************************************************************)
(* insert_pop_value(): the same effects, and no value left on the stack.   *)
(***************************************************************************)
RECURSIVE insert_pop_value(_)
insert_pop_value(e) ==
  CASE e.kind \in {"nil", "number"} -> Nil
    [] e.kind = "two_values" ->
         LET r == insert_pop_value(e.r) IN IF r.kind = "nil" THEN e.l ELSE [e EXCEPT !.r = r]
    [] e.kind = "if" ->
         LET l == insert_pop_value(e.l)
             r == insert_pop_value(e.r)
         IN IF l.kind = "nil" /\ r.kind = "nil" THEN insert_pop_value(e.v)
            ELSE [e EXCEPT !.l = l, !.r = r]
    [] e.kind = "opcode_1" /\ e.v = "LOCAL" -> Nil
    [] e.kind = "unary" /\ e.v \in {"PRE_INC", "POST_INC"} -> [e EXCEPT !.v = "INC"]
    [] e.kind = "unary" /\ e.v \in {"PRE_DEC", "POST_DEC"} -> [e EXCEPT !.v = "DEC"]
    [] e.kind = "unary" /\ e.v = "NOT" -> insert_pop_value(e.r)
    [] e.kind = "binary" /\ e.v = "ASSIGN" ->
         Node("unary_1", "VOID_ASSIGN_LOCAL", e.r.l, e.l)
    [] e.kind = "binary" /\ e.v # "ASSIGN" ->
         LET l == insert_pop_value(e.l)
             r == insert_pop_value(e.r)
         IN IF l.kind = "nil" THEN r
            ELSE IF r.kind = "nil" THEN l ELSE Statements(l, r)
    [] OTHER -> Unary("POP_VALUE", e)

\* Loop tests with an instruction of their own.
optimize_loop_test(e) ==
  CASE IS_NODE(e, "binary", "LT") /\ IS_NODE(e.l, "opcode_1", "LOCAL")
         /\ IS_NODE(e.r, "opcode_1", "LOCAL") ->
         Node("opcode_2", "LOOP_COND_LOCAL", e.l.l, e.r.l)
    [] IS_NODE(e, "binary", "LT") /\ IS_NODE(e.l, "opcode_1", "LOCAL")
         /\ e.r.kind = "number" ->
         Node("opcode_2", "LOOP_COND_NUMBER", e.l.l, e.r.v)
    [] IS_NODE(e, "unary", "POST_DEC") /\ IS_NODE(e.r, "opcode_1", "LOCAL_LVALUE") ->
         Node("opcode_1", "WHILE_DEC", e.r.l, Nil)
    [] OTHER -> e

\* x != 0 as a test is x
NotZeroTest(e) ==
  IF ~IS_NODE(e, "binary", "NE") THEN e
  ELSE IF IS_NODE(e.r, "number", 0) THEN e.l
  ELSE IF IS_NODE(e.l, "number", 0) THEN e.r ELSE e

\* cond: an empty branch is dropped, an empty first branch inverts the test
Cond(c, s, t) ==
  LET x == NotZeroTest(c) IN
  IF s.kind # "nil" THEN Node("if", x, s, t)
  ELSE IF t.kind = "nil" THEN insert_pop_value(x)
  ELSE Node("if", Unary("NOT", x), t, Nil)

(***************************************************************************)
(* && and ||: a left operand of the same operator becomes a link of one    *)
(* chain, whose branches all go to the end.                                *)
(***************************************************************************)
LandLor(op, l, r) ==
  Node("land_lor", op, IF IS_NODE(l, "land_lor", op) THEN [l EXCEPT !.kind = "branch_link"] ELSE l, r)

\* !e is folded for constants; e == 0 is !e
Not(e) == IF e.kind = "number" THEN Number(IF e.v = 0 THEN 1 ELSE 0) ELSE Unary("NOT", e)
Eq(l, r) == IF IS_NODE(l, "number", 0) THEN Unary("NOT", r)
            ELSE IF IS_NODE(r, "number", 0) THEN Unary("NOT", l) ELSE Binary("EQ", l, r)

(***************************************************************************)
(* prepare_cases(): the labels in order, the default first, and whether    *)
(* they are consecutive single numbers (a direct table).  The program is   *)
(* refused when ranges overlap.                                            *)
(***************************************************************************)
case_compare(c, d) == c.kind = "default" \/ (d.kind # "default" /\ c.r < d.r)
Upper(c) == IF c.v.kind = "nil" THEN c.r ELSE c.v.r
prepare_cases(body, cases) ==
  LET sorted == SortSeq(cases, case_compare)
      labels == SelectSeq(sorted, LAMBDA c : c.kind # "default")
      ranges == \E i \in DOMAIN cases : cases[i].kind = "case" /\ cases[i].v.kind # "nil"
      direct == \A i \in DOMAIN labels :
                   labels[i].v.kind = "nil" /\ (i > 1 => labels[i-1].r + 1 = labels[i].r)
  IN Node(IF ranges THEN "switch_ranges"
          ELSE IF direct /\ labels # <<>> THEN "switch_direct" ELSE "switch_numbers",
          sorted, Nil, body)

Overlap(cases) ==
  LET labels == SelectSeq(SortSeq(cases, case_compare), LAMBDA c : c.kind # "default")
  IN \E i \in 2 .. Len(labels) : labels[i].r <= Upper(labels[i-1])

(***************************************************************************)
(* The grammar's actions.  ctx is the compiler's context: "function",      *)
(* "loop", "foreach", "special" (a catch or time_expression block), or     *)
(* "switch", with what continue refers to when it is inside a loop.        *)
(***************************************************************************)
Ops == [eq |-> "EQ", ne |-> "NE", lt |-> "LT", le |-> "LE", gt |-> "GT", ge |-> "GE"]

RECURSIVE Build(_, _)
BuildBlock(ss, ctx) == FoldRight(LAMBDA s, rest : Joined(Build(s, ctx), rest), ss, Nil)
Build(s, ctx) ==
  CASE s[1] = "num" -> Number(s[2])
    [] s[1] = "var" -> Local(s[2])
    [] s[1] = "set" -> Binary("ASSIGN", Build(s[3], ctx), LocalLvalue(s[2]))
    [] s[1] = "dec" -> Unary("POST_DEC", LocalLvalue(s[2]))
    [] s[1] = "inc" -> Unary("PRE_INC", LocalLvalue(s[2]))
    [] s[1] = "not" -> Not(Build(s[2], ctx))
    [] s[1] = "eq" -> Eq(Build(s[2], ctx), Build(s[3], ctx))
    [] s[1] \in {"ne", "lt", "le", "gt", "ge"} ->
         Binary(Ops[s[1]], Build(s[2], ctx), Build(s[3], ctx))
    [] s[1] = "and" -> LandLor("LAND", Build(s[2], ctx), Build(s[3], ctx))
    [] s[1] = "or" -> LandLor("LOR", Build(s[2], ctx), Build(s[3], ctx))
    [] s[1] = "cond" ->
         LET c == Build(s[2], ctx) IN
         IF IS_NODE(c, "unary", "NOT")
         THEN Node("if", c.r, Build(s[4], ctx), Build(s[3], ctx))
         ELSE Node("if", c, Build(s[3], ctx), Build(s[4], ctx))
    [] s[1] = "comma" ->
         Statements(insert_pop_value(Build(s[2], ctx)), Build(s[3], ctx))
    [] s[1] = "call" ->
         Node("call", s[2], Len(s[3]), [i \in DOMAIN s[3] |-> Build(s[3][i], ctx)])
    [] s[1] = "catch" -> Node("catch", 0, Nil, Build(s[2], "special"))
    [] s[1] = "timed" -> Node("time_expression", 0, Nil, Build(s[2], "special"))
    [] s[1] = "expr" -> insert_pop_value(Build(s[2], ctx))
    [] s[1] = "if" -> Cond(Build(s[2], ctx), Build(s[3], ctx), Build(s[4], ctx))
    [] s[1] = "while" ->
         Loop(1, Build(s[3], "loop"), Nil, optimize_loop_test(Build(s[2], ctx)))
    [] s[1] = "do" ->
         Loop(0, Build(s[2], "loop"), Nil, optimize_loop_test(Build(s[3], "loop")))
    [] s[1] = "for" ->
         LET i == insert_pop_value(Build(s[4], ctx))
             inc == IF i.kind = "unary" /\ i.v = "INC"
                    THEN Node("opcode_1", "LOOP_INCR", i.r.l, Nil) ELSE i
         IN Statements(insert_pop_value(Build(s[2], ctx)),
              Loop(1, Build(s[5], "loop"), inc, optimize_loop_test(Build(s[3], ctx))))
    [] s[1] = "foreach" ->
         Statements(Node("foreach", Build(s[3], ctx), LocalLvalue(s[2]), Nil),
              Loop(2, Build(s[4], "foreach"), Nil, Node("opcode", "NEXT_FOREACH", Nil, Nil)))
    [] s[1] = "switch" ->
         LET inner == IF ctx \in {"loop", "foreach", "switch in loop"}
                      THEN "switch in loop" ELSE "switch"
             cases == [i \in DOMAIN SelectSeq(s[3], LAMBDA t : t[1] \in {"case", "default"}) |->
                         Build(SelectSeq(s[3], LAMBDA t : t[1] \in {"case", "default"})[i], inner)]
         IN [prepare_cases(BuildBlock(s[3], inner), cases) EXCEPT !.l = Build(s[2], ctx)]
    [] s[1] = "case" ->
         Node("case", IF s[2] = s[3] THEN Nil ELSE Node("case", Nil, Nil, s[3]), Nil, s[2])
    [] s[1] = "default" -> Node("default", Nil, Nil, Nil)
    [] s[1] = "break" ->
         IF ctx \in {"switch", "switch in loop"} THEN Node("jump", "switch", Nil, Nil)
         ELSE IF ctx = "foreach"
         THEN Statements(Node("opcode", "EXIT_FOREACH", Nil, Nil), Node("jump", "break", Nil, Nil))
         ELSE Node("jump", "break", Nil, Nil)
    [] s[1] = "continue" -> Node("jump", "continue", Nil, Nil)
    [] s[1] = "return" ->
         LET e == Build(s[2], ctx) IN
         Node("return", 0, Nil, IF IS_NODE(e, "number", 0) THEN Nil ELSE e)
    [] s[1] = "block" -> BuildBlock(s[2], ctx)
    [] s[1] = "empty" -> Nil

(***************************************************************************)
(* The optimizer ("transfer of dying variables"): the last read of a local *)
(* before it is assigned, or before the function ends, moves the value out *)
(* of the variable.  optimize() walks the tree; o.refs is last_local_refs  *)
(* (a path to a node, <<>> for none), o.state optimizer_state, o.moved the *)
(* reads that have become F_TRANSFER_LOCAL.                                *)
(***************************************************************************)
NodeFields(kind) ==
  CASE kind \in {"unary", "unary_1", "return", "catch", "time_expression"} -> {"r"}
    [] kind \in {"binary", "land_lor", "branch_link", "two_values"} -> {"l", "r"}
    [] kind \in {"if", "loop"} -> {"v", "l", "r"}
    [] kind = "foreach" -> {"v", "l"}
    [] kind \in {"switch_numbers", "switch_direct", "switch_ranges"} -> {"l", "r"}
    [] OTHER -> {}

\* What optimize() visits, in its order, each part with the state it sets.
Visited(kind) ==
  CASE kind \in {"binary", "land_lor", "branch_link", "two_values"} -> <<<<"l", "">>, <<"r", "">>>>
    [] kind \in {"unary", "unary_1", "return", "catch"} -> <<<<"r", "">>>>
    [] kind = "if" -> <<<<"v", "">>, <<"l", "cond">>, <<"r", "cond">>>>
    [] kind = "loop" -> <<<<"v", "loop">>, <<"l", "loop">>, <<"r", "loop">>>>
    [] kind = "foreach" -> <<<<"l", "">>, <<"v", "">>>>
    [] kind \in {"switch_numbers", "switch_direct", "switch_ranges"} ->
         <<<<"l", "">>, <<"r", "cond">>>>
    [] OTHER -> <<>>

Dies(x, o) ==
  IF o.state = {} /\ o.refs[x] # <<>>
  THEN [o EXCEPT !.moved = @ \union {o.refs[x]}, !.refs[x] = <<>>] ELSE o

RECURSIVE optimize(_, _, _)
optimize(e, path, o) ==
  LET Part(field, flag, q) ==
        LET q1 == optimize(e[field], Append(path, field),
                           [q EXCEPT !.state = @ \union ({flag} \ {""})])
        IN [q1 EXCEPT !.state = q.state]
      assigns == IS_NODE(e, "binary", "ASSIGN")
      parts == FoldLeft(LAMBDA q, p :
                          LET q1 == Part(p[1], p[2], q)
                          IN IF assigns /\ p[1] = "l" THEN Dies(e.r.l, q1) ELSE q1,
                        o, Visited(e.kind))
  IN CASE e.kind = "call" ->
            FoldLeft(LAMBDA q, i : optimize(e.r[i], path \o <<"r", ToString(i)>>, q),
                     o, [i \in DOMAIN e.r |-> i])
       [] IS_NODE(e, "opcode_1", "LOCAL") ->
            [o EXCEPT !.refs[e.l] = IF o.state = {} THEN path ELSE <<>>]
       [] IS_NODE(e, "opcode_1", "LOCAL_LVALUE") -> [o EXCEPT !.refs[e.l] = <<>>]
       [] IS_NODE(e, "unary_1", "VOID_ASSIGN_LOCAL") -> Dies(e.l, parts)
       [] OTHER -> parts

RECURSIVE Marked(_, _, _)
Marked(e, path, moved) ==
  IF path \in moved THEN [e EXCEPT !.v = "TRANSFER_LOCAL"]
  ELSE IF e.kind = "call"
  THEN [e EXCEPT !.r = [i \in DOMAIN e.r |-> Marked(e.r[i], path \o <<"r", ToString(i)>>, moved)]]
  ELSE [f \in DOMAIN e |-> IF f \in NodeFields(e.kind)
                           THEN Marked(e[f], Append(path, f), moved) ELSE e[f]]

\* optimizer_start_function(), optimize(), optimizer_end_function()
Optimized(e, locals) ==
  LET o == optimize(e, <<>>, [refs |-> [x \in locals |-> <<>>], state |-> {}, moved |-> {}])
  IN Marked(e, <<>>, o.moved \union ({o.refs[x] : x \in locals} \ {<<>>}))
=============================================================================
