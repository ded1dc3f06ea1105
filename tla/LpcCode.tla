------------------------------ MODULE LpcCode ------------------------------
(***************************************************************************)
(* The code generator of the LPC compiler (icode.c): parse trees to code   *)
(* for the stack machine.                                                  *)
(*                                                                         *)
(* Code is a sequence of cells; an opcode, a byte, a short, an int and a   *)
(* pointer take one cell each.  Branches are emitted before their targets  *)
(* are known: forward branches form a chain threaded through their own     *)
(* offset cells (current_forward_branch), break and continue are on lists, *)
(* the links of && and || chains are remembered in the tree, and adjacent  *)
(* pushes are rewritten into one instruction after the fact.               *)
(***************************************************************************)
EXTENDS LpcTree

CONSTANTS
  PushMask,     \* largest value of a push that can be merged (PUSH_MASK)
  PushMax,      \* most pushes in one F_PUSH (255 in the code)
  ByteMax       \* largest value of a byte (255 in the code)

(***************************************************************************)
(* The generator's state: code emitted so far, current_forward_branch, the *)
(* lists of jumps to patch, foreach_depth, push_state and push_start, the  *)
(* addresses of the links of the chain being built (outermost last) and of *)
(* the case labels.  Addresses are indices into code; 0 is no address.     *)
(***************************************************************************)
i_initialize_parser ==
  [code |-> <<>>, forward |-> 0, list |-> [k \in {"break", "continue", "switch"} |-> <<>>],
   foreach_depth |-> 0, push_state |-> 0, push_start |-> 0, links |-> <<>>, labels |-> <<>>]

Here(g) == Len(g.code) + 1          \* address of the next cell
Ins(g, cells) == [g EXCEPT !.code = @ \o cells]
Upd(g, at, cell) == [g EXCEPT !.code[at] = cell]

end_pushes(g) ==
  [g EXCEPT !.push_state = 0,
            !.code = IF g.push_state > 1 THEN [@ EXCEPT ![g.push_start] = g.push_state] ELSE @]

\* The push already emitted, as an item of an F_PUSH (now points to its count).
initialize_push(g) ==
  LET what == g.code[g.push_start]
      item == CASE what = "CONST0" -> <<"NUMBER", 0>>
                [] what = "CONST1" -> <<"NUMBER", 1>>
                [] what = "BYTE" -> <<"NUMBER", g.code[g.push_start + 1]>>
                [] what = "LOCAL" -> <<"LOCAL", g.code[g.push_start + 1]>>
  IN [g EXCEPT !.code = SubSeq(@, 1, g.push_start - 1) \o <<"PUSH", 0, item>>,
               !.push_start = @ + 1]

FirstPush(kind, value) ==
  IF kind = "LOCAL" THEN <<"LOCAL", value>>
  ELSE IF value \in {0, 1} THEN <<<<"CONST0", "CONST1">>[value + 1]>> ELSE <<"BYTE", value>>

\* try_to_push(), and what its callers emit when it refuses
Push(g, kind, value, otherwise) ==
  IF value \notin 0 .. PushMask THEN Ins(end_pushes(g), otherwise)
  ELSE IF g.push_state = 0
  THEN [Ins(g, FirstPush(kind, value)) EXCEPT !.push_state = 1, !.push_start = Here(g)]
  ELSE LET g1 == IF g.push_state = 1 THEN initialize_push(g) ELSE g
           g2 == [Ins(g1, <<<<kind, value>>>>) EXCEPT !.push_state = @ + 1]
       IN IF g2.push_state = PushMax THEN end_pushes(g2) ELSE g2

write_number(g, n) ==
  Push(g, "NUMBER", n,
       IF n \in 0 .. ByteMax THEN <<"BYTE", n>>
       ELSE IF n < 0 /\ n >= -ByteMax THEN <<"NBYTE", -n>> ELSE <<"NUMBER", n>>)

(***************************************************************************)
(* Branches.  An offset is relative to its own cell.                       *)
(***************************************************************************)
i_generate_forward_branch(g, op) ==
  LET g1 == Ins(end_pushes(g), <<op, g.forward>>) IN [g1 EXCEPT !.forward = Here(g1) - 1]

i_update_forward_branch(g) ==
  LET g1 == end_pushes(g)
  IN [Upd(g1, g1.forward, Here(g1) - g1.forward) EXCEPT !.forward = g1.code[g1.forward]]

i_generate_else(g) ==
  LET g1 == end_pushes(g)
      g2 == Ins(g1, <<"BRANCH", g1.code[g1.forward]>>)
  IN [Upd(g2, g2.forward, Here(g2) - g2.forward) EXCEPT !.forward = Here(g2) - 1]

i_branch_backwards(g, op, target) ==
  LET g1 == end_pushes(g)
      g2 == IF op = "WHILE_DEC" THEN g1 ELSE Ins(g1, <<op>>)
  IN IF op = "" THEN g1 ELSE Ins(g2, <<Here(g2) - target>>)

PatchAll(g, addresses) ==
  FoldLeft(LAMBDA h, a : Upd(h, a, Here(h) - a), end_pushes(g), addresses)
i_update_branch_list(g, kind) == PatchAll(g, g.list[kind])

\* The links of a chain of && or ||: their opcodes and offsets are filled in last.
RECURSIVE ChainLength(_)
ChainLength(e) == IF e.kind = "branch_link" THEN 1 + ChainLength(e.l) ELSE 0
i_update_forward_branch_links(g, op, link) ==
  LET g1 == i_update_forward_branch(g)
      n == ChainLength(link)
      mine == SubSeq(g1.links, Len(g1.links) - n + 1, Len(g1.links))
      g2 == FoldLeft(LAMBDA h, a : Upd(Upd(h, a - 1, op), a, Here(h) - a), g1, mine)
  IN [g2 EXCEPT !.links = SubSeq(@, 1, Len(@) - n)]

node_always_true(e) == e.kind = "number" /\ e.v # 0

(***************************************************************************)
(* Switch: the code of the cases, then the table, keys in order.  A range  *)
(* takes two entries, <<low, 1>> and <<high, address>>.                    *)
(***************************************************************************)
Entry(c, at) ==
  IF c.v.kind = "nil" THEN <<c.r, at>> ELSE <<c.r, 1, c.v.r, at>>
Log2(n) == CHOOSE i \in 0 .. n : 2^i <= n /\ n < 2^(i+1)
SwitchTable(kind, labels, at) ==
  LET pairs == FlattenSeq([i \in DOMAIN labels |-> Entry(labels[i], at[labels[i].r])])
  IN IF kind = "switch_direct"
     THEN [type |-> 14, cells |-> [i \in DOMAIN labels |-> at[labels[i].r]] \o <<labels[1].r>>]
     ELSE [type |-> Log2(Len(pairs) \div 2), cells |-> pairs]

(***************************************************************************)
(* i_generate_node().                                                      *)
(***************************************************************************)
RECURSIVE i_generate_node(_, _)
RECURSIVE i_generate_if_branch(_, _, _)

\* generate_conditional_branch(): the test of a loop, and how to branch back
ConditionalBranch(g, test) ==
  LET x == NotZeroTest(test) IN
  CASE x.kind = "number" -> <<g, IF x.v = 0 THEN "" ELSE "BBRANCH">>
    [] IS_NODE(x, "unary", "NOT") -> <<i_generate_node(g, x.r), "BBRANCH_WHEN_ZERO">>
    [] IS_NODE(x, "binary", "LT") ->
         <<i_generate_node(i_generate_node(g, x.l), x.r), "BBRANCH_LT">>
    [] IS_NODE(x, "opcode_1", "WHILE_DEC") -> <<i_generate_node(g, x), "WHILE_DEC">>
    [] OTHER -> <<i_generate_node(g, x), "BBRANCH_WHEN_NON_ZERO">>

\* Mutant: a foreach is not counted, and return does not leave it.
LoopForgetsDepth(g, e) ==
  LET g0 == [end_pushes(g) EXCEPT !.list["break"] = <<>>, !.list["continue"] = <<>>]
      g1 == i_generate_forward_branch(g0, "BRANCH")
      g2 == i_update_branch_list(i_generate_node(g1, e.v), "continue")
      g3 == i_update_forward_branch(i_generate_node(g2, e.l))
      b == ConditionalBranch(g3, e.r)
      g4 == IF e.r.kind \in {"opcode", "opcode_2"}
            THEN LET h == i_generate_node(g3, e.r) IN Ins(h, <<Here(h) - Here(g1)>>)
            ELSE i_branch_backwards(b[1], b[2], Here(g1))
  IN [i_update_branch_list(g4, "break") EXCEPT !.list = g.list]

i_generate_loop(g, e) ==
  LET forever == node_always_true(e.r)
      skip == ~forever /\ e.type # 0
      g0 == [end_pushes(g) EXCEPT !.list["break"] = <<>>, !.list["continue"] = <<>>,
                                  !.foreach_depth = IF e.type = 2 THEN @ + 1 ELSE @]
      g1 == IF skip THEN i_generate_forward_branch(g0, "BRANCH") ELSE g0
      g2 == i_update_branch_list(i_generate_node(g1, e.v), "continue")
      g3 == i_generate_node(g2, e.l)
      g4 == IF skip THEN i_update_forward_branch(g3) ELSE g3
      own == e.r.kind \in {"opcode", "opcode_2"}     \* LOOP_COND_*, NEXT_FOREACH
      g5 == IF own THEN LET h == i_generate_node(g4, e.r) IN Ins(h, <<Here(h) - Here(g1)>>)
            ELSE LET b == ConditionalBranch(g4, e.r) IN i_branch_backwards(b[1], b[2], Here(g1))
  IN [i_update_branch_list(g5, "break")
        EXCEPT !.list["break"] = g.list["break"], !.list["continue"] = g.list["continue"],
               !.foreach_depth = g.foreach_depth]

\* Comparisons that branch by themselves: <<when false, when true>>
Branches == [EQ |-> <<"BRANCH_NE", "BRANCH_EQ">>, NE |-> <<"BRANCH_EQ", "BRANCH_NE">>,
             LT |-> <<"BRANCH_GE", "">>, GT |-> <<"BRANCH_LE", "">>,
             GE |-> <<"", "BRANCH_GE">>, LE |-> <<"", "BRANCH_LE">>, ASSIGN |-> <<"", "">>]
i_generate_if_branch(g, e, invert) ==
  LET direct == IF e.kind = "binary" THEN Branches[e.v][IF invert THEN 2 ELSE 1] ELSE ""
  IN IF IS_NODE(e, "unary", "NOT") THEN i_generate_if_branch(g, e.r, ~invert)
     ELSE IF direct # ""
     THEN i_generate_forward_branch(i_generate_node(i_generate_node(g, e.l), e.r), direct)
     ELSE i_generate_forward_branch(i_generate_node(g, e),
            IF invert THEN "BRANCH_WHEN_NON_ZERO" ELSE "BRANCH_WHEN_ZERO")

GenerateSwitch(g, e) ==
  LET g1 == end_pushes(i_generate_node(g, e.l))
      addr == Here(g1) + 2                             \* table, end of table, default
      g2 == [Ins(g1, <<"SWITCH", 15, 0, 0, 0>>) EXCEPT !.list["switch"] = <<>>, !.labels = <<>>]
      g3 == i_generate_node(g2, e.r)
      defaults == SelectSeq(g3.labels, LAMBDA l : l.kind = "default")
      g4 == Upd(g3, addr + 2, IF defaults # <<>> THEN defaults[1].at ELSE Here(g3))
      g5 == Ins(end_pushes(g4), <<"BRANCH", 0>>)
      last_break == Here(g5) - 1
      cases == SelectSeq(g5.labels, LAMBDA l : l.kind = "case")
      at == [k \in {cases[i].key : i \in DOMAIN cases} |->
               cases[CHOOSE i \in DOMAIN cases : cases[i].key = k].at]
      table == SwitchTable(e.kind, SelectSeq(e.v, LAMBDA c : c.kind # "default"), at)
      g6 == Ins(Upd(Upd(g5, addr, Here(g5)), addr - 1, table.type), table.cells)
      g7 == i_update_branch_list(g6, "switch")
  IN [Upd(Upd(g7, last_break, Here(g7) - last_break), addr + 1, Here(g7))
        EXCEPT !.list["switch"] = g.list["switch"], !.labels = g.labels]

\* A return leaves every foreach it is in.
GenerateReturn(g, e) ==
  LET g1 == Ins(end_pushes(g), [i \in 1 .. g.foreach_depth |-> "EXIT_FOREACH"])
  IN IF e.r.kind = "nil" THEN Ins(g1, <<"RETURN_ZERO">>)
     ELSE Ins(end_pushes(i_generate_node(g1, e.r)), <<"RETURN">>)

GenerateLandLor(g, e) ==
  LET g1 == i_generate_node(i_generate_forward_branch(i_generate_node(g, e.l), e.v), e.r)
  IN IF e.l.kind = "branch_link" THEN i_update_forward_branch_links(g1, e.v, e.l)
     ELSE i_update_forward_branch(g1)

GenerateLink(g, e) ==
  LET g1 == Ins(end_pushes(i_generate_node(g, e.l)), <<"link", 0>>)
  IN i_generate_node([g1 EXCEPT !.links = Append(@, Here(g1) - 1)], e.r)

GenerateCall(g, e) ==
  Ins(end_pushes(FoldLeft(i_generate_node, g, e.r)), <<"CALL", e.v, e.l>>)

GenerateJump(g, e) ==
  LET g1 == Ins(end_pushes(g), <<"BRANCH", 0>>)
  IN [g1 EXCEPT !.list[e.v] = Append(@, Here(g1) - 1)]

GenerateIf(g, e) ==
  LET g1 == i_generate_node(i_generate_if_branch(g, e.v, FALSE), e.l)
  IN i_update_forward_branch(IF e.r.kind = "nil" THEN g1
                             ELSE i_generate_node(i_generate_else(g1), e.r))

GenerateForeach(g, e) == Ins(end_pushes(i_generate_node(g, e.v)), <<"FOREACH", e.l.l>>)

GenerateLabel(g, e) ==
  [end_pushes(g) EXCEPT !.labels = Append(@,
     [kind |-> e.kind, key |-> IF e.kind = "case" THEN e.r ELSE 0, at |-> Here(g)])]

GenerateCatch(g, e) ==
  LET g1 == Ins(end_pushes(g), <<"CATCH", 0>>)
      g2 == Ins(i_generate_node(g1, e.r), <<"END_CATCH">>)
  IN Upd(g2, Here(g1) - 1, Here(g2) - (Here(g1) - 1))

GenerateTimed(g, e) ==
  Ins(i_generate_node(Ins(end_pushes(g), <<"TIME_EXPRESSION">>), e.r), <<"END_TIME_EXPRESSION">>)

i_generate_node(g, e) ==
  CASE e.kind = "nil" -> g
    [] e.kind = "number" -> write_number(g, e.v)
    [] e.kind = "opcode" -> Ins(end_pushes(g), <<e.v>>)
    [] e.kind = "unary" -> Ins(end_pushes(i_generate_node(g, e.r)), <<e.v>>)
    [] e.kind = "binary" ->
         Ins(end_pushes(i_generate_node(i_generate_node(g, e.l), e.r)), <<e.v>>)
    [] IS_NODE(e, "opcode_1", "LOCAL") -> Push(g, "LOCAL", e.l, <<"LOCAL", e.l>>)
    [] e.kind = "opcode_1" /\ e.v # "LOCAL" -> Ins(end_pushes(g), <<e.v, e.l>>)
    [] e.kind = "unary_1" -> Ins(end_pushes(i_generate_node(g, e.r)), <<e.v, e.l>>)
    [] e.kind = "opcode_2" -> Ins(end_pushes(g), <<e.v, e.l, e.r>>)
    [] e.kind = "return" -> GenerateReturn(g, e)
    [] e.kind = "land_lor" -> GenerateLandLor(g, e)
    [] e.kind = "branch_link" -> GenerateLink(g, e)
    [] e.kind = "call" -> GenerateCall(g, e)
    [] e.kind = "two_values" -> i_generate_node(i_generate_node(g, e.l), e.r)
    [] e.kind = "jump" -> GenerateJump(g, e)
    [] e.kind = "if" -> GenerateIf(g, e)
    [] e.kind = "loop" -> i_generate_loop(g, e)
    [] e.kind = "foreach" -> GenerateForeach(g, e)
    [] e.kind \in {"case", "default"} -> GenerateLabel(g, e)
    [] e.kind \in {"switch_numbers", "switch_direct", "switch_ranges"} -> GenerateSwitch(g, e)
    [] e.kind = "catch" -> GenerateCatch(g, e)
    [] e.kind = "time_expression" -> GenerateTimed(g, e)

(***************************************************************************)
(* generate_function(): a function's body, optimized when the program asks *)
(* for it, and the return of zero that the grammar adds at the end.        *)
(***************************************************************************)
generate_function(body, locals, optimizing) ==
  LET tree == Build(<<"block", <<body, <<"return", <<"num", 0>>>>>>>>, "function")
  IN end_pushes(i_generate_node(i_initialize_parser,
                  IF optimizing THEN Optimized(tree, locals) ELSE tree)).code
=============================================================================
