----------------------------- MODULE LpcMachine -----------------------------
(***************************************************************************)
(* The stack machine (eval_instruction() in interpret.c) running the code  *)
(* that LpcCode generates for a function, one instruction a step, compared *)
(* with what the function's text means.                                    *)
(*                                                                         *)
(* A value is a number, an array, a string (only as the value of a caught  *)
(* error) or, on the stack only, an lvalue or a foreach counter.  use() in *)
(* a function stands for any function it calls: it is seen to be called    *)
(* with its arguments and returns the first; fail() raises an error.       *)
(***************************************************************************)
EXTENDS LpcCode

CONSTANTS
  Functions,    \* sequence of [body, args, optimize]: functions, their locals' values
                \* and whether they are compiled under #pragma optimize
  Elements,     \* the numbers in each array
  MaxLog        \* bound on the calls a function makes

VARIABLES
  fun,          \* index of the function that runs
  code, pc,
  locals,       \* the frame's locals (fp)
  stack,        \* what is above the locals
  handlers,     \* the catch() frames, innermost last
  log,          \* calls of use(), in order
  status,       \* "run", "returned", "error" or "wild" (the frame is corrupt)
  value         \* what the function has returned

vars == <<fun, code, pc, locals, stack, handlers, log, status, value>>
frame == <<fun, code, handlers, status, value>>

Num(n) == [t |-> "num", n |-> n]
Arr(i) == [t |-> "arr", n |-> i]
Caught == [t |-> "str", n |-> 0]
Garbage == Num(-99)                   \* a pointer read as a number
IsZero(v) == v = Num(0)
Truth(b) == Num(IF b THEN 1 ELSE 0)

Init ==
  /\ fun \in DOMAIN Functions
  /\ locals = Functions[fun].args
  /\ code = generate_function(Functions[fun].body, DOMAIN locals,
                              Functions[fun].optimize)
  /\ pc = 1 /\ stack = <<>> /\ handlers = <<>> /\ log = <<>>
  /\ status = "run" /\ value = Num(0)

Running(ops) == status = "run" /\ code[pc] \in ops
Top == stack[Len(stack)]
Below == stack[Len(stack) - 1]
Popped(n) == SubSeq(stack, 1, Len(stack) - n)
Target(operand) == operand + code[operand]
Back(operand) == operand - code[operand]

\* error(): to the innermost catch() of the function, or out of it
Raise ==
  IF handlers = <<>> THEN status' = "error" /\ UNCHANGED <<pc, stack, handlers>>
  ELSE LET h == handlers[Len(handlers)]
       IN /\ stack' = Append(SubSeq(stack, 1, h.height), Caught)
          /\ pc' = h.resume
          /\ handlers' = SubSeq(handlers, 1, Len(handlers) - 1)
          /\ UNCHANGED status

Fetched(item) == IF item[1] = "LOCAL" THEN locals[item[2]] ELSE Num(item[2])
F_PUSH ==
  /\ Running({"PUSH"})
  /\ stack' = stack \o [i \in 1 .. code[pc+1] |-> Fetched(code[pc+1+i])]
  /\ pc' = pc + 2 + code[pc+1]
  /\ UNCHANGED <<frame, locals, log>>

F_LOCAL ==
  /\ Running({"LOCAL", "TRANSFER_LOCAL", "LOCAL_LVALUE"})
  /\ stack' = Append(stack, IF code[pc] = "LOCAL_LVALUE" THEN [t |-> "lvalue", n |-> code[pc+1]]
                            ELSE locals[code[pc+1]])
  /\ locals' = IF code[pc] = "TRANSFER_LOCAL" /\ locals[code[pc+1]].t # "num"
               THEN [locals EXCEPT ![code[pc+1]] = Garbage] ELSE locals
  /\ pc' = pc + 2
  /\ UNCHANGED <<frame, log>>

F_CONST ==
  /\ Running({"CONST0", "CONST1"})
  /\ stack' = Append(stack, Num(IF code[pc] = "CONST1" THEN 1 ELSE 0))
  /\ pc' = pc + 1
  /\ UNCHANGED <<frame, locals, log>>

F_NUMBER ==
  /\ Running({"NUMBER", "BYTE", "NBYTE"})
  /\ stack' = Append(stack, Num(IF code[pc] = "NBYTE" THEN -code[pc+1] ELSE code[pc+1]))
  /\ pc' = pc + 2
  /\ UNCHANGED <<frame, locals, log>>

F_POP_VALUE ==
  /\ Running({"POP_VALUE"})
  /\ stack' = Popped(1) /\ pc' = pc + 1
  /\ UNCHANGED <<frame, locals, log>>

(***************************************************************************)
(* Comparisons: order is for numbers only.                                 *)
(***************************************************************************)
Compares(op, a, b) ==
  CASE op = "EQ" -> a = b
    [] op = "NE" -> a # b
    [] op = "LT" -> a.n < b.n
    [] op = "LE" -> a.n <= b.n
    [] op = "GT" -> a.n > b.n
    [] op = "GE" -> a.n >= b.n
Comparable(op, a, b) == op \in {"EQ", "NE"} \/ (a.t = "num" /\ b.t = "num")

F_COMPARE ==
  /\ Running({"EQ", "NE", "LT", "LE", "GT", "GE"})
  /\ IF Comparable(code[pc], Below, Top)
     THEN /\ stack' = Append(Popped(2), Truth(Compares(code[pc], Below, Top)))
          /\ pc' = pc + 1
          /\ UNCHANGED <<handlers, status>>
     ELSE Raise
  /\ UNCHANGED <<fun, code, value, locals, log>>

F_NOT ==
  /\ Running({"NOT"})
  /\ stack' = Append(Popped(1), Truth(IsZero(Top))) /\ pc' = pc + 1
  /\ UNCHANGED <<frame, locals, log>>

\* Branches that compare: F_BRANCH_NE and the like, and backwards F_BBRANCH_LT
CompareBranch == [BRANCH_NE |-> "NE", BRANCH_GE |-> "GE", BRANCH_LE |-> "LE",
                  BRANCH_EQ |-> "EQ", BBRANCH_LT |-> "LT"]
F_BRANCH_COMPARE ==
  /\ Running(DOMAIN CompareBranch)
  /\ LET op == CompareBranch[code[pc]] IN
     IF Comparable(op, Below, Top)
     THEN /\ pc' = IF ~Compares(op, Below, Top) THEN pc + 2
                   ELSE IF code[pc] = "BBRANCH_LT" THEN Back(pc+1) ELSE Target(pc+1)
          /\ stack' = Popped(2)
          /\ UNCHANGED <<handlers, status>>
     ELSE Raise
  /\ UNCHANGED <<fun, code, value, locals, log>>

F_BRANCH ==
  /\ Running({"BRANCH", "BBRANCH"})
  /\ pc' = IF code[pc] = "BRANCH" THEN Target(pc+1) ELSE Back(pc+1)
  /\ UNCHANGED <<frame, locals, stack, log>>

F_BRANCH_WHEN ==
  /\ Running({"BRANCH_WHEN_ZERO", "BRANCH_WHEN_NON_ZERO",
              "BBRANCH_WHEN_ZERO", "BBRANCH_WHEN_NON_ZERO"})
  /\ stack' = Popped(1)
  /\ pc' = IF IsZero(Top) # (code[pc] \in {"BRANCH_WHEN_ZERO", "BBRANCH_WHEN_ZERO"}) THEN pc + 2
           ELSE IF code[pc] \in {"BRANCH_WHEN_ZERO", "BRANCH_WHEN_NON_ZERO"} THEN Target(pc+1)
           ELSE Back(pc+1)
  /\ UNCHANGED <<frame, locals, log>>

F_LAND_LOR ==
  /\ Running({"LAND", "LOR"})
  /\ IF IsZero(Top) = (code[pc] = "LAND")
     THEN pc' = Target(pc+1) /\ UNCHANGED stack
     ELSE pc' = pc + 2 /\ stack' = Popped(1)
  /\ UNCHANGED <<frame, locals, log>>

(***************************************************************************)
(* Loop instructions.                                                      *)
(***************************************************************************)
\* do_loop_cond_local(), do_loop_cond_number() at address at
LoopCond(at, loc) ==
  LET a == loc[code[at+1]]
      b == IF code[at] = "LOOP_COND_LOCAL" THEN loc[code[at+2]] ELSE Num(code[at+2])
  IN IF Comparable("LT", a, b)
     THEN pc' = (IF a.n < b.n THEN Back(at+3) ELSE at + 4) /\ UNCHANGED <<stack, handlers, status>>
     ELSE Raise

F_LOOP_COND ==
  /\ Running({"LOOP_COND_LOCAL", "LOOP_COND_NUMBER"})
  /\ LoopCond(pc, locals)
  /\ UNCHANGED <<fun, code, value, locals, log>>

\* The test that follows the increment is done by the same instruction.
F_LOOP_INCR ==
  /\ Running({"LOOP_INCR"})
  /\ LET x == code[pc+1] IN
     IF locals[x].t = "num"
     THEN /\ locals' = [locals EXCEPT ![x].n = @ + 1]
          /\ IF code[pc+2] \in {"LOOP_COND_LOCAL", "LOOP_COND_NUMBER"}
             THEN LoopCond(pc+2, locals')
             ELSE pc' = pc + 2 /\ UNCHANGED <<stack, handlers, status>>
     ELSE Raise /\ UNCHANGED locals
  /\ UNCHANGED <<fun, code, value, log>>

F_WHILE_DEC ==
  /\ Running({"WHILE_DEC"})
  /\ LET x == code[pc+1] IN
     IF locals[x].t = "num"
     THEN /\ locals' = [locals EXCEPT ![x].n = @ - 1]
          /\ pc' = IF locals[x].n # 0 THEN Back(pc+2) ELSE pc + 3
          /\ UNCHANGED <<stack, handlers, status>>
     ELSE Raise /\ UNCHANGED locals
  /\ UNCHANGED <<fun, code, value, log>>

\* ++ and -- on the lvalue on top of the stack
F_INC ==
  /\ Running({"INC", "DEC", "PRE_INC", "POST_DEC"})
  /\ LET old == locals[Top.n]
         new == Num(IF code[pc] \in {"INC", "PRE_INC"} THEN old.n + 1 ELSE old.n - 1)
     IN IF old.t = "num"
        THEN /\ locals' = [locals EXCEPT ![Top.n] = new]
             /\ stack' = Popped(1) \o CASE code[pc] = "PRE_INC" -> <<new>>
                                        [] code[pc] = "POST_DEC" -> <<old>>
                                        [] OTHER -> <<>>
             /\ pc' = pc + 1
             /\ UNCHANGED <<handlers, status>>
        ELSE Raise /\ UNCHANGED locals
  /\ UNCHANGED <<fun, code, value, log>>

F_ASSIGN ==
  /\ Running({"ASSIGN"})
  /\ locals' = [locals EXCEPT ![Top.n] = Below]
  /\ stack' = Popped(1) /\ pc' = pc + 1
  /\ UNCHANGED <<frame, log>>

F_VOID_ASSIGN_LOCAL ==
  /\ Running({"VOID_ASSIGN_LOCAL"})
  /\ locals' = [locals EXCEPT ![code[pc+1]] = Top]
  /\ stack' = Popped(1) /\ pc' = pc + 2
  /\ UNCHANGED <<frame, log>>

(***************************************************************************)
(* foreach keeps the array, a counter and the lvalue on the stack.         *)
(***************************************************************************)
F_FOREACH ==
  /\ Running({"FOREACH"})
  /\ IF Top.t = "arr"
     THEN /\ stack' = stack \o <<[t |-> "each", n |-> 0], [t |-> "lvalue", n |-> code[pc+1]]>>
          /\ pc' = pc + 2
          /\ UNCHANGED <<handlers, status>>
     ELSE Raise
  /\ UNCHANGED <<fun, code, value, locals, log>>

F_NEXT_FOREACH ==
  /\ Running({"NEXT_FOREACH"})
  /\ LET items == Elements[stack[Len(stack)-2].n] IN
     IF Below.n < Len(items)
     THEN /\ locals' = [locals EXCEPT ![Top.n] = Num(items[Below.n + 1])]
          /\ stack' = [stack EXCEPT ![Len(stack)-1].n = @ + 1]
          /\ pc' = Back(pc+1)
     ELSE stack' = Popped(3) /\ pc' = pc + 2 /\ UNCHANGED locals
  /\ UNCHANGED <<frame, log>>

F_EXIT_FOREACH ==
  /\ Running({"EXIT_FOREACH"})
  /\ stack' = Popped(3) /\ pc' = pc + 1
  /\ UNCHANGED <<frame, locals, log>>

(***************************************************************************)
(* f_switch(): where key s goes, in the table of cells first .. last-1.    *)
(* Entry l (from 0) is the key at Key(l) and the address after it.         *)
(***************************************************************************)
RECURSIVE Shrink(_, _, _)
Shrink(l, d, n) ==                    \* "if table isn't a power of 2 in size, fix us up"
  IF l < n THEN <<l, d>>
  ELSE IF d \div 2 = 0 THEN <<l, 0>> ELSE Shrink(l - d \div 2, d \div 2, n)

RECURSIVE Search(_, _, _, _, _)
Search(s, l, d, first, n) ==          \* the address, or 0 for the default
  LET Key(i) == code[first + 2*i]
      Addr(i) == code[first + 2*i + 1]
  IN CASE s < Key(l) /\ d = 0 ->
            IF l > 0 /\ Addr(l-1) <= 1 /\ s >= Key(l-1) THEN Addr(l) ELSE 0
       [] s < Key(l) /\ d > 0 -> Search(s, l - d, d \div 2, first, n)
       [] s > Key(l) /\ d = 0 ->
            IF Addr(l) <= 1 /\ s <= Key(l+1) THEN Addr(l+1) ELSE 0
       [] s > Key(l) /\ d > 0 ->
            LET fit == Shrink(l + d, d, n) IN
            IF fit[1] = n THEN 0 ELSE Search(s, fit[1], fit[2] \div 2, first, n)
       [] OTHER -> IF Addr(l) <= 1 THEN Addr(l+1) ELSE Addr(l)

Lookup(s, type, first, last) ==
  IF type = 14                        \* "fastest switch format : lookup table"
  THEN LET low == code[last - 1]
       IN IF s >= low /\ first + (s - low) < last - 1 THEN code[first + (s - low)] ELSE 0
  ELSE Search(s, 2^type - 1, 2^type \div 2, first, (last - first) \div 2)

F_SWITCH ==
  /\ Running({"SWITCH"})
  /\ IF Top.t = "num"
     THEN LET to == Lookup(Top.n, code[pc+1], code[pc+2], code[pc+3])
          IN /\ pc' = IF to = 0 THEN code[pc+4] ELSE to
             /\ stack' = Popped(1)
             /\ UNCHANGED <<handlers, status>>
     ELSE Raise
  /\ UNCHANGED <<fun, code, value, locals, log>>

(***************************************************************************)
(* catch(), time_expression(), calls and returns.                          *)
(***************************************************************************)
F_CATCH ==
  /\ Running({"CATCH"})
  /\ handlers' = Append(handlers, [height |-> Len(stack), resume |-> Target(pc+1)])
  /\ pc' = pc + 2
  /\ UNCHANGED <<fun, code, value, status, locals, stack, log>>

F_END_CATCH ==
  /\ Running({"END_CATCH"})
  /\ handlers' = SubSeq(handlers, 1, Len(handlers) - 1)
  /\ pc' = handlers[Len(handlers)].resume
  /\ stack' = Append(stack, Num(0))
  /\ UNCHANGED <<fun, code, value, status, locals, log>>

F_TIME_EXPRESSION ==
  /\ Running({"TIME_EXPRESSION", "END_TIME_EXPRESSION"})
  /\ stack' = IF code[pc] = "TIME_EXPRESSION" THEN stack \o <<Num(0), Num(0)>>
              ELSE Append(Popped(2), Num(0))
  /\ pc' = pc + 1
  /\ UNCHANGED <<frame, locals, log>>

CALL ==
  /\ Running({"CALL"}) /\ Len(log) < MaxLog
  /\ LET args == SubSeq(stack, Len(stack) - code[pc+2] + 1, Len(stack)) IN
     /\ log' = Append(log, args)
     /\ IF code[pc+1] = "use"
        THEN /\ stack' = Append(Popped(code[pc+2]), args[1])
             /\ pc' = pc + 3
             /\ UNCHANGED <<handlers, status>>
        ELSE Raise
  /\ UNCHANGED <<fun, code, value, locals>>

F_RETURN ==
  /\ Running({"RETURN", "RETURN_ZERO"}) /\ handlers = <<>>
  /\ value' = IF code[pc] = "RETURN" THEN Top ELSE Num(0)
  /\ stack' = IF code[pc] = "RETURN" THEN Popped(1) ELSE stack
  /\ status' = "returned"
  /\ UNCHANGED <<fun, code, pc, locals, handlers, log>>

(***************************************************************************)
(* A return inside catch { } pops the frame of the catch() and not the     *)
(* function's: the rest of the function runs.  How many values it takes    *)
(* off the stack is what the frame's slot held before (none or some).      *)
(***************************************************************************)
ReturnInCatch ==
  /\ Running({"RETURN", "RETURN_ZERO"}) /\ handlers # <<>>
  /\ \/ /\ stack' = IF code[pc] = "RETURN" THEN stack ELSE Append(stack, Num(0))
        /\ pc' = handlers[Len(handlers)].resume
        /\ UNCHANGED status
     \/ status' = "wild" /\ UNCHANGED <<pc, stack>>
  /\ handlers' = SubSeq(handlers, 1, Len(handlers) - 1)
  /\ UNCHANGED <<fun, code, value, locals, log>>

Finished == status # "run" /\ UNCHANGED vars

Next ==
  \/ F_PUSH \/ F_LOCAL \/ F_CONST \/ F_NUMBER \/ F_POP_VALUE \/ F_COMPARE \/ F_NOT
  \/ F_BRANCH_COMPARE \/ F_BRANCH \/ F_BRANCH_WHEN \/ F_LAND_LOR
  \/ F_LOOP_COND \/ F_LOOP_INCR \/ F_WHILE_DEC \/ F_INC \/ F_ASSIGN \/ F_VOID_ASSIGN_LOCAL
  \/ F_FOREACH \/ F_NEXT_FOREACH \/ F_EXIT_FOREACH \/ F_SWITCH
  \/ F_CATCH \/ F_END_CATCH \/ F_TIME_EXPRESSION \/ CALL \/ F_RETURN \/ Finished

\* With functions that return out of a catch { }
NextReturning == Next \/ ReturnInCatch

(***************************************************************************)
(* What a function's text means: the result of running statement s with    *)
(* locals loc after calls l.  out says how it ended.                       *)
(***************************************************************************)
Result(loc, l, val, out) == [loc |-> loc, log |-> l, val |-> val, out |-> out]

RECURSIVE Mean(_, _, _)
RECURSIVE MeanAll(_, _, _)
RECURSIVE Repeat(_, _, _, _, _)
RECURSIVE Each(_, _, _, _, _)
Then(r, Op(_)) == IF r.out = "ok" THEN Op(r) ELSE r
MeanAll(ss, loc, l) ==
  IF ss = <<>> THEN Result(loc, l, Num(0), "ok")
  ELSE Then(Mean(Head(ss), loc, l), LAMBDA r : MeanAll(Tail(ss), r.loc, r.log))
After(r) == IF r.out \in {"ok", "continue"} THEN [r EXCEPT !.out = "ok"] ELSE r
Broken(r) == IF r.out = "break" THEN [r EXCEPT !.out = "ok"] ELSE r
Repeat(test, inc, body, loc, l) ==
  Then(Mean(test, loc, l), LAMBDA r :
    IF IsZero(r.val) THEN r
    ELSE Then(After(Mean(body, r.loc, r.log)), LAMBDA b :
           Then(Mean(inc, b.loc, b.log), LAMBDA i : Repeat(test, inc, body, i.loc, i.log))))
Each(x, items, body, loc, l) ==
  IF items = <<>> THEN Result(loc, l, Num(0), "ok")
  ELSE Then(After(Mean(body, [loc EXCEPT ![x] = Num(Head(items))], l)),
            LAMBDA r : Each(x, Tail(items), body, r.loc, r.log))
Step(x, k, loc, l, new) ==
  IF loc[x].t # "num" THEN Result(loc, l, Num(0), "error")
  ELSE Result([loc EXCEPT ![x].n = @ + k], l, IF new THEN Num(loc[x].n + k) ELSE loc[x], "ok")

\* The statements of a switch from the label that fits v on.
FromLabel(items, v) ==
  LET fits(i) == items[i][1] = "case" /\ v \in items[i][2] .. items[i][3]
      labels == {i \in DOMAIN items : fits(i)}
      default == {i \in DOMAIN items : items[i][1] = "default"}
      start == IF labels # {} THEN labels ELSE default
  IN IF start = {} THEN <<>>
     ELSE SelectSeq(SubSeq(items, CHOOSE i \in start : TRUE, Len(items)),
                    LAMBDA t : t[1] \notin {"case", "default"})

Mean(s, loc, l) ==
  LET Val(e, Op(_)) == Then(Mean(e, loc, l), Op)
      Both(Op(_, _)) ==
        Val(s[2], LAMBDA a : Then(Mean(s[3], a.loc, a.log), LAMBDA b : Op(a, b)))
  IN
  CASE s[1] = "num" -> Result(loc, l, Num(s[2]), "ok")
    [] s[1] = "var" -> Result(loc, l, loc[s[2]], "ok")
    [] s[1] = "set" -> Val(s[3], LAMBDA r : [r EXCEPT !.loc[s[2]] = r.val])
    [] s[1] = "dec" -> Step(s[2], -1, loc, l, FALSE)
    [] s[1] = "inc" -> Step(s[2], 1, loc, l, TRUE)
    [] s[1] = "not" -> Val(s[2], LAMBDA r : [r EXCEPT !.val = Truth(IsZero(r.val))])
    [] s[1] \in DOMAIN Ops ->
         Both(LAMBDA a, b : IF Comparable(Ops[s[1]], a.val, b.val)
                            THEN [b EXCEPT !.val = Truth(Compares(Ops[s[1]], a.val, b.val))]
                            ELSE [b EXCEPT !.out = "error"])
    [] s[1] \in {"and", "or"} ->
         Val(s[2], LAMBDA a : IF IsZero(a.val) = (s[1] = "and") THEN a ELSE Mean(s[3], a.loc, a.log))
    [] s[1] \in {"cond", "if"} ->
         Val(s[2], LAMBDA c : Mean(IF IsZero(c.val) THEN s[4] ELSE s[3], c.loc, c.log))
    [] s[1] = "comma" -> Both(LAMBDA a, b : b)
    [] s[1] = "call" ->
         LET args == FoldLeft(LAMBDA q, e :
                       IF q.out # "ok" THEN q
                       ELSE LET r == Mean(e, q.loc, q.log)
                            IN [loc |-> r.loc, log |-> r.log, val |-> Append(q.val, r.val), out |-> r.out],
                       [loc |-> loc, log |-> l, val |-> <<>>, out |-> "ok"], s[3])
         IN IF args.out # "ok" THEN [args EXCEPT !.val = Num(0)]
            ELSE Result(args.loc, Append(args.log, args.val), args.val[1],
                        IF s[2] = "use" THEN "ok" ELSE "error")
    [] s[1] = "catch" ->
         LET r == Mean(s[2], loc, l) IN
         CASE r.out = "error" -> Result(r.loc, r.log, Caught, "ok")
           [] r.out = "ok" -> Result(r.loc, r.log, Num(0), "ok")
           [] OTHER -> r
    [] s[1] = "timed" -> Val(s[2], LAMBDA r : [r EXCEPT !.val = Num(0)])
    [] s[1] = "expr" -> Mean(s[2], loc, l)
    [] s[1] = "while" -> Broken(Repeat(s[2], <<"empty">>, s[3], loc, l))
    [] s[1] = "do" ->
         Broken(Then(After(Mean(s[2], loc, l)),
                     LAMBDA r : Repeat(s[3], <<"empty">>, s[2], r.loc, r.log)))
    [] s[1] = "for" ->
         Val(s[2], LAMBDA r : Broken(Repeat(s[3], s[4], s[5], r.loc, r.log)))
    [] s[1] = "foreach" ->
         Val(s[3], LAMBDA r : IF r.val.t # "arr" THEN [r EXCEPT !.out = "error"]
                              ELSE Broken(Each(s[2], Elements[r.val.n], s[4], r.loc, r.log)))
    [] s[1] = "switch" ->
         Val(s[2], LAMBDA r : IF r.val.t # "num" THEN [r EXCEPT !.out = "error"]
                              ELSE Broken(MeanAll(FromLabel(s[3], r.val.n), r.loc, r.log)))
    [] s[1] \in {"break", "continue"} -> Result(loc, l, Num(0), s[1])
    [] s[1] = "return" -> Val(s[2], LAMBDA r : [r EXCEPT !.out = "return"])
    [] s[1] = "block" -> MeanAll(s[2], loc, l)
    [] s[1] = "empty" -> Result(loc, l, Num(0), "ok")

Meaning == Mean(Functions[fun].body, Functions[fun].args, <<>>)

(***************************************************************************)
(* Properties.                                                             *)
(***************************************************************************)
(***************************************************************************)
(* The code does what the text says: the same calls with the same          *)
(* arguments in the same order, the same value, and an error in the same   *)
(* place, through jumps patched after the fact, merged pushes, inverted    *)
(* tests, loop instructions, jump tables and moved variables.              *)
(***************************************************************************)
CodeMeansText ==
  status # "run" =>
    /\ log = Meaning.log
    /\ status = (IF Meaning.out = "error" THEN "error" ELSE "returned")
    /\ status = "returned" => value = (IF Meaning.out = "return" THEN Meaning.val ELSE Num(0))

(***************************************************************************)
(* A function that returns leaves nothing of its own on the stack: every   *)
(* foreach, catch and time_expression that it jumps out of is closed.      *)
(***************************************************************************)
StackBalanced == status = "returned" => stack = <<>> /\ handlers = <<>>
=============================================================================
