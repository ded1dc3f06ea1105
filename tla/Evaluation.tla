----------------------------- MODULE Evaluation -----------------------------
(***************************************************************************)
(* The calls of the LPC virtual machine: the control stack, the heights of *)
(* the value stack, the registers that a call saves, and the error         *)
(* contexts that a longjmp() goes back to (interpret.c, with error() and   *)
(* throw() of simulate.c, compiled with MUDLIB_ERROR_HANDLER and           *)
(* LOG_CATCHES).                                                           *)
(*                                                                         *)
(* What a function computes is left open: at any moment the running code   *)
(* may push a value, call, return, throw or make an error.  acts is the    *)
(* C stack: one activation for every C function that is waiting for LPC    *)
(* code to end.  A longjmp() cuts it back to the activation that holds the *)
(* innermost error context.  The values themselves are not modelled, only  *)
(* how many there are: sp counts them.                                     *)
(***************************************************************************)
EXTENDS Integers, Sequences, SequencesExt

CONSTANTS
    Obs,            \* the objects; 0 is no object
    Master,         \* the master object, which is asked to report errors
    MaxCallDepth,   \* CFG_MAX_CALL_DEPTH, the frames of the control stack
    StackSize,      \* bound on the values on the stack
    Given,          \* the numbers of arguments that callers pass
    Declared,       \* the numbers of arguments that functions declare
    SafeGiven       \* the numbers of arguments passed to the safe_ functions

ASSUME EvaluationAssumption ==
    /\ MaxCallDepth \in Nat \ {0} /\ StackSize \in Nat
    /\ Given \subseteq Nat /\ Declared \subseteq Nat /\ SafeGiven \subseteq Nat

VARIABLE m

(* The parts of the machine m:                                             *)
(*   stack, csp   the control stack; the frames above csp are stale        *)
(*   sp           how many values are on the stack                         *)
(*   regs         current_object, previous_ob, caller_type and fp          *)
(*   cg           command_giver                                            *)
(*   acts         the C functions waiting, the innermost last              *)
(*   now          "lpc", or "raise" in error(), "jump" in longjmp(),       *)
(*                "crash" when the value stack is popped below its bottom  *)
(*   too_deep, max_eval, handling   the global flags; handling is          *)
(*                num_mudlib_error                                         *)
(*   back         the activation that ended with the last step             *)
Kinds == {"FUNCTION", "FUNP", "CATCH", "FAKE"}

NoFrame == [kind |-> "FUNCTION", external |-> FALSE, regs |-> <<>>, nlocals |-> 0]
NoRegs == [ob |-> 0, prev |-> 0, caller |-> "DRIVER", fp |-> 1]

Top == Last(m.acts)

(* What an activation should find again when it goes on.                   *)
Before(s) == [regs |-> s.regs, csp |-> s.csp, sp |-> s.sp, cg |-> s.cg]

Act(s, k, n) == [k |-> k, n |-> n, before |-> Before(s), econ |-> <<>>]
---------------------------------------------------------------------------
(* Frames.                                                                 *)

TooDeep(s) == s.csp = MaxCallDepth

(* push_control_stack() when there is room: the registers are saved.       *)
push_control_stack(s, kind, external) ==
    [s EXCEPT !.csp = @ + 1,
              !.stack[s.csp + 1] = [kind |-> kind, external |-> external,
                                    regs |-> s.regs, nlocals |-> 0]]

(* Of a popped frame only the kind is ever looked at again.                *)
Stale(frame) == [NoFrame EXCEPT !.kind = frame.kind]

pop_control_stack(s) ==
    [s EXCEPT !.regs = s.stack[s.csp].regs,
              !.stack[s.csp] = Stale(s.stack[s.csp]),
              !.csp = @ - 1]

(* "Too deep recursion."                                                   *)
Deeper(s) == [s EXCEPT !.too_deep = TRUE, !.now = "raise"]

(* setup_variables(): surplus arguments are popped, missing ones and the   *)
(* locals are pushed as undefined values.                                  *)
setup_variables(s, actual, num_arg) ==
    [s EXCEPT !.sp = @ - actual + num_arg,
              !.regs.fp = s.sp - actual + 1,
              !.stack[s.csp].nlocals = num_arg]

(* A call of a function by apply_low(): the frame, then the variables.     *)
ApplyFrame(s, ob, caller, actual, num_arg) ==
    LET framed == setup_variables(push_control_stack(s, "FUNCTION", TRUE), actual, num_arg)
    IN  [framed EXCEPT !.regs.prev = s.regs.ob,
                       !.regs.ob = ob,
                       !.regs.caller = caller]

apply_low(s, ob, caller, actual, num_arg) ==
    IF TooDeep(s) THEN Deeper(s) ELSE ApplyFrame(s, ob, caller, actual, num_arg)
---------------------------------------------------------------------------
(* Error contexts.                                                         *)

save_context(s, act) ==
    [act EXCEPT !.econ = <<[sp |-> s.sp, csp |-> s.csp, cg |-> s.cg]>>]

(* The activation that holds current_error_context.                        *)
Holder(s) == CHOOSE i \in DOMAIN s.acts :
                /\ s.acts[i].econ # <<>>
                /\ \A j \in i + 1 .. Len(s.acts) : s.acts[j].econ = <<>>

(* error() asks the frame above the context whether it is a catch().       *)
Caught(s, econ) == s.stack[econ.csp + 1].kind = "CATCH"

(* A mutation: the pop uses the frame on top when the error happened.      *)
UnwindFromTop(s, econ) ==
    IF s.csp > econ.csp
    THEN [pop_control_stack(s) EXCEPT !.csp = econ.csp]
    ELSE s

(* restore_context(): one pop brings the registers back, since the frame   *)
(* above the saved one holds them; then the values above are popped.       *)
UnwindFrames(s, econ) ==
    IF s.csp > econ.csp
    THEN pop_control_stack([s EXCEPT !.csp = econ.csp + 1,
                                     !.stack = [i \in DOMAIN @ |->
                                         IF i > econ.csp + 1 THEN Stale(@[i])
                                         ELSE @[i]]])
    ELSE s

restore_context(s, econ) ==
    LET unwound == UnwindFrames(s, econ) IN
    IF s.sp < econ.sp
    THEN [unwound EXCEPT !.now = "crash", !.cg = econ.cg]
    ELSE [unwound EXCEPT !.now = "lpc", !.cg = econ.cg, !.sp = econ.sp]

(* The activation act is over.                                             *)
Ended(s, act, failed, left) ==
    [s EXCEPT !.acts = Front(@),
              !.back = <<[k |-> act.k, n |-> act.n, failed |-> failed,
                          left |-> left, before |-> act.before]>>]
---------------------------------------------------------------------------
(* What running code may do.                                               *)

Fresh == [m EXCEPT !.back = <<>>]

Running == m.now = "lpc" /\ Top.k # "backend"

Room(n) == m.sp + n + 2 <= StackSize

(* The height of the stack where the running code holds no value.          *)
Base == IF Top.k = "catch" THEN Top.before.sp
        ELSE m.regs.fp + m.stack[m.csp].nlocals - 1

(* A value held while an expression is evaluated; one is enough to tell    *)
(* a stack that is restored from one that is not.                          *)
Push ==
    /\ Running
    /\ Room(1)
    /\ m.sp = Base
    /\ m' = [Fresh EXCEPT !.sp = @ + 1]

Pop ==
    /\ Running
    /\ m.sp > Base
    /\ m' = [Fresh EXCEPT !.sp = @ - 1]

(* The backend, an efun or the driver within an efun applies a function of *)
(* ob; the n arguments have been pushed.  apply() takes the result off the *)
(* stack.  A function that is not there leaves nothing behind.             *)
Apply(ob, n, num_arg, caller) ==
    /\ m.now = "lpc"
    /\ Room(n + num_arg)
    /\ m' = apply_low([Fresh EXCEPT !.sp = @ + n,
                                    !.acts = Append(@, Act(m, "apply", n))],
                      ob, caller, n, num_arg)

ApplyMissing(n) ==
    /\ m.now = "lpc"
    /\ Room(n)
    /\ m' = Ended([Fresh EXCEPT !.acts = Append(@, Act(m, "apply", n))],
                  Act(m, "apply", n), FALSE, 0)

(* parse_command(): the command giver is exchanged for the time of the     *)
(* command, of which only a function of an action shows here.              *)
Command(ob, num_arg) ==
    /\ m.now = "lpc"
    /\ Room(1 + num_arg)
    /\ m' = apply_low([Fresh EXCEPT !.sp = @ + 1, !.cg = ob,
                                    !.acts = Append(@, Act(m, "command", 1))],
                      ob, "DRIVER", 1, num_arg)

(* safe_apply(): without room for a frame there is no context and nothing  *)
(* is called; the arguments stay on the stack.                             *)
SafeApply(ob, n, num_arg) ==
    /\ m.now = "lpc"
    /\ Room(n + num_arg)
    /\ LET pushed == [Fresh EXCEPT !.sp = @ + n]
           act == Act(m, "safe_apply", n)
       IN m' = IF TooDeep(m)
               THEN Ended([pushed EXCEPT !.acts = Append(@, act)], act, TRUE, n)
               ELSE apply_low([pushed EXCEPT !.acts =
                                  Append(@, save_context(pushed, act))],
                              ob, "DRIVER", n, num_arg)

(* F_CALL_FUNCTION_BY_ADDRESS, F_CALL_INHERITED: a call within the object. *)
CallLocal(n, num_arg) ==
    /\ Running
    /\ Room(n + num_arg)
    /\ LET pushed == [Fresh EXCEPT !.sp = @ + n,
                                   !.acts = Append(@, Act(m, "local", n))]
       IN m' = IF TooDeep(m) THEN Deeper(pushed)
               ELSE [setup_variables(push_control_stack(pushed, "FUNCTION", FALSE),
                                     n, num_arg)
                        EXCEPT !.regs.caller = "LOCAL"]

(* call_simul_efun(): a function of the simul_efun object, found already;  *)
(* its result stays on the stack as that of a local call does.             *)
CallSimulEfun(ob, n, num_arg) ==
    /\ Running
    /\ Room(n + num_arg)
    /\ m' = apply_low([Fresh EXCEPT !.sp = @ + n,
                                    !.acts = Append(@, Act(m, "local", n))],
                      ob, "SIMUL_EFUN", n, num_arg)

(* call_function(), for a heart_beat(), and call___INIT(): no argument is  *)
(* passed and the result is dropped.                                       *)
CallFunction(ob, num_arg) ==
    /\ m.now = "lpc"
    /\ Room(num_arg)
    /\ m' = apply_low([Fresh EXCEPT !.acts = Append(@, Act(m, "apply", 0))],
                      ob, "DRIVER", 0, num_arg)
---------------------------------------------------------------------------
(* Function pointers.                                                      *)

setup_fake_frame(s, owner) ==
    [push_control_stack(s, "FAKE", FALSE)
        EXCEPT !.regs.prev = s.regs.ob, !.regs.ob = owner,
               !.regs.caller = "FUNCTION_POINTER"]

(* FP_EFUN: the efun runs at once, and its result is taken; or it fails.   *)
EfunPointer(s, owner, n, fails) ==
    IF fails THEN [setup_fake_frame(s, owner) EXCEPT !.now = "raise"]
    ELSE Ended([pop_control_stack(setup_fake_frame(s, owner)) EXCEPT !.sp = @ - n],
               Last(s.acts), FALSE, 0)

(* FP_SIMUL: call_simul_efun() on top of the fake frame.                   *)
SimulPointer(s, owner, n, num_arg) ==
    apply_low(setup_fake_frame(s, owner), owner, "SIMUL_EFUN", n, num_arg)

(* FP_LOCAL and FP_FUNCTIONAL: a second frame, for the function itself.    *)
CodePointer(s, owner, n, num_arg, frame) ==
    LET fake == setup_fake_frame(s, owner) IN
    IF TooDeep(fake) THEN Deeper(fake)
    ELSE [setup_variables(push_control_stack(fake, frame, TRUE), n, num_arg)
            EXCEPT !.regs.caller = IF frame = "FUNP" THEN "FUNCTIONAL" ELSE "LOCAL"]

call_function_pointer(s, owner, n, num_arg, type) ==
    CASE type = "owner destructed" -> [s EXCEPT !.now = "raise"]
      [] type # "owner destructed" /\ TooDeep(s) -> Deeper(s)
      [] OTHER ->
         CASE type = "efun" -> EfunPointer(s, owner, n, FALSE)
           [] type = "failing efun" -> EfunPointer(s, owner, n, TRUE)
           [] type = "simul" -> SimulPointer(s, owner, n, num_arg)
           [] type = "local" -> CodePointer(s, owner, n, num_arg, "FUNCTION")
           [] type = "functional" -> CodePointer(s, owner, n, num_arg, "FUNP")

PointerTypes == {"owner destructed", "efun", "failing efun", "simul", "local", "functional"}

CallFunctionPointer(owner, n, num_arg, type) ==
    /\ m.now = "lpc"
    /\ Room(n + num_arg)
    /\ m' = call_function_pointer([Fresh EXCEPT !.sp = @ + n,
                                       !.acts = Append(@, Act(m, "funp", n))],
                                  owner, n, num_arg, type)

SafeCallFunctionPointer(owner, n, num_arg, type) ==
    /\ m.now = "lpc"
    /\ Room(n + num_arg)
    /\ LET pushed == [Fresh EXCEPT !.sp = @ + n]
           act == Act(m, "safe_funp", n)
       IN m' = IF TooDeep(m)
               THEN Ended([pushed EXCEPT !.acts = Append(@, act)], act, TRUE, n)
               ELSE call_function_pointer([pushed EXCEPT !.acts =
                                              Append(@, save_context(pushed, act))],
                                          owner, n, num_arg, type)
---------------------------------------------------------------------------
(* Returning.                                                              *)

(* The C code behind an external frame goes on.  A "handler" goes on in    *)
(* error(), which leaves by longjmp().                                     *)
GoOn(s) ==
    LET act == Last(s.acts) IN
    CASE act.k = "local" -> Ended(s, act, FALSE, 1)
      [] act.k \in {"apply", "safe_apply"} ->
            Ended([s EXCEPT !.sp = @ - 1], act, FALSE, 0)
      [] act.k = "command" ->
            Ended([s EXCEPT !.sp = @ - 1, !.cg = act.before.cg], act, FALSE, 0)
      [] act.k \in {"funp", "safe_funp"} ->
            Ended(pop_control_stack([s EXCEPT !.sp = @ - 1]), act, FALSE, 0)
      [] act.k = "handler" ->
            [s EXCEPT !.sp = @ - 1, !.handling = @ - 1, !.now = "jump"]

(* F_RETURN, with the value it returns pushed.  The code generator leaves  *)
(* nothing else on the stack at that point.                                *)
Return ==
    /\ Running
    /\ Top.k # "catch"
    /\ m.sp = Base
    /\ m' = GoOn(pop_control_stack([Fresh EXCEPT !.sp = @ + 1 - m.stack[m.csp].nlocals]))
---------------------------------------------------------------------------
(* catch().                                                                *)

do_catch ==
    /\ Running
    /\ Room(1)
    /\ m' = IF TooDeep(m)
            THEN [Fresh EXCEPT !.now = "raise"]
            ELSE push_control_stack(
                    [Fresh EXCEPT !.acts =
                        Append(@, save_context(m, Act(m, "catch", 0)))], "CATCH", TRUE)

(* F_END_CATCH: the block ended by itself, and 0 is pushed.                *)
EndCatch ==
    /\ Running
    /\ Top.k = "catch"
    /\ m.sp = Base
    /\ m' = Ended([pop_control_stack(Fresh) EXCEPT !.sp = @ + 1], Top, FALSE, 1)
---------------------------------------------------------------------------
(* Errors.                                                                 *)

(* An error of the code, before or after it pushed something.              *)
Error ==
    /\ Running
    /\ m' = [Fresh EXCEPT !.now = "raise"]

(* "Too long evaluation": the cost starts anew for what follows.           *)
TooLong ==
    /\ Running
    /\ ~m.max_eval
    /\ m' = [Fresh EXCEPT !.now = "raise", !.max_eval = TRUE]

(* throw() goes to the catch(), if that is what is next, without a report. *)
Throw ==
    /\ Running
    /\ m' = [Fresh EXCEPT !.now =
                IF Caught(m, m.acts[Holder(m)].econ[1]) THEN "jump" ELSE "raise"]

(* mudlib_error_handler(): the master's error_handler() is applied on top  *)
(* of everything, with the error as a mapping, and a 1 for a caught error. *)
mudlib_error_handler(s, caught, num_arg) ==
    LET n == IF caught THEN 2 ELSE 1 IN
    apply_low([s EXCEPT !.sp = @ + n, !.now = "lpc", !.handling = @ + 1,
                        !.acts = Append(@, Act(s, "handler", n))],
              Master, "DRIVER", n, num_arg)

(* error_handler().  An error in the master's error_handler() is only      *)
(* written to the log.                                                     *)
error_handler(num_arg) ==
    /\ m.now = "raise"
    /\ LET caught == Caught(m, m.acts[Holder(m)].econ[1])
           s == IF caught THEN Fresh
                ELSE [Fresh EXCEPT !.too_deep = FALSE, !.max_eval = FALSE]
       IN m' = IF m.handling # 0
               THEN [s EXCEPT !.handling = 0, !.now = "jump"]
               ELSE mudlib_error_handler(s, caught, num_arg)

(* longjmp(): what each holder of a context does when it is reached.       *)
CaughtError(s, act) ==
    LET pushed == [s EXCEPT !.sp = @ + 1] IN
    IF s.max_eval \/ s.too_deep
    THEN [pushed EXCEPT !.acts = Front(@), !.now = "raise"]
    ELSE Ended(pushed, act, TRUE, 1)

Reached(s, act) ==
    IF s.now = "crash" THEN s ELSE
    CASE act.k = "backend" -> s
      [] act.k = "catch" -> CaughtError(s, act)
      [] act.k = "safe_apply" -> Ended(s, act, TRUE, act.n)
      [] act.k = "safe_funp" -> Ended([s EXCEPT !.sp = @ - act.n], act, TRUE, 0)

LongJmp ==
    /\ m.now = "jump"
    /\ LET i == Holder(m)
           act == m.acts[i]
       IN m' = Reached(restore_context([Fresh EXCEPT !.acts = SubSeq(@, 1, i)],
                                       act.econ[1]), act)
---------------------------------------------------------------------------
EvaluationInit == LET empty == [stack |-> [i \in 1 .. MaxCallDepth |-> NoFrame], csp |-> 0,
                      sp |-> 0, regs |-> NoRegs, cg |-> 0, acts |-> <<>>,
                      now |-> "lpc", too_deep |-> FALSE, max_eval |-> FALSE,
                      handling |-> 0, back |-> <<>>]
        IN m = [empty EXCEPT !.acts = <<save_context(empty, Act(empty, "backend", 0))>>]

EvaluationNext ==
    \/ Push \/ Pop
    \/ \E ob \in Obs, n \in Given, d \in Declared : Apply(ob, n, d, "CALL_OTHER")
    \/ \E n \in Given : ApplyMissing(n)
    \/ \E ob \in Obs, d \in Declared : Command(ob, d)
    \/ \E ob \in Obs, n \in SafeGiven, d \in Declared : SafeApply(ob, n, d)
    \/ \E n \in Given, d \in Declared : CallLocal(n, d)
    \/ \E ob \in Obs, n \in Given, d \in Declared : CallSimulEfun(ob, n, d)
    \/ \E ob \in Obs, d \in Declared : CallFunction(ob, d)
    \/ \E ob \in Obs, n \in Given, d \in Declared, t \in PointerTypes :
          CallFunctionPointer(ob, n, d, t)
    \/ \E ob \in Obs, n \in SafeGiven, d \in Declared, t \in PointerTypes :
          SafeCallFunctionPointer(ob, n, d, t)
    \/ Return
    \/ do_catch \/ EndCatch
    \/ Error \/ TooLong \/ Throw
    \/ \E d \in Declared : error_handler(d)
    \/ LongJmp

EvaluationSpec == EvaluationInit /\ [][EvaluationNext]_m
---------------------------------------------------------------------------
(* However a call ends (by a return, by an error caught in it, by an error *)
(* unwound through it, for want of room), the code that made it goes on    *)
(* with its own registers, its own frame on top of the control stack and   *)
(* exactly the values the call should have left; after an error the        *)
(* command giver is the one of before as well.                             *)
GoesOnAsBefore ==
    m.back # <<>> /\ m.now = "lpc" =>
        LET b == m.back[1] IN
        /\ m.regs = b.before.regs
        /\ m.csp = b.before.csp
        /\ m.sp = b.before.sp + b.left
        /\ b.failed \/ b.k = "command" => m.cg = b.before.cg

(* The frames on the control stack are those of the activations, in order: *)
(* no unwinding leaves one behind or takes one too many.                   *)
FrameCount(act) == CASE act.k \in {"backend"} -> {0}
                     [] act.k \in {"funp", "safe_funp"} -> {0, 1, 2}
                     [] OTHER -> {0, 1}

FramesMatch ==
    /\ \A i \in 1 .. Len(m.acts) - 1 :
          m.acts[i + 1].before.csp - m.acts[i].before.csp \in FrameCount(m.acts[i])
    /\ m.csp - Top.before.csp \in FrameCount(Top)
    /\ m.now = "lpc" /\ Top.k = "backend" => m.csp = 0 /\ m.regs = NoRegs /\ m.cg = 0

(* Whatever errors, catches and safe applies are nested, at every limit of *)
(* the stacks: both of the above.                                          *)
EvaluationSound == GoesOnAsBefore /\ FramesMatch

(* pop_n_elems() is never asked to pop fewer than no values: an error      *)
(* finds at least as many values on the stack as when its context was      *)
(* made.                                                                   *)
(* Refuted; see the README, section 6.                                     *)
NeverPopsNegative == m.now # "crash"

=============================================================================
