----------------------------- MODULE EfunStack -----------------------------
(***************************************************************************)
(* The value stack while an efun runs (eval_instruction in interpret.c).   *)
(*                                                                         *)
(* The compiled call has pushed the arguments; the efun frees them by      *)
(* hand, slot by slot, and leaves its result in their place.  Nothing but  *)
(* the efun's own code says which slots still own a reference: an error    *)
(* unwinds by freeing every slot up to sp, a call into LPC code overwrites *)
(* every slot above sp, and an object destructed by that code is replaced  *)
(* by 0 in every slot up to sp.                                            *)
(*                                                                         *)
(* An efun is a set of ways through its code, each way the sequence of the *)
(* operations it does on the stack.  A slot is named by its distance d     *)
(* from sp at that moment.                                                 *)
(***************************************************************************)
EXTENDS Integers, Sequences

VARIABLES
    efun,     \* the instruction and the kinds of its arguments, <<>> before
    way,      \* the operations it has still to do
    mem,      \* the slots of the stack, those above sp included
    sp,       \* the top of the stack
    fault     \* what has gone wrong, "none"

stackVars == <<efun, way, mem, sp, fault>>

\* The kinds of values; a value of kind "v" is of a kind nobody looked at.
Plain == {"n", "r"}                                       \* number, real
Counted == {"s", "o", "a", "m", "f", "b", "c", "v"}
AnyKind == Plain \cup (Counted \ {"v"})

\* Two more contents of a slot: the reference was freed or handed on, and
\* the slot was overwritten by code that ran above sp.
Gone == {"x", "junk"}

-----------------------------------------------------------------------------
(***************************************************************************)
(* The operations.                                                         *)
(***************************************************************************)
Op(o, d, n, k) == [op |-> o, d |-> d, n |-> n, k |-> k]

\* pop_n_elems(n), pop_stack(): free the top n slots and go below them.
Pop(n) == Op("pop", 0, n, "?")

\* sp -= n: what the slots hold is still there, and still owned.
Down(n) == Op("down", 0, n, "?")

\* free_string_svalue(), free_object(), free_array()...: free slot d as a
\* value of kind k; free_svalue() looks at the kind itself (k = "?").
FreeAt(d, k) == Op("free", d, 0, k)
Free(k) == FreeAt(0, k)

\* put_number(), put_array(), *sp = const0...: write over slot d.
PutAt(d, k) == Op("put", d, 0, k)
Put(k) == PutAt(0, k)

\* push_number(), push_object(), push_svalue()...
Push(k) == Op("push", 0, 0, k)

\* The reference of slot d now belongs to somebody else.
MoveAt(d) == Op("move", d, 0, "?")

\* *(sp + d) = *(sp + n): the value of one slot moves to another.
CopyAt(d, n) == Op("copy", d, n, "?")

\* The slot is read as a value of kind k.
UseAt(d, k) == Op("use", d, 0, k)

\* LPC code runs and takes the top n slots: it returns, it raises an error,
\* or it destructs objects that are on the stack.
Call(n) == Op("call", 0, n, "?")

\* A helper of the driver pushes arguments of its own and calls.
Ask == Call(0)

\* The driver may raise an error here; it does.
Fail == Op("fail", 0, 0, "?")
Raise == Op("raise", 0, 0, "?")

\* destruct_object() of the object in slot 0 scrubs it from the stack.
Destruct == Op("destruct", 0, 0, "o")

Repeat(o, n) == [i \in 1..n |-> o]

-----------------------------------------------------------------------------
(***************************************************************************)
(* What an operation does.                                                 *)
(***************************************************************************)
StackInit ==
    /\ efun = <<>>
    /\ way = <<>>
    /\ mem = <<>>
    /\ sp = 0
    /\ fault = "none"

\* The instruction starts with its arguments on the stack.
Starts(name, args, ways) ==
    /\ efun = <<>>
    /\ efun' = <<name, args>>
    /\ mem' = args
    /\ sp' = Len(args)
    /\ way' \in ways
    /\ fault' = fault

Running(o) == way # <<>> /\ way[1].op = o /\ fault = "none"

At(d) == sp + d
There(d) == At(d) \in 1..Len(mem)

\* The next operation, and the fault it makes if there is one.
Does(newMem, newSp, problem) ==
    /\ way' = Tail(way)
    /\ mem' = newMem
    /\ sp' = newSp
    /\ fault' = problem
    /\ efun' = efun

Popped ==
    LET n == way[1].n
        bad == {i \in (sp - n + 1)..sp : i < 1 \/ (i > 0 /\ mem[i] \in Gone)} IN
    /\ Running("pop")
    /\ Does([i \in DOMAIN mem |-> IF i > sp - n /\ i <= sp THEN "x" ELSE mem[i]],
            sp - n, IF bad = {} THEN "none" ELSE "freed twice")

WentDown ==
    /\ Running("down")
    /\ Does(mem, sp - way[1].n, IF sp < way[1].n THEN "below the bottom" ELSE "none")

Freed ==
    LET d == way[1].d
        k == way[1].k IN
    /\ Running("free")
    /\ IF ~There(d) THEN Does(mem, sp, "no such slot")
       ELSE Does([mem EXCEPT ![At(d)] = "x"], sp,
                 CASE mem[At(d)] \in Gone -> "freed twice"
                   [] k # "?" /\ mem[At(d)] # k -> "freed as another kind"
                   [] OTHER -> "none")

\* Writing over a slot that still owns something loses it.
Lost(i) == i <= Len(mem) /\ mem[i] \in Counted

Wrote ==
    LET d == way[1].d IN
    /\ Running("put")
    /\ IF ~There(d) THEN Does(mem, sp, "no such slot")
       ELSE Does([mem EXCEPT ![At(d)] = way[1].k], sp,
                 IF Lost(At(d)) THEN "lost a reference" ELSE "none")

Pushed ==
    /\ Running("push")
    /\ Does(IF sp < Len(mem) THEN [mem EXCEPT ![sp + 1] = way[1].k]
                             ELSE Append(mem, way[1].k),
            sp + 1, IF Lost(sp + 1) THEN "lost a reference" ELSE "none")

Moved ==
    LET d == way[1].d IN
    /\ Running("move")
    /\ IF ~There(d) THEN Does(mem, sp, "no such slot")
       ELSE Does([mem EXCEPT ![At(d)] = "x"], sp,
                 IF mem[At(d)] \in Gone THEN "handed on twice" ELSE "none")

Copied ==
    LET d == way[1].d
        e == way[1].n IN
    /\ Running("copy")
    /\ IF ~There(d) \/ ~There(e) THEN Does(mem, sp, "no such slot")
       ELSE Does([mem EXCEPT ![At(d)] = mem[At(e)], ![At(e)] = "x"], sp,
                 CASE mem[At(e)] \in Gone -> "read after it was gone"
                   [] Lost(At(d)) -> "lost a reference"
                   [] OTHER -> "none")

Used ==
    LET d == way[1].d IN
    /\ Running("use")
    /\ Does(mem, sp, CASE ~There(d) -> "no such slot"
                       [] There(d) /\ mem[At(d)] \in Gone -> "read after it was gone"
                       [] There(d) /\ mem[At(d)] # way[1].k -> "read as another kind"
                       [] OTHER -> "none")

\* What LPC code that takes the top n slots leaves of the stack.
AfterCall(n) == [i \in DOMAIN mem |-> IF i > sp - n THEN "junk" ELSE mem[i]]

\* A reference above sp when the stack is used by others is never freed.
LostAbove == \E i \in (sp + 1)..Len(mem) : mem[i] \in Counted

CallReturned ==
    /\ Running("call")
    /\ Does(AfterCall(way[1].n), sp - way[1].n,
            CASE sp < way[1].n -> "below the bottom"
              [] \E i \in (sp - way[1].n + 1)..sp : mem[i] \in Gone -> "freed twice"
              [] LostAbove -> "lost a reference"
              [] OTHER -> "none")

\* remove_object_from_stack(): a destructed object becomes the number 0.
CallDestructed ==
    LET n == way[1].n IN
    /\ Running("call")
    /\ \E gone \in (SUBSET {i \in 1..(sp - n) : mem[i] = "o"}) \ {{}} :
          Does([i \in DOMAIN mem |-> IF i \in gone THEN "n" ELSE AfterCall(n)[i]],
               sp - n, IF LostAbove THEN "lost a reference" ELSE "none")

\* error(): the arguments of the call are gone or are freed with the rest.
Errs ==
    /\ way # <<>> /\ fault = "none" /\ way[1].op \in {"call", "fail", "raise"}
    /\ way' = <<>>
    /\ mem' = <<>>
    /\ sp' = -1
    /\ fault' = CASE \E i \in 1..sp : mem[i] \in Gone -> "freed twice by error()"
                  [] LostAbove -> "lost a reference in error()"
                  [] OTHER -> "none"
    /\ efun' = efun

Passed ==
    /\ Running("fail")
    /\ Does(mem, sp, "none")

Destructed ==
    /\ Running("destruct")
    /\ Does([mem EXCEPT ![sp] = IF @ = "o" THEN "n" ELSE @], sp, "none")
=============================================================================
