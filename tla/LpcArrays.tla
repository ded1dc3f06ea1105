----------------------------- MODULE LpcArrays ------------------------------
(***************************************************************************)
(* LPC arrays (array.c): blocks with a reference count whose operations    *)
(* reuse a block, or move its elements, when nobody else holds it, and the *)
(* efuns that call back into the program between two elements.             *)
(*                                                                         *)
(* A slot is a variable of the program or the place on the stack where an  *)
(* efun keeps its argument or its result.  "want" is what every slot       *)
(* should hold and which slots share it, as LPC defines its statements,    *)
(* whatever blocks are reused.  Elements are the number 0 or objects,      *)
(* which are counted too; alist_cmp() orders them by their number.  The    *)
(* empty array is one static block that is never freed or written.         *)
(***************************************************************************)
EXTENDS Integers, Sequences, FiniteSets, SequencesExt, FiniteSetsExt

CONSTANTS
    Vars,               \* the variables of the program
    Things,             \* objects that are elements: numbers from 1
    Blocks,             \* addresses of arrays: numbers from 1
    MAX_ARRAY_SIZE,
    MaxStatements       \* bound: the statements the program runs

VARIABLES
    heap,     \* [arr: Blocks -> [ref, items], cnt: Things -> references from arrays]
    slot,     \* Slots -> the block or Null
    want,     \* Slots -> [items, with]
    dead,     \* the destructed objects
    job,      \* the efun with callbacks under way
    lost,     \* blocks an error has left without a holder
    left      \* how many statements the program may still run

avars == <<heap, slot, want, dead, job, lost, left>>

Null == 0                       \* &the_null_array
Invalid == -1                   \* T_INVALID
Slots == Vars \cup {"arg", "result"}
NoJob == [op |-> "none"]
Free == [ref |-> 0, items |-> <<>>]

-----------------------------------------------------------------------------
(* Blocks and counts. *)
Items(h, p) == IF p = Null THEN <<>> ELSE h.arr[p].items
Ref(h, p)   == IF p = Null THEN 1 ELSE h.arr[p].ref

Occurs(t, s) == Cardinality({i \in DOMAIN s : s[i] = t})

Counted(h, s, n) == [h EXCEPT !.cnt = [t \in Things |-> @[t] + n * Occurs(t, s)]]

WithRef(h, p, n) == IF p = Null THEN h ELSE [h EXCEPT !.arr[p].ref = @ + n]

At(h, p) == [h |-> h, p |-> p]

\* allocate_empty_array() and its elements, which are already counted.
Moved(h, s) ==
    IF s = <<>> THEN At(h, Null)
    ELSE LET p == CHOOSE b \in Blocks : h.arr[b].ref = 0
         IN At([h EXCEPT !.arr[p] = [ref |-> 1, items |-> s]], p)

allocate_array(h, s) == Moved(Counted(h, s, 1), s)

free_array(h, p) ==
    CASE p = Null -> h
      [] h.arr[p].ref > 1 -> WithRef(h, p, -1)
      [] OTHER -> Counted([h EXCEPT !.arr[p] = Free], h.arr[p].items, -1)

\* FREE() of a block whose elements live on.
Release(h, p) == [h EXCEPT !.arr[p] = Free]

copy_array(h, p) == allocate_array(h, Items(h, p))

\* What add_array() and subtract_array() return when the other operand is empty.
Unshared(h, p) == IF Ref(h, p) > 1 THEN copy_array(WithRef(h, p, -1), p) ELSE At(h, p)

-----------------------------------------------------------------------------
(* add_array() and slice_array(): both consume a reference to what they    *)
(* are given.                                                              *)
TooLarge(h, p, r) ==
    /\ Items(h, p) # <<>> /\ Items(h, r) # <<>>
    /\ Len(Items(h, p)) + Len(Items(h, r)) > MAX_ARRAY_SIZE

\* Wrong on purpose: the elements of r are moved though another holder has them.
AddMovesAlways(h, p, r) ==
    LET b == Items(h, r)
        d == Moved(Counted(h, Items(h, p), 1), Items(h, p) \o b)
    IN At(Release(free_array(d.h, p), r), d.p)

add_array(h, p, r) ==
    LET a == Items(h, p)
        b == Items(h, r)
        d == IF Ref(h, p) = 1 THEN At([h EXCEPT !.arr[p].items = a \o b], p)
             ELSE Moved(WithRef(Counted(h, a, 1), p, -1), a \o b)
    IN CASE a = <<>> -> Unshared(WithRef(h, p, -1), r)
         [] a # <<>> /\ b = <<>> -> Unshared(WithRef(h, r, -1), p)
         [] a # <<>> /\ b # <<>> /\ p = r /\ Ref(h, p) = 2 ->
                At(Counted([h EXCEPT !.arr[p] = [ref |-> 1, items |-> a \o a]], a, 1), p)
         [] OTHER -> IF Ref(d.h, r) = 1 THEN At(Release(d.h, r), d.p)
                     ELSE At(WithRef(Counted(d.h, b, 1), r, -1), d.p)

\* Wrong on purpose: the block is cut though it has another holder.
SliceCutsAlways(h, p, from, to) ==
    IF from > to \/ from >= Len(Items(h, p)) THEN At(free_array(h, p), Null)
    ELSE LET s == SubSeq(Items(h, p), from + 1, to + 1)
         IN At([Counted(Counted(h, Items(h, p), -1), s, 1) EXCEPT !.arr[p].items = s], p)

slice_array(h, p, from, to) ==
    LET a == Items(h, p)
        f == IF from < 0 THEN 0 ELSE from
        t == IF to >= Len(a) THEN Len(a) - 1 ELSE to
        s == SubSeq(a, f + 1, t + 1)
    IN CASE f > t -> At(free_array(h, p), Null)
         [] f <= t /\ Ref(h, p) = 1 ->
                At([Counted(Counted(h, a, -1), s, 1) EXCEPT !.arr[p].items = s], p)
         [] OTHER -> allocate_array(WithRef(h, p, -1), s)

-----------------------------------------------------------------------------
(* alist_sort(): a heap in an array, 0 for the root; the table it gives is *)
(* searched by halves.                                                     *)
RECURSIVE SiftUp(_, _, _)
SiftUp(t, i, val) ==
    IF i = 0 THEN t
    ELSE LET p == (i - 1) \div 2
         IN SiftUp(IF t[p] > t[i] THEN [t EXCEPT ![i] = t[p], ![p] = val] ELSE t, p, val)

Heaped(s) ==
    FoldLeft(LAMBDA t, j : SiftUp([i \in 0 .. j - 1 |-> IF i = j - 1 THEN s[j] ELSE t[i]], j - 1, s[j]),
             [i \in {} |-> 0], [j \in 1 .. Len(s) |-> j])

Valid(t, i) == i \in DOMAIN t /\ t[i] # Invalid

\* The root is taken, the smaller child moves up, and so on down to a leaf.
RECURSIVE WithoutRoot(_, _)
WithoutRoot(t, i) ==
    LET l == 2 * i + 1
        c == IF Valid(t, l + 1) /\ (t[l] = Invalid \/ t[l] > t[l + 1]) THEN l + 1 ELSE l
    IN IF Valid(t, c) THEN WithoutRoot([t EXCEPT ![i] = t[c]], c) ELSE [t EXCEPT ![i] = Invalid]

\* The dead objects of a block become 0 where they are.
Buried(s) == [i \in DOMAIN s |-> IF s[i] \in dead THEN 0 ELSE s[i]]

WithoutDead(h, p) ==
    LET s == Items(h, p)
    IN IF p = Null THEN h ELSE [Counted(Counted(h, s, -1), Buried(s), 1) EXCEPT !.arr[p].items = Buried(s)]

Unheaped(t) ==
    FoldLeft(LAMBDA r, j : [heap |-> WithoutRoot(r.heap, 0), out |-> Append(r.out, r.heap[0])],
             [heap |-> t, out |-> <<>>], [j \in 1 .. Cardinality(DOMAIN t) |-> j]).out

\* The table holds the block's own elements when nobody else has the block.
alist_sort(h, p) ==
    LET g == WithoutDead(h, p)
        s == Items(g, p)
    IN [h |-> IF Ref(g, p) > 1 THEN Counted(g, s, 1) ELSE g, table |-> Unheaped(Heaped(s))]

\* FREE() of an operand: its elements went with the table if it had them.
Consumed(h, p) == IF Ref(h, p) > 1 THEN WithRef(h, p, -1) ELSE Release(h, p)

RECURSIVE Found(_, _, _, _)
Found(x, t, l, r) ==
    LET o == (l + r) \div 2
    IN l <= r /\ (t[o] = x \/ (IF x < t[o] THEN Found(x, t, l, o - 1) ELSE Found(x, t, o + 1, r)))

subtract_array(h, minuend, subtrahend) ==
    LET srt  == alist_sort(h, subtrahend)
        g    == WithoutDead(srt.h, minuend)
        rest == SelectSeq(Items(g, minuend), LAMBDA x : ~Found(x, srt.table, 1, Len(srt.table)))
        done == Counted(Counted(g, rest, 1), srt.table, -1)
    IN CASE Items(h, subtrahend) = <<>> -> Unshared(WithRef(h, subtrahend, -1), minuend)
         [] Items(h, subtrahend) # <<>> /\ Items(h, minuend) = <<>> -> At(free_array(h, subtrahend), Null)
         [] OTHER -> Moved(free_array(Consumed(done, subtrahend), minuend), rest)

\* The merge of the table of a1 with the heap of a2, in the order of the heap.
RECURSIVE Merged(_, _, _)
Merged(table, i, t) ==
    IF Invalid = t[0] THEN <<>>
    ELSE IF t[0] > table[i] THEN IF i = Len(table) THEN <<>> ELSE Merged(table, i + 1, t)
    ELSE (IF t[0] = table[i] THEN <<t[0]>> ELSE <<>>) \o Merged(table, i, WithoutRoot(t, 0))

intersect_array(h, a1, a2) ==
    LET srt  == alist_sort(h, a1)
        g    == WithoutDead(srt.h, a2)
        own  == IF Ref(g, a2) > 1 THEN Counted(g, Items(g, a2), 1) ELSE g
        both == Merged(srt.table, 1, Heaped(Items(g, a2)))
        done == Counted(Counted(Counted(own, both, 1), Items(g, a2), -1), srt.table, -1)
    IN IF Items(h, a1) = <<>> \/ Items(h, a2) = <<>>
       THEN At(free_array(free_array(h, a1), a2), Null)
       ELSE LET c == Consumed(done, a1)
            IN Moved(IF Ref(g, a2) > 1 THEN WithRef(c, a2, -1) ELSE Release(c, a2), both)

-----------------------------------------------------------------------------
(* What the program does: an operand is pushed, or taken out of its        *)
(* variable when this is its last use (F_TRANSFER_LOCAL).                  *)
Pushed(h, s, x, takes) ==
    IF takes THEN [h |-> h, s |-> [s EXCEPT ![x] = Null], p |-> s[x]]
    ELSE [h |-> WithRef(h, s[x], 1), s |-> s, p |-> s[x]]

\* The slots of gone lose their array, then x gets a new one.
Wants(x, items, gone) ==
    [y \in Slots |-> CASE y = x -> [items |-> items, with |-> {x}]
                       [] y # x /\ y \in gone -> [items |-> <<>>, with |-> {y}]
                       [] OTHER -> [want[y] EXCEPT !.with = @ \ (gone \cup {x})]]

\* The result of an operation is assigned to x; what was there is freed.
Stored(r, s, x) ==
    /\ heap' = free_array(r.h, s[x])
    /\ slot' = [s EXCEPT ![x] = r.p]

Statement == left > 0 /\ left' = left - 1

Room == Cardinality({b \in Blocks : heap.arr[b].ref = 0}) >= 3

\* x = y;
Share(x, y) ==
    /\ Statement
    /\ x # y
    /\ heap' = free_array(WithRef(heap, slot[y], 1), slot[x])
    /\ slot' = [slot EXCEPT ![x] = slot[y]]
    /\ LET group == want[y].with \cup {x}
       IN want' = [z \in Slots |-> CASE z \in group -> [items |-> want[y].items, with |-> group]
                                     [] OTHER -> [want[z] EXCEPT !.with = @ \ {x}]]
    /\ UNCHANGED <<dead, job, lost>>

\* x[i] = t;
SetItem(x, i, t) ==
    /\ Statement
    /\ i \in DOMAIN Items(heap, slot[x]) /\ t \notin dead
    /\ heap' = Counted(Counted([heap EXCEPT !.arr[slot[x]].items[i] = t], <<t>>, 1),
                       <<Items(heap, slot[x])[i]>>, -1)
    /\ want' = [z \in Slots |-> IF z \in want[x].with THEN [want[z] EXCEPT !.items[i] = t] ELSE want[z]]
    /\ UNCHANGED <<slot, dead, job, lost>>

Living(s) == [i \in DOMAIN s |-> IF s[i] \in dead THEN 0 ELSE s[i]]
Without(a, b) == SelectSeq(a, LAMBDA e : e \notin ToSet(b))
SortedNumbers(s) == SortSeq(s, LAMBDA a, b : a < b)

Operated(op, h, p, r) ==
    CASE op = "+" -> add_array(h, p, r) [] op = "-" -> subtract_array(h, p, r)
      [] op = "&" -> intersect_array(h, p, r)

\* What the operators mean.
Meant(op, a, b) ==
    CASE op = "+" -> a \o b
      [] op = "-" -> Without(a, b)
      [] op = "&" -> SortedNumbers(SelectSeq(b, LAMBDA e : e \in ToSet(a)))

\* Subtraction and intersection bury the dead in their operands, if both have
\* elements, where every holder sees it.
Burying(op, x, y) ==
    IF op = "+" \/ want[x].items = <<>> \/ want[y].items = <<>> THEN {}
    ELSE want[x].with \cup want[y].with

\* x = y OP z;
Operate(op, x, y, z, takes) ==
    /\ Statement
    /\ Room /\ (op = "+" => ~TooLarge(heap, slot[y], slot[z]))
    /\ takes => y # z
    /\ LET a == Pushed(heap, slot, y, FALSE)
           b == Pushed(a.h, a.s, z, takes)
           bury == Burying(op, y, z)
           w == Wants(x, IF bury = {} THEN Meant(op, want[y].items, want[z].items)
                         ELSE Meant(op, Living(want[y].items), Living(want[z].items)),
                      IF takes THEN {z} ELSE {})
       IN /\ Stored(Operated(op, b.h, a.p, b.p), b.s, x)
          /\ want' = [s \in Slots |-> IF s \in bury THEN [w[s] EXCEPT !.items = Living(@)] ELSE w[s]]
    /\ UNCHANGED <<dead, job, lost>>

\* x OP= z: the operator gets the variable's own reference.
OperateAndAssign(op, x, z, takes) ==
    /\ Statement
    /\ op \in {"+", "-"}
    /\ Room /\ (op = "+" => ~TooLarge(heap, slot[x], slot[z]))
    /\ takes => x # z
    /\ LET b == Pushed(heap, slot, z, takes)
           r == Operated(op, b.h, slot[x], b.p)
           bury == Burying(op, x, z)
           w == Wants(x, IF bury = {} THEN Meant(op, want[x].items, want[z].items)
                         ELSE Meant(op, Living(want[x].items), Living(want[z].items)),
                      IF takes THEN {z} ELSE {})
       IN /\ heap' = r.h
          /\ slot' = [b.s EXCEPT ![x] = r.p]
          /\ want' = [s \in Slots |-> IF s \in bury THEN [w[s] EXCEPT !.items = Living(@)] ELSE w[s]]
    /\ UNCHANGED <<dead, job, lost>>

\* x = y[from..to];
Slice(x, y, from, to, takes) ==
    /\ Statement
    /\ Room
    /\ LET a == Pushed(heap, slot, y, takes)
       IN /\ Stored(slice_array(a.h, a.p, from, to), a.s, x)
          /\ want' = Wants(x, SubSeq(want[y].items, (IF from < 0 THEN 0 ELSE from) + 1,
                                     (IF to >= Len(want[y].items) THEN Len(want[y].items) - 1 ELSE to) + 1),
                           IF takes THEN {y} ELSE {})
    /\ UNCHANGED <<dead, job, lost>>

\* destruct(t): the arrays keep it until somebody looks.
Destruct(t) ==
    /\ Statement
    /\ t \notin dead
    /\ dead' = dead \cup {t}
    /\ UNCHANGED <<heap, slot, want, job, lost>>

-----------------------------------------------------------------------------
(* filter(), map(), unique_array() and sort_array(): the argument is on    *)
(* the stack, the program runs between two elements.                       *)
Begin(op, y, takes) ==
    /\ Statement
    /\ job = NoJob /\ Room
    /\ Items(heap, slot[y]) # <<>>
    /\ LET a == Pushed(heap, slot, y, takes)
           g == IF op = "sort" THEN WithoutDead(a.h, a.p) ELSE a.h
           r == CASE op = "map"  -> Moved(g, [i \in DOMAIN Items(g, a.p) |-> 0])
                  [] op = "sort" -> copy_array(g, a.p)
                  [] OTHER -> At(g, Null)
           w == [z \in Slots |->
                    CASE z \in (want[y].with \ (IF takes THEN {y} ELSE {})) \cup {"arg"} ->
                            [items |-> want[y].items, with |-> (want[y].with \ (IF takes THEN {y} ELSE {})) \cup {"arg"}]
                      [] takes /\ z = y -> [items |-> <<>>, with |-> {y}]
                      [] OTHER -> want[z]]
           v == IF op = "sort" THEN [z \in Slots |-> IF z \in w["arg"].with THEN [w[z] EXCEPT !.items = Living(@)] ELSE w[z]]
                ELSE w
       IN /\ heap' = r.h
          /\ slot' = [a.s EXCEPT !["arg"] = a.p, !["result"] = r.p]
          /\ want' = [v EXCEPT !["result"] = [items |-> Items(r.h, r.p), with |-> {"result"}]]
          /\ job' = CASE op = "sort" -> [op |-> op, todo |-> <<<<1, Len(Items(r.h, r.p))>>>>, i |-> 0, last |-> 0]
                      [] op = "unique" -> [op |-> op, i |-> 1, marks |-> <<>>]
                      [] OTHER -> [op |-> op, i |-> 1, flags |-> {}]
    /\ UNCHANGED <<dead, lost>>

Size == Len(Items(heap, slot["arg"]))

\* filter_array(): the callback is true of element i.
FilterStep(b) ==
    /\ job.op = "filter" /\ job.i <= Size
    /\ job' = [job EXCEPT !.i = @ + 1, !.flags = IF b THEN @ \cup {job.i} ELSE @]
    /\ UNCHANGED <<heap, slot, want, dead, lost, left>>

\* map_array(): the callback gives v.
MapStep(v) ==
    /\ job.op = "map" /\ job.i <= Size /\ v \notin dead
    /\ heap' = Counted([heap EXCEPT !.arr[slot["result"]].items[job.i] = v], <<v>>, 1)
    /\ want' = [want EXCEPT !["result"].items[job.i] = v]
    /\ job' = [job EXCEPT !.i = @ + 1]
    /\ UNCHANGED <<slot, dead, lost, left>>

\* f_unique_array(): element i goes to the group of the value v; 0 skips it.
UniqueStep(v) ==
    /\ job.op = "unique" /\ job.i <= Size /\ v \notin dead
    /\ LET in == {k \in DOMAIN job.marks : job.marks[k].mark = v}
           marks == CASE v = 0 -> job.marks
                      [] v # 0 /\ in # {} -> [k \in DOMAIN job.marks |->
                             IF k \in in THEN [job.marks[k] EXCEPT !.indices = Append(@, job.i)] ELSE job.marks[k]]
                      [] OTHER -> <<[mark |-> v, indices |-> <<job.i>>]>> \o job.marks
       IN /\ job' = [job EXCEPT !.i = @ + 1, !.marks = marks]
          /\ heap' = IF Len(marks) > Len(job.marks) THEN Counted(heap, <<v>>, 1) ELSE heap
    /\ UNCHANGED <<slot, want, dead, lost, left>>

Swap(s, a, b) == [s EXCEPT ![a] = s[b], ![b] = s[a]]

\* qSort(): the next range; the middle becomes the first.
SortRange ==
    /\ job.op = "sort" /\ job.i = 0 /\ job.todo # <<>>
    /\ LET l == job.todo[1][1]
           r == job.todo[1][2]
       IN IF l >= r THEN job' = [job EXCEPT !.todo = Tail(@)] /\ UNCHANGED <<heap, want>>
          ELSE /\ heap' = [heap EXCEPT !.arr[slot["result"]].items = Swap(@, l, l + (r - l) \div 2)]
               /\ want' = [want EXCEPT !["result"].items = Swap(@, l, l + (r - l) \div 2)]
               /\ job' = [job EXCEPT !.i = l + 1, !.last = l]
    /\ UNCHANGED <<slot, dead, lost, left>>

\* sort_array_cmp(): the callback says that element i belongs below the first.
SortStep(below) ==
    /\ job.op = "sort" /\ job.i # 0
    /\ LET l == job.todo[1][1]
           r == job.todo[1][2]
           last == IF below THEN job.last + 1 ELSE job.last
           s == Items(heap, slot["result"])
           t == IF below THEN Swap(s, last, job.i) ELSE s
           u == IF job.i = r THEN Swap(t, l, last) ELSE t
       IN /\ heap' = [heap EXCEPT !.arr[slot["result"]].items = u]
          /\ want' = [want EXCEPT !["result"].items = u]
          /\ job' = IF job.i = r
                    THEN [job EXCEPT !.i = 0, !.last = 0, !.todo = <<<<l, last - 1>>, <<last + 1, r>>>> \o Tail(@)]
                    ELSE [job EXCEPT !.i = @ + 1, !.last = last]
    /\ UNCHANGED <<slot, dead, lost, left>>

Marks == [k \in DOMAIN job.marks |-> job.marks[k].mark]

Kept(s, flags) == [k \in 1 .. Cardinality(flags) |-> s[SetToSortSeq(flags, <)[k]]]

\* The efun returns and x gets what it gives: of the groups unique_array()
\* finds, the one the program indexes.
Return(x) ==
    /\ job # NoJob /\ Room
    /\ IF job.op = "sort" THEN job.todo = <<>> ELSE job.i > Size
    /\ \E k \in IF job.op = "unique" /\ job.marks # <<>> THEN DOMAIN job.marks ELSE {1} :
        LET vec == Items(heap, slot["arg"])
            out == CASE job.op = "filter" -> allocate_array(heap, Kept(vec, job.flags))
                     [] job.op = "unique" -> allocate_array(Counted(heap, Marks, -1),
                            IF job.marks = <<>> THEN <<>>
                            ELSE [j \in DOMAIN job.marks[k].indices |-> vec[job.marks[k].indices[j]]])
                     [] OTHER -> At(heap, slot["result"])
            w == Wants(x, Items(out.h, out.p), {"arg", "result"})
        IN /\ heap' = free_array(free_array(out.h, slot["arg"]), slot[x])
           /\ slot' = [slot EXCEPT ![x] = out.p, !["arg"] = Null, !["result"] = Null]
           /\ want' = w
    /\ job' = NoJob
    /\ UNCHANGED <<dead, lost, left>>

\* An error in the callback: the stack is popped, unique_array_error_handler()
\* frees the marks; the copy that is sorted is not on the stack.
Fail ==
    /\ job # NoJob
    /\ LET g == IF job.op = "unique" THEN Counted(heap, Marks, -1) ELSE heap
           f == free_array(g, slot["arg"])
       IN heap' = IF job.op = "sort" THEN f ELSE free_array(f, slot["result"])
    /\ lost' = IF job.op = "sort" /\ slot["result"] # Null THEN lost \cup {slot["result"]} ELSE lost
    /\ slot' = [slot EXCEPT !["arg"] = Null, !["result"] = Null]
    /\ want' = [z \in Slots |-> IF z \in {"arg", "result"} THEN [items |-> <<>>, with |-> {z}]
                                ELSE [want[z] EXCEPT !.with = @ \ {"arg", "result"}]]
    /\ job' = NoJob
    /\ UNCHANGED <<dead, left>>

Elements == Things \cup {0}

\* The variables hold aggregates ({ ... }), or all of them the same one.
ArraysInit ==
    \E s \in [Vars -> BoundedSeq(Elements, 2)], at \in [Vars -> Blocks], own \in BOOLEAN :
        /\ at = IF own THEN CHOOSE f \in Injection(Vars, Blocks) : TRUE
                ELSE CHOOSE f \in [Vars -> Blocks] : \A x, y \in Vars : f[x] = f[y]
        /\ own \/ \A x, y \in Vars : s[x] = s[y]
        /\ heap = [arr |-> [b \in Blocks |->
                               IF \E x \in Vars : at[x] = b /\ s[x] # <<>>
                               THEN [ref |-> Cardinality({x \in Vars : at[x] = b}),
                                     items |-> s[CHOOSE x \in Vars : at[x] = b]]
                               ELSE Free],
                   cnt |-> [t \in Things |->
                               MapThenSumSet(LAMBDA x : Occurs(t, s[x]), IF own THEN Vars ELSE {CHOOSE x \in Vars : TRUE})]]
        /\ slot = [z \in Slots |-> IF z \in Vars /\ s[z] # <<>> THEN at[z] ELSE Null]
        /\ want = [z \in Slots |-> [items |-> IF z \in Vars THEN s[z] ELSE <<>>,
                                    with |-> IF own \/ z \notin Vars THEN {z} ELSE Vars]]
        /\ dead = {} /\ job = NoJob /\ lost = {} /\ left = MaxStatements

ArraysNext ==
    \/ \E x, y \in Vars : Share(x, y)
    \/ \E x \in Vars, i \in 1 .. MAX_ARRAY_SIZE, t \in Elements : SetItem(x, i, t)
    \/ \E op \in {"+", "-", "&"}, x, y, z \in Vars, takes \in BOOLEAN : Operate(op, x, y, z, takes)
    \/ \E op \in {"+", "-"}, x, z \in Vars, takes \in BOOLEAN : OperateAndAssign(op, x, z, takes)
    \/ \E x, y \in Vars, from \in {0, 1}, to \in {0, 1}, takes \in BOOLEAN : Slice(x, y, from, to, takes)
    \/ \E t \in Things : Destruct(t)
    \/ \E op \in {"filter", "map", "unique", "sort"}, y \in Vars, takes \in BOOLEAN : Begin(op, y, takes)
    \/ \E b \in BOOLEAN : FilterStep(b) \/ SortStep(b)
    \/ \E v \in Elements : MapStep(v) \/ UniqueStep(v)
    \/ SortRange
    \/ \E x \in Vars : Return(x)
    \/ Fail

ArraysSpec == ArraysInit /\ [][ArraysNext]_avars

-----------------------------------------------------------------------------
\* Every block is counted by the slots that hold it, and every object by the
\* arrays (and marks) it is in: nothing is freed early or left behind, whichever
\* path of add_array(), slice_array(), alist_sort() and the others moved it.
ArraysCounted ==
    /\ \A b \in Blocks \ lost : heap.arr[b].ref = Cardinality({s \in Slots : slot[s] = b})
    /\ \A t \in Things :
          heap.cnt[t] = MapThenSumSet(LAMBDA b : Occurs(t, heap.arr[b].items), Blocks)
                        + (IF job.op = "unique" THEN Occurs(t, Marks) ELSE 0)

\* Every variable, and the argument of an efun with callbacks, holds what LPC says
\* and shares it with whom LPC says: reusing a block is never seen by another
\* holder.
ArraysAsMeant ==
    \A s \in Slots :
        /\ Items(heap, slot[s]) = want[s].items
        /\ want[s].items # <<>> => {z \in Slots : slot[z] = slot[s]} = want[s].with
=============================================================================
