----------------------------- MODULE Allocator ------------------------------
(***************************************************************************)
(* Satoria's malloc (smalloc.c, the SMALLOC option): large blocks with     *)
(* boundary tags and a balanced tree of the free ones, small blocks cut    *)
(* from chunks and kept in lists by size, and the reserve that is given up *)
(* when sbrk() fails.                                                      *)
(*                                                                         *)
(* Addresses and sizes are in words.  A word holds a size and the two tags *)
(* THIS_BLOCK and PREV_BLOCK; what a caller writes into its block is Junk. *)
(* The nodes of the tree are in the free blocks themselves; they are kept  *)
(* apart here, so that blocks smaller than a node can be free.             *)
(***************************************************************************)
EXTENDS Integers, Sequences, FiniteSets, SequencesExt, FiniteSetsExt

CONSTANTS
    SMALL_BLOCK_MAX, SMALL_CHUNK_SIZE, CHUNK_SIZE,
    Memory,          \* where sbrk() fails
    Requests,        \* sizes that are asked for
    Reserve,         \* size of reserved_area, 0 for none
    MaxLive

VARIABLES
    mem, brk,        \* the words; one beyond the last
    free_tree,
    sfltable,        \* block size -> addresses of small free blocks
    unused,          \* [at, size]: the rest of the current chunk
    reserved_area,
    live,            \* ghost: address -> size asked for
    exited           \* the driver ran out of memory

avars == <<mem, brk, free_tree, sfltable, unused, reserved_area, live, exited>>

W(n, this, prev) == [n |-> n, this |-> this, prev |-> prev]
Junk == W(99, TRUE, TRUE)

-----------------------------------------------------------------------------
(* The tree.  A node is <<size, address>> with branches and a balance; two *)
(* nodes of size 0 are always there.                                       *)
Nil == <<>>
Node(l, p, r, b) == [l |-> l, p |-> p, r |-> r, b |-> b]
DummyTree == Node(Node(Nil, <<0, -2>>, Nil, 0), <<0, -1>>, Nil, -1)

\* R-, L-, LR- and RL-Rotation about p.  Below 0, (unsigned char) b >> 7 is 1.
Sign(b) == IF b < 0 THEN 1 ELSE 0
RRotation(p, pb, rb) == [p.l EXCEPT !.r = [p EXCEPT !.l = p.l.r, !.b = pb], !.b = rb]
LRotation(p, pb, rb) == [p.r EXCEPT !.l = [p EXCEPT !.r = p.r.l, !.b = pb], !.b = rb]
LRRotation(p) ==
    LET r == p.l  t == r.r
    IN Node([r EXCEPT !.r = t.l, !.b = -Sign(t.b) - t.b], t.p, [p EXCEPT !.l = t.r, !.b = Sign(t.b)], 0)
RLRotation(p) ==
    LET r == p.r  t == r.l
    IN Node([p EXCEPT !.r = t.l, !.b = -Sign(t.b) - t.b], t.p, [r EXCEPT !.l = t.r, !.b = Sign(t.b)], 0)

\* A branch of p has grown; the result says whether p has.
GrowLeft(p) ==
    CASE p.b = 0 -> <<[p EXCEPT !.b = -1], TRUE>>
      [] p.b > 0 -> <<[p EXCEPT !.b = 0], FALSE>>
      [] OTHER -> <<IF p.l.b < 0 THEN RRotation(p, 0, 0) ELSE LRRotation(p), FALSE>>
GrowRight(p) ==
    CASE p.b = 0 -> <<[p EXCEPT !.b = 1], TRUE>>
      [] p.b < 0 -> <<[p EXCEPT !.b = 0], FALSE>>
      [] OTHER -> <<IF p.r.b > 0 THEN LRotation(p, 0, 0) ELSE RLRotation(p), FALSE>>

LeftGrown(t, s) == IF s[2] THEN GrowLeft([t EXCEPT !.l = s[1]]) ELSE <<[t EXCEPT !.l = s[1]], FALSE>>
RightGrown(t, s) == IF s[2] THEN GrowRight([t EXCEPT !.r = s[1]]) ELSE <<[t EXCEPT !.r = s[1]], FALSE>>

RECURSIVE Insert(_, _)
Insert(t, node) ==
    IF t = Nil THEN <<Node(Nil, node, Nil, 0), TRUE>>
    ELSE IF node[1] < t.p[1] THEN LeftGrown(t, Insert(t.l, node)) ELSE RightGrown(t, Insert(t.r, node))

\* A branch of p has become shorter; the result says whether p has.
balance_right(p) ==
    CASE p.b > 0 -> <<[p EXCEPT !.b = 0], TRUE>>
      [] p.b = 0 -> <<[p EXCEPT !.b = -1], FALSE>>
      [] p.b < 0 /\ p.l.b <= 0 -> <<RRotation(p, -(p.l.b + 1), p.l.b + 1), p.l.b + 1 = 0>>
      [] OTHER -> <<LRRotation(p), TRUE>>
balance_left(p) ==
    CASE p.b < 0 -> <<[p EXCEPT !.b = 0], TRUE>>
      [] p.b = 0 -> <<[p EXCEPT !.b = 1], FALSE>>
      [] p.b > 0 /\ p.r.b >= 0 -> <<LRotation(p, -(p.r.b - 1), p.r.b - 1), p.r.b - 1 = 0>>
      [] OTHER -> <<RLRotation(p), TRUE>>

WithLeft(t, s) == IF s[2] THEN balance_left([t EXCEPT !.l = s[1]]) ELSE <<[t EXCEPT !.l = s[1]], FALSE>>
WithRight(t, s) == IF s[2] THEN balance_right([t EXCEPT !.r = s[1]]) ELSE <<[t EXCEPT !.r = s[1]], FALSE>>

\* Takes the leftmost node out; its data is the third part.
FirstGone(t, s) == Append(WithLeft(t, s), s[3])
RECURSIVE TakeFirst(_)
TakeFirst(t) == IF t.l = Nil THEN <<t.r, TRUE, t.p>> ELSE FirstGone(t, TakeFirst(t.l))

Replaced(t, s) == WithRight([t EXCEPT !.p = s[3]], s)

RECURSIVE Nodes(_)
Nodes(t) == IF t = Nil THEN {} ELSE Nodes(t.l) \cup {t.p} \cup Nodes(t.r)

RECURSIVE TakeOut(_, _)
TakeOut(t, node) ==
    CASE t.p # node -> IF node \in Nodes(t.l) THEN WithLeft(t, TakeOut(t.l, node)) ELSE WithRight(t, TakeOut(t.r, node))
      [] t.p = node /\ t.l # Nil /\ t.r # Nil -> Replaced(t, TakeFirst(t.r))
      [] t.p = node /\ t.l # Nil /\ t.r = Nil -> <<t.l, TRUE>>
      [] OTHER -> <<t.r, TRUE>>

add_to_free_list(h, p) == [h EXCEPT !.tree = Insert(@, <<h.mem[p].n, p>>)[1]]
remove_from_free_list(h, p) == [h EXCEPT !.tree = TakeOut(@, <<h.mem[p].n, p>>)[1]]

\* large_malloc()'s search: a block of the size, or else the smallest that leaves
\* a rest that can be a block of its own.
First(a, b) == IF a # Nil THEN a ELSE b

RECURSIVE Exact(_, _), Splits(_, _, _), Fit(_, _, _)
Exact(q, size) == IF q = Nil THEN Nil
                  ELSE IF size < q.p[1] THEN Exact(q.l, size) ELSE IF size > q.p[1] THEN Exact(q.r, size) ELSE q.p
Splits(q, minsplit, best) ==
    IF q = Nil THEN best ELSE IF minsplit <= q.p[1] THEN Splits(q.l, minsplit, q.p) ELSE Splits(q.r, minsplit, best)
Fit(p, size, best) ==
    LET minsplit == size + SMALL_BLOCK_MAX + 1
    IN CASE p = Nil -> best
         [] p # Nil /\ minsplit < p.p[1] -> Fit(p.l, size, p.p)
         [] p # Nil /\ size > p.p[1] -> Fit(p.r, size, best)
         [] p # Nil /\ size = p.p[1] -> p.p
         [] OTHER -> First(Exact(p.l, size), IF minsplit > p.p[1] THEN Splits(p.r, minsplit, best) ELSE p.p)

-----------------------------------------------------------------------------
(* Boundary tags.  A heap is [mem, tree, brk]. *)
\* What is inside of a free block is not looked at.
Tagged(m, p, size) ==
    [a \in DOMAIN m |-> IF a = p THEN W(size, FALSE, m[p].prev)
                        ELSE IF a = p + size - 1 THEN W(size, FALSE, FALSE)
                        ELSE IF a \in p + 1 .. p + size - 2 THEN Junk ELSE m[a]]
\* Wrong on purpose: the block behind still says that this one is in use.
BuildKeepsTag(m, p, size) == Tagged(m, p, size)

build_block(m, p, size) == [Tagged(m, p, size) EXCEPT ![p + size].prev = FALSE]
mark_block(m, p) == [m EXCEPT ![p + m[p].n].prev = TRUE, ![p].this = TRUE]

\* Memory from sbrk() overlaps the word that ended the heap.
NewChunk(h, words) ==
    LET p == h.brk - 1
        m == [build_block(h.mem, p, words) EXCEPT ![p + words] = W(0, TRUE, FALSE)]
    IN add_to_free_list([h EXCEPT !.mem = m, !.brk = @ + words], p)

\* The free block at p is taken and what is too much is split off.
Rest(h, p, size) == IF size >= SMALL_BLOCK_MAX + 1 THEN add_to_free_list(h, p)
                    ELSE [h EXCEPT !.mem = mark_block(@, p)]
Cut(h, p, size, rest) ==
    IF rest = 0 THEN h
    ELSE [Rest([h EXCEPT !.mem = build_block(@, p + size, rest)], p + size, rest) EXCEPT !.mem = build_block(@, p, size)]
Split(h, p, size) == [Cut(h, p, size, h.mem[p].n - size) EXCEPT !.mem = mark_block(@, p)]
Take(h, p, size) == Split(remove_from_free_list(h, p), p, size)

Filled(h, p, n) == [h EXCEPT !.mem = [a \in DOMAIN @ |-> IF a \in p .. p + n - 1 THEN Junk ELSE @[a]]]

\* A block that is freed takes in free neighbours; the one before is found by the
\* size at its end.
WithNext(h, p, next) ==
    IF h.mem[next].this THEN h
    ELSE [remove_from_free_list(h, next) EXCEPT !.mem[p] = W(h.mem[p].n + h.mem[next].n, FALSE, h.mem[p].prev)]
Freed(h, p, size) == add_to_free_list([h EXCEPT !.mem = build_block(@, p, size)], p)
WithPrev(h, p, prev) ==
    IF h.mem[p].prev THEN Freed(h, p, h.mem[p].n)
    ELSE Freed(remove_from_free_list(h, prev), prev, h.mem[p].n + h.mem[prev].n)
large_free(h, ptr) ==
    WithPrev(WithNext(h, ptr - 1, ptr - 1 + h.mem[ptr - 1].n), ptr - 1, ptr - 1 - h.mem[ptr - 2].n)

\* When sbrk() fails the reserve is freed and the tree searched again; then a
\* forced request is searched for; then the driver exits.
Got(h, p, n, reserve) == [h |-> Filled(h, p + 1, n), ptr |-> p + 1, reserve |-> reserve]

RECURSIVE large_malloc(_, _, _, _, _), Retry(_, _)
Retry(h, n) == large_malloc(h, n, FALSE, 0, Fit(h.tree, n + 1, Nil))
large_malloc(h, n, force_more, reserve, fit) ==
    LET chunk == IF force_more \/ n + 1 > CHUNK_SIZE THEN n + 1 ELSE CHUNK_SIZE
    IN IF fit # Nil THEN Got(Take(h, fit[2], n + 1), fit[2], n, reserve)
       ELSE IF h.brk + chunk <= Memory THEN Got(Take(NewChunk(h, chunk), h.brk - 1, n + 1), h.brk - 1, n, reserve)
       ELSE IF reserve # 0 THEN Retry(large_free(h, reserve), n)
       ELSE IF force_more THEN Retry(h, n)
       ELSE [h |-> h, ptr |-> 0, reserve |-> 0]

-----------------------------------------------------------------------------
(* Small blocks.  The state of a call is [h, ptr, reserve, sfl, un]. *)
Heap == [mem |-> mem, tree |-> free_tree, brk |-> brk]

\* A new chunk; the rest of the old one becomes a free block.
OfChunk(r, sfl) == [h |-> r.h, reserve |-> r.reserve, sfl |-> sfl,
                    un |-> [at |-> r.ptr + 1, size |-> SMALL_CHUNK_SIZE], ok |-> r.ptr # 0]

MoreUnused(size) ==
    IF unused.size >= size THEN [h |-> Heap, reserve |-> reserved_area, sfl |-> sfltable, un |-> unused, ok |-> TRUE]
    ELSE IF unused.size = 0
    THEN OfChunk(large_malloc(Heap, SMALL_CHUNK_SIZE + 1, TRUE, reserved_area, Nil), sfltable)
    ELSE OfChunk(large_malloc([Heap EXCEPT !.mem[unused.at] = W(unused.size, FALSE, FALSE)],
                              SMALL_CHUNK_SIZE + 1, TRUE, reserved_area, Nil),
                 [sfltable EXCEPT ![unused.size] = <<unused.at>> \o @])

\* A rest too small for a block is added to this one, if it is still small then.
FromChunk(c, n) ==
    LET size == n + 1
        left == c.un.size - size
        last == left < 2
        real == IF last /\ size + left < SMALL_BLOCK_MAX + 1 THEN size + left ELSE size
        h    == Filled([c.h EXCEPT !.mem[c.un.at] = W(real, FALSE, FALSE)], c.un.at + 1, n)
    IN [h |-> h, ptr |-> IF c.ok THEN c.un.at + 1 ELSE 0, reserve |-> c.reserve, sfl |-> c.sfl,
        un |-> [at |-> c.un.at + real, size |-> IF last THEN 0 ELSE left]]

Large(r) == [h |-> r.h, ptr |-> r.ptr, reserve |-> r.reserve, sfl |-> sfltable, un |-> unused]
Listed(b, n) == [h |-> Filled(Heap, b + 1, n), ptr |-> b + 1, reserve |-> reserved_area,
                 sfl |-> [sfltable EXCEPT ![n + 1] = Tail(@)], un |-> unused]

smalloc_malloc(n) ==
    IF n > SMALL_BLOCK_MAX THEN Large(large_malloc(Heap, n, FALSE, reserved_area, Fit(free_tree, n + 1, Nil)))
    ELSE IF sfltable[n + 1] # <<>> THEN Listed(sfltable[n + 1][1], n)
    ELSE FromChunk(MoreUnused(n + 1), n)

\* smalloc_free() of a block in a state c.
smalloc_free(c, ptr) ==
    LET size == c.h.mem[ptr - 1].n
    IN IF size > SMALL_BLOCK_MAX + 1 THEN [c EXCEPT !.h = large_free(@, ptr)]
       ELSE [c EXCEPT !.sfl[size] = <<ptr - 1>> \o @]

Set(c, l) ==
    /\ mem' = c.h.mem /\ free_tree' = c.h.tree /\ brk' = c.h.brk
    /\ sfltable' = c.sfl /\ unused' = c.un /\ reserved_area' = c.reserve /\ live' = l
    /\ UNCHANGED exited

Exit == exited' = TRUE /\ UNCHANGED <<mem, brk, free_tree, sfltable, unused, reserved_area, live>>

Gave(c, n) ==
    IF c.ptr = 0 THEN Exit
    ELSE Set(c, [p \in DOMAIN live \cup {c.ptr} |-> IF p = c.ptr THEN n ELSE live[p]])

Malloc(n) == ~exited /\ Cardinality(DOMAIN live) < MaxLive /\ Gave(smalloc_malloc(n), n)

Now == [h |-> Heap, ptr |-> 0, reserve |-> reserved_area, sfl |-> sfltable, un |-> unused]
Without(p) == [q \in DOMAIN live \ {p} |-> live[q]]

Free(p) == ~exited /\ Set(smalloc_free(Now, p), Without(p))

Moved(c, p, n) ==
    IF c.ptr = 0 THEN Exit
    ELSE Set(smalloc_free(c, p), [q \in (DOMAIN live \ {p}) \cup {c.ptr} |-> IF q = c.ptr THEN n ELSE live[q]])

smalloc_realloc(p, n) ==
    /\ ~exited /\ live[p] # n
    /\ IF mem[p - 1].n - 1 >= n THEN Set(Now, [live EXCEPT ![p] = n]) ELSE Moved(smalloc_malloc(n), p, n)

\* The heap starts as one word; then the reserve is allocated.
Blank == [mem |-> [a \in 0 .. Memory |-> IF a = 0 THEN W(0, FALSE, TRUE) ELSE Junk], tree |-> DummyTree, brk |-> 1]

Start(r) ==
    /\ mem = r.h.mem /\ free_tree = r.h.tree /\ brk = r.h.brk /\ reserved_area = r.ptr
    /\ sfltable = [s \in 2 .. SMALL_BLOCK_MAX + 1 |-> <<>>]
    /\ unused = [at |-> 0, size |-> 0]
    /\ live = <<>> /\ exited = FALSE

AllocInit == Start(IF Reserve = 0 THEN [h |-> Blank, ptr |-> 0] ELSE large_malloc(Blank, Reserve, FALSE, 0, Nil))

AllocNext ==
    \/ \E n \in Requests : Malloc(n)
    \/ \E p \in DOMAIN live : Free(p)
    \/ \E p \in DOMAIN live, n \in Requests : smalloc_realloc(p, n)

AllocSpec == AllocInit /\ [][AllocNext]_avars

-----------------------------------------------------------------------------
RECURSIVE Height(_)
Height(t) == IF t = Nil THEN 0 ELSE 1 + Max({Height(t.l), Height(t.r)})

RECURSIVE InOrder(_)
InOrder(t) == IF t = Nil THEN <<>> ELSE InOrder(t.l) \o <<t.p[1]>> \o InOrder(t.r)

RECURSIVE check_avl(_)
check_avl(t) == t = Nil \/ (/\ t.b = Height(t.r) - Height(t.l) /\ t.b \in -1 .. 1
                            /\ check_avl(t.l) /\ check_avl(t.r))

TreeFine == /\ check_avl(free_tree)
            /\ \A i \in 2 .. Len(InOrder(free_tree)) : InOrder(free_tree)[i - 1] <= InOrder(free_tree)[i]

\* The blocks one meets walking through the heap.
RECURSIVE Walk(_)
Walk(p) == IF p >= brk - 1 \/ mem[p].n = 0 THEN {p} ELSE {p} \cup Walk(p + mem[p].n)
Blocks == Walk(0) \ {brk - 1}

Area(p) == p .. p + mem[p].n - 1
Payload(p) == p .. p + live[p] - 1

TagsFine ==
    /\ brk > 1 => brk - 1 \in Walk(0)
    /\ \A p \in Blocks :
          /\ ~mem[p].this <=> <<mem[p].n, p>> \in Nodes(free_tree)
          /\ mem[p + mem[p].n].prev = mem[p].this
          /\ ~mem[p].this => mem[p + mem[p].n - 1].n = mem[p].n
    /\ Cardinality(Nodes(free_tree)) = 2 + Cardinality({p \in Blocks : ~mem[p].this})

\* Everything small: what is handed out, what is in the lists and what is unused.
SmallAreas ==
    {Area(p - 1) : p \in {q \in DOMAIN live : mem[q - 1].n <= SMALL_BLOCK_MAX + 1}}
    \cup {Area(b) : b \in UNION {ToSet(sfltable[s]) : s \in DOMAIN sfltable}}
    \cup {unused.at .. unused.at + unused.size - 1}

\* The heap is sound whatever is allocated and freed, and whenever memory ran
\* out: its tags describe a row of blocks, the tree holds the free ones in order
\* and in balance, nobody's block reaches into another or into what is free, and
\* every block is as large as was asked for.
HeapSound ==
    /\ TreeFine /\ TagsFine
    /\ \A p, q \in DOMAIN live : p # q => Payload(p) \cap Payload(q) = {}
    /\ \A p \in DOMAIN live : /\ live[p] < mem[p - 1].n
                              /\ \A b \in Blocks : ~mem[b].this => Payload(p) \cap Area(b) = {}
                              /\ mem[p - 1].n > SMALL_BLOCK_MAX + 1 => p - 1 \in Blocks /\ mem[p - 1].this
    /\ \A a, b \in SmallAreas : a # b => a \cap b = {}
    /\ \A a \in SmallAreas : \A p \in DOMAIN live :
          mem[p - 1].n > SMALL_BLOCK_MAX + 1 => a \cap Area(p - 1) = {}
    /\ reserved_area # 0 => reserved_area - 1 \in Blocks /\ mem[reserved_area - 1].this
=============================================================================
