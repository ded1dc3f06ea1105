---------------------------- MODULE LpcMappings -----------------------------
(***************************************************************************)
(* LPC mappings (mapping.c): hash tables of chained nodes that double when *)
(* FILL_PERCENT of their buckets are in use, and the operations that build *)
(* them.  "unfilled" counts the empty buckets that may still be filled     *)
(* before the table doubles; every operation keeps it, and the count of    *)
(* nodes, by hand.                                                         *)
(*                                                                         *)
(* "wanted" is what each mapping should hold: a function.  The operations  *)
(* work on it in one step, whatever the buckets do.  filter_mapping() runs *)
(* with its callbacks: between two of them the other mappings change, not  *)
(* the one that is filtered.                                               *)
(***************************************************************************)
EXTENDS Integers, Sequences, FiniteSets, SequencesExt

CONSTANTS
    Maps,               \* the mappings of the program
    Keys, Values,       \* numbers; a key is its own hash
    MAP_HASH_TABLE_SIZE,
    FILL_PERCENT,
    MAX_TABLE_SIZE,
    MAX_MAPPING_SIZE

ASSUME SizesAssumption ==
    /\ MAP_HASH_TABLE_SIZE \in Nat \ {0}
    /\ MAX_TABLE_SIZE \in Nat /\ MAX_MAPPING_SIZE \in Nat
    /\ Keys \subseteq Nat /\ Values \subseteq Nat

VARIABLES
    maps,      \* Maps -> [table, count, unfilled]
    wanted,    \* Maps -> what the mapping should hold
    drifted,   \* the mappings whose unfilled an error has left behind
    walk       \* the filter_mapping() under way, <<>> for none

mvars == <<maps, wanted, drifted, walk>>

-----------------------------------------------------------------------------
Size(m) == Cardinality(DOMAIN m.table)

Bucket(m, k) == k % Size(m)

Threshold(n) == (n * FILL_PERCENT) \div 100

\* allocate_mapping(): the size asked for is rounded up to a power of two.
allocate_mapping(n) ==
    LET size == CHOOSE s \in {2 ^ i : i \in 0 .. 8} :
                    /\ s >= MAP_HASH_TABLE_SIZE /\ (n > MAP_HASH_TABLE_SIZE => s > n)
                    /\ \A t \in {2 ^ i : i \in 0 .. 8} :
                          t >= MAP_HASH_TABLE_SIZE /\ (n > MAP_HASH_TABLE_SIZE => t > n) => s <= t
    IN [table |-> [i \in 0 .. size - 1 |-> <<>>], count |-> 0, unfilled |-> Threshold(size)]

Nodes(m) == UNION {ToSet(m.table[i]) : i \in DOMAIN m.table}

HasKey(m, k) == \E i \in DOMAIN m.table[Bucket(m, k)] : m.table[Bucket(m, k)][i].key = k

\* growMap(): the nodes whose hash has the new bit move to the second half, at
\* the head of their bucket one after the other.
growMap(m) ==
    LET old == Size(m)
        Up(n) == (n.key \div old) % 2 = 1
        table == [i \in 0 .. 2 * old - 1 |->
                     IF i < old THEN SelectSeq(m.table[i], LAMBDA n : ~Up(n))
                     ELSE Reverse(SelectSeq(m.table[i - old], Up))]
    IN [m EXCEPT !.table = table,
                 !.unfilled = Threshold(old)
                     - Cardinality({i \in old .. 2 * old - 1 : table[i] # <<>>})
                     + Cardinality({i \in 0 .. old - 1 : m.table[i] # <<>> /\ table[i] = <<>>})]

CanGrow(m) == 2 * Size(m) <= MAX_TABLE_SIZE

\* A new node at the head of its bucket; err is the error() on the way.
Result(m, err) == [m |-> m, err |-> err]

AddNode(m, k, v) ==
    LET empty == m.table[Bucket(m, k)] = <<>>
        low   == IF empty THEN [m EXCEPT !.unfilled = @ - 1] ELSE m
        full  == empty /\ low.unfilled = 0
        room  == IF full /\ CanGrow(m) THEN growMap(low) ELSE low
    IN CASE full /\ ~CanGrow(m) -> Result(low, "memory")
         [] m.count >= MAX_MAPPING_SIZE -> Result(room, "size")
         [] OTHER -> Result([room EXCEPT !.table[Bucket(room, k)] = <<[key |-> k, value |-> v]>> \o @,
                                         !.count = @ + 1], "")

SetNode(m, k, v) ==
    [m EXCEPT !.table[Bucket(m, k)] = [i \in DOMAIN @ |-> IF @[i].key = k THEN [@[i] EXCEPT !.value = v] ELSE @[i]]]

\* find_for_insert() and the assignment through what it returns.
find_for_insert(m, k, v) == IF HasKey(m, k) THEN Result(SetNode(m, k, v), "") ELSE AddNode(m, k, v)

\* Wrong on purpose: a bucket is taken to be filled as long as it is there.
DeleteLeavesUnfilled(m, k) ==
    IF ~HasKey(m, k) THEN m ELSE
    [m EXCEPT !.table[Bucket(m, k)] = SelectSeq(@, LAMBDA n : n.key # k), !.count = @ - 1]

\* mapping_delete().
mapping_delete(m, k) ==
    IF ~HasKey(m, k) THEN m ELSE
    LET rest == SelectSeq(m.table[Bucket(m, k)], LAMBDA n : n.key # k) IN
    [m EXCEPT !.table[Bucket(m, k)] = rest,
              !.count = @ - 1,
              !.unfilled = IF rest = <<>> THEN @ + 1 ELSE @]

\* copyMapping(): every chain the other way round.
copyMapping(m) == [m EXCEPT !.table = [i \in DOMAIN m.table |-> Reverse(m.table[i])]]

\* The nodes in the order every walk takes: the last bucket first.
Walked(m) == FlattenSeq([i \in 1 .. Size(m) |-> m.table[Size(m) - i]])

\* add_to_mapping(), which also replaces, and unique_add_to_mapping(), which
\* does not; they stop at the first error.  The second undoes its last step when
\* the table cannot grow.
AddAll(m1, m2, replace) ==
    FoldLeft(LAMBDA r, n :
                 IF r.err # "" THEN r
                 ELSE IF HasKey(r.m, n.key)
                   THEN IF replace THEN Result(SetNode(r.m, n.key, n.value), "") ELSE r
                   ELSE LET a == AddNode(r.m, n.key, n.value) IN
                        IF a.err = "memory" /\ ~replace THEN Result(r.m, "memory") ELSE a,
             Result(m1, ""), Walked(m2))

\* add_mapping(): the smaller one is added to a copy of the larger one.
add_mapping(m1, m2) ==
    IF m1.count >= m2.count THEN AddAll(copyMapping(m1), m2, TRUE)
    ELSE AddAll(copyMapping(m2), m1, FALSE)

Get(m, k) == (CHOOSE n \in Nodes(m) : n.key = k).value

\* compose_mapping(): a node whose value is no key of m2 is deleted.
compose_mapping(m1, m2) ==
    LET Stays(n) == HasKey(m2, n.value)
        Chain(i) == LET kept == SelectSeq(m1.table[i], Stays)
                    IN [j \in DOMAIN kept |-> [kept[j] EXCEPT !.value = Get(m2, kept[j].value)]]
    IN [table    |-> [i \in DOMAIN m1.table |-> Chain(i)],
        count    |-> m1.count - Cardinality({n \in Nodes(m1) : ~Stays(n)}),
        unfilled |-> m1.unfilled
                     + Cardinality({i \in DOMAIN m1.table : m1.table[i] # <<>> /\ Chain(i) = <<>>})]

\* load_mapping_from_aggregate(): ([ k1 : v1, k2 : v2 ... ]).
load_mapping_from_aggregate(pairs) ==
    FoldLeft(LAMBDA r, p : IF r.err # "" THEN r ELSE find_for_insert(r.m, p[1], p[2]),
             Result(allocate_mapping(Len(pairs)), ""), pairs)

\* mapping_indices() and mapping_values().
mapping_indices(m) == LET w == Walked(m) IN [i \in DOMAIN w |-> w[i].key]

mapping_values(m) == LET w == Walked(m) IN [i \in DOMAIN w |-> w[i].value]

-----------------------------------------------------------------------------
Function(m) == [k \in {n.key : n \in Nodes(m)} |-> Get(m, k)]

Over(f, g) == [k \in DOMAIN f \cup DOMAIN g |-> IF k \in DOMAIN g THEN g[k] ELSE f[k]]

Only(f, S) == [k \in DOMAIN f \cap S |-> f[k]]

NoPairs == [k \in {} |-> 0]

MapInit ==
    /\ maps = [x \in Maps |-> allocate_mapping(0)]
    /\ wanted = [x \in Maps |-> NoPairs]
    /\ drifted = {}
    /\ walk = <<>>

\* The mapping a filter_mapping() under way is reading is left alone.
Unread(x) == walk # <<>> => walk[1].of # x

\* What a mapping holds when an operation in place stopped after n of the nodes
\* it was to add.
Stopped(f, nodes, n) ==
    FoldLeft(LAMBDA g, node : Over(g, [k \in {node.key} |-> node.value]), f, SubSeq(nodes, 1, n))

\* An operation that adds nodes to x in place: all of them, or those before the
\* error.
Adds(x, r, nodes) ==
    /\ Unread(x) /\ (r.err # "" => x \notin drifted)   \* bound: an error a mapping
    /\ maps' = [maps EXCEPT ![x] = r.m]
    /\ wanted' = [wanted EXCEPT ![x] =
           IF r.err # "" /\ \E n \in 0 .. Len(nodes) - 1 : Stopped(@, nodes, n) = Function(r.m)
             THEN Function(r.m) ELSE Stopped(@, nodes, Len(nodes))]
    /\ drifted' = IF r.err = "" THEN drifted ELSE drifted \cup {x}
    /\ UNCHANGED walk

\* An operation that makes a new mapping for x, and frees it after an error.
Becomes(x, r, w) ==
    /\ Unread(x)
    /\ maps' = IF r.err = "" THEN [maps EXCEPT ![x] = r.m] ELSE maps
    /\ wanted' = IF r.err = "" THEN [wanted EXCEPT ![x] = w] ELSE wanted
    /\ drifted' = IF r.err = "" THEN drifted \ {x} ELSE drifted
    /\ UNCHANGED walk

\* m[k] = v
Insert(x, k, v) ==
    \E r \in {find_for_insert(maps[x], k, v)} : Adds(x, r, <<[key |-> k, value |-> v]>>)

\* map_delete(m, k)
Delete(x, k) ==
    /\ k \in DOMAIN wanted[x] /\ Unread(x)
    /\ maps' = [maps EXCEPT ![x] = mapping_delete(@, k)]
    /\ wanted' = [wanted EXCEPT ![x] = Only(@, Keys \ {k})]
    /\ UNCHANGED <<drifted, walk>>

\* x += y
Absorb(x, y) ==
    /\ maps[y].count > 0
    /\ \E r \in {AddAll(maps[x], maps[y], TRUE)} : Adds(x, r, Walked(maps[y]))

\* x = x + y
Plus(x, y) ==
    /\ drifted \cap {x, y} = {}
    /\ \E r \in {add_mapping(maps[x], maps[y])} : Becomes(x, r, Over(wanted[x], wanted[y]))

\* x = x * y, made on a copy.
Times(x, y) ==
    /\ x \notin drifted
    /\ \E r \in {Result(compose_mapping(copyMapping(maps[x]), maps[y]), "")} :
       Becomes(x, r,
               [k \in {j \in DOMAIN wanted[x] : wanted[x][j] \in DOMAIN wanted[y]} |-> wanted[y][wanted[x][k]]])

\* x = ([ k : v, j : w ]).  Bound: what x held before makes no difference, so
\* an x that held nothing is enough.
Aggregate(x, k, v, j, w) ==
    /\ maps[x].count = 0
    /\ \E r \in {load_mapping_from_aggregate(<<<<k, v>>, <<j, w>>>>)} :
       Becomes(x, r, Over([i \in {k} |-> v], [i \in {j} |-> w]))

\* filter_mapping(): the nodes still to be seen, the mapping that is built.
FilterBegin(x, y) ==
    /\ walk = <<>> /\ x # y
    /\ walk' = <<[of |-> x, to |-> y, left |-> Walked(maps[x]), new |-> Result(allocate_mapping(0), ""),
                  want |-> NoPairs]>>
    /\ UNCHANGED <<maps, wanted, drifted>>

\* One call of the filter, which says whether the node is kept.
FilterStep(keep) ==
    /\ walk # <<>> /\ walk[1].left # <<>> /\ walk[1].new.err = ""
    /\ LET n == Head(walk[1].left) IN
       walk' = <<[walk[1] EXCEPT !.left = Tail(@),
                                 !.new = IF keep THEN AddNode(@.m, n.key, n.value) ELSE @,
                                 !.want = IF keep THEN Over(@, [k \in {n.key} |-> wanted[walk[1].of][k]]) ELSE @]>>
    /\ UNCHANGED <<maps, wanted, drifted>>

\* The end, or the error: the new mapping goes with the stack.
FilterEnd ==
    /\ walk # <<>> /\ (walk[1].left = <<>> \/ walk[1].new.err # "")
    /\ walk' = <<>>
    /\ IF walk[1].new.err = ""
         THEN /\ maps' = [maps EXCEPT ![walk[1].to] = walk[1].new.m]
              /\ wanted' = [wanted EXCEPT ![walk[1].to] = walk[1].want]
              /\ drifted' = drifted \ {walk[1].to}
         ELSE UNCHANGED <<maps, wanted, drifted>>

MapNext ==
    \/ \E x \in Maps, k \in Keys, v \in Values : Insert(x, k, v)
    \/ \E x \in Maps, k \in Keys : Delete(x, k)
    \/ \E x, y \in Maps : Absorb(x, y) \/ Plus(x, y) \/ Times(x, y) \/ FilterBegin(x, y)
    \/ \E x \in Maps, k, j \in Keys, v, w \in Values : Aggregate(x, k, v, j, w)
    \/ \E keep \in BOOLEAN : FilterStep(keep)
    \/ FilterEnd

MapSpec == MapInit /\ [][MapNext]_mvars

-----------------------------------------------------------------------------
\* The buckets that may be filled before the table grows: FILL_PERCENT of the
\* size it was allocated with, and of each size it grew from.
Limits(m) ==
    LET Sizes == {2 ^ i : i \in 0 .. 8} IN
    {Threshold(s) + MapThenSumSet(Threshold, {t \in Sizes : s <= t /\ t < Size(m)}) :
        s \in {t \in Sizes : t <= Size(m) /\ t >= MAP_HASH_TABLE_SIZE}}

\* Whatever was added, deleted, combined and filtered, and however often the
\* table grew, each mapping holds what it should: one node for every key, in the
\* bucket where a search looks for it, the count of the nodes right, and the
\* count of the buckets that may still be filled right as well (an error between
\* taking a bucket and filling it leaves that one low: such a mapping grows too
\* early, no more).
MappingsSound ==
    \A x \in Maps :
        LET m == maps[x] IN
        /\ \A i \in DOMAIN m.table : \A n \in DOMAIN m.table[i] : Bucket(m, m.table[i][n].key) = i
        /\ m.count = Cardinality(Nodes(m)) /\ m.count = Len(Walked(m))
        /\ Function(m) = wanted[x]
        /\ x \notin drifted => m.unfilled + Cardinality({i \in DOMAIN m.table : m.table[i] # <<>>}) \in Limits(m)
        /\ Len(mapping_indices(m)) = m.count
        /\ \A i \in DOMAIN mapping_indices(m) : wanted[x][mapping_indices(m)[i]] = mapping_values(m)[i]
=============================================================================
