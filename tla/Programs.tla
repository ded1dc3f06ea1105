------------------------------ MODULE Programs ------------------------------
(***************************************************************************)
(* Programs, what they inherit, and how a function is found: the function  *)
(* tables that compiler.c builds for a file that inherits others, their    *)
(* compression, the search for a function by name, by number and for       *)
(* ::name, and the cache of apply_low() in interpret.c.                    *)
(*                                                                         *)
(* A source file is a sequence of declarations.  A compiled program is a   *)
(* record, and holds the programs it inherits: a program never changes     *)
(* after it was compiled, and an object that was compiled with an old      *)
(* version of a file keeps that version.  Numbers of functions, of         *)
(* inherits and of variables start at 1.                                   *)
(***************************************************************************)
EXTENDS Integers, Sequences, SequencesExt, FiniteSets, FiniteSetsExt

CONSTANTS
    Sources,        \* Sources[file] is the set of texts the file may have
    Names,          \* the names of functions, in the order of their addresses
    NO_INDEX,       \* 255, the mark of an omitted entry in a compressed table
    APPLY_CACHE_SIZE,
    MaxCompiles     \* bound on the compilations

VARIABLES
    progs,          \* progs[file]: the program of the object, or <<>>
    ids,            \* get_id_number()
    cache,          \* the cache of apply_low()
    found           \* what the last apply_low() found, and should have found

SourceFiles == DOMAIN Sources

InitName == "#init"
Order(name) == IF name = InitName THEN Len(Names) + 1
               ELSE CHOOSE i \in DOMAIN Names : Names[i] = name

(* The flags of a function, as in program.h.                               *)
NAME_NO_CODE == {"UNDEFINED", "ALIAS", "PROTOTYPE"}
NAME_MASK == {"UNDEFINED", "PROTOTYPE", "STATIC", "NO_MASK", "PRIVATE", "PUBLIC", "HIDDEN"}
REAL_FUNCTION(fl) == /\ fl \cap {"ALIAS", "PROTOTYPE"} = {}
                     /\ "DEF_BY_INHERIT" \in fl \/ "UNDEFINED" \notin fl

Inh(offset, index) == [k |-> "inh", offset |-> offset, index |-> index]
Def(f_index) == [k |-> "def", f_index |-> f_index]
---------------------------------------------------------------------------
(* Looking into a compiled program.                                        *)

(* find_func_entry(): an omitted entry belongs to the last inherit that    *)
(* starts at or below it.                                                  *)
Remade(prog, index) ==
    LET at == Max({j \in DOMAIN prog.inherit : prog.inherit[j].fio < index}) IN
    Inh(at, index - prog.inherit[at].fio)

find_func_entry(prog, index) ==
    LET z == prog.compressed
        idx == index - z.first_overload
        n_ov == z.first_defined - z.num_compressed
    IN  IF idx < 0 \/ idx >= n_ov THEN Remade(prog, index)
        ELSE IF z.index[idx + 1] = NO_INDEX THEN Remade(prog, index)
        ELSE prog.offsets[z.index[idx + 1] + 1]

FIND_FUNC_ENTRY(prog, index) ==
    IF index < prog.compressed.first_defined
    THEN find_func_entry(prog, index)
    ELSE prog.offsets[index - prog.compressed.num_deleted]

(* setup_new_frame(): from a number to the definition, with the offsets of *)
(* the functions and of the variables of the program that holds it.        *)
RECURSIVE Definition(_, _, _, _)
Definition(prog, index, fio, vio) ==
    IF "INHERITED" \in prog.flags[index]
    THEN LET e == FIND_FUNC_ENTRY(prog, index)
             up == prog.inherit[e.offset]
         IN  Definition(up.prog, e.index, fio + up.fio, vio + up.vio)
    ELSE [prog |-> prog, f_index |-> FIND_FUNC_ENTRY(prog, index).f_index,
          fio |-> fio, vio |-> vio]

setup_new_frame(prog, index) == Definition(prog, index, 0, 0)

function_name(prog, index) ==
    LET d == setup_new_frame(prog, index) IN d.prog.table[d.f_index].name

(* The search in the sorted table of the functions of one program.         *)
RECURSIVE Between(_, _, _, _)
Between(table, name, low, high) ==
    IF high < low THEN 0
    ELSE LET mid == (high + low) \div 2
             p == Order(table[mid].name)
         IN  IF Order(name) < p THEN Between(table, name, low, mid - 1)
             ELSE IF Order(name) > p THEN Between(table, name, mid + 1, high)
             ELSE mid

Search(prog, name) == Between(prog.table, name, 1, Len(prog.table))

(* ffbn_recurse2(): the program's own functions first, then those of the   *)
(* inherited programs, the last one first.                                 *)
NotHere == [at |-> 0]
RECURSIVE ffbn_recurse2(_, _), FromInherits(_, _, _)
ffbn_recurse2(prog, name) ==
    LET mid == Search(prog, name)
        fl == IF mid = 0 THEN {} ELSE prog.flags[prog.table[mid].runtime_index]
    IN  IF mid = 0 \/ "INHERITED" \in fl
        THEN FromInherits(prog, name, Len(prog.inherit))
        ELSE IF fl \cap {"UNDEFINED", "PROTOTYPE"} # {} THEN NotHere
        ELSE [at |-> 1, prog |-> prog, f_index |-> mid, fio |-> 0, vio |-> 0]

FromInherits(prog, name, i) ==
    IF i = 0 THEN NotHere
    ELSE LET r == ffbn_recurse2(prog.inherit[i].prog, name) IN
         IF r.at = 0 THEN FromInherits(prog, name, i - 1)
         ELSE [r EXCEPT !.fio = @ + prog.inherit[i].fio,
                        !.vio = @ + prog.inherit[i].vio]

(* find_matching_function(), for ::name: 0 when there is none, -1 when it  *)
(* is private, else 1.  num is node->l.number; "unset" when it was never   *)
(* assigned.                                                               *)
RECURSIVE find_matching_function(_, _), MatchInherits(_, _, _)
find_matching_function(prog, name) ==
    LET mid == Search(prog, name)
        ind == IF mid = 0 THEN 0 ELSE prog.table[mid].runtime_index
        fl == IF mid = 0 THEN {} ELSE prog.flags[ind]
    IN  IF mid = 0 \/ "INHERITED" \in fl
        THEN MatchInherits(prog, name, Len(prog.inherit))
        ELSE IF fl \cap {"UNDEFINED", "PROTOTYPE"} # {} THEN [ret |-> 0, num |-> <<>>]
        ELSE IF "PRIVATE" \in fl THEN [ret |-> -1, num |-> <<>>]
        ELSE [ret |-> 1, num |-> <<ind>>]

MatchInherits(prog, name, i) ==
    IF i = 0 THEN [ret |-> 0, num |-> <<>>]
    ELSE LET r == find_matching_function(prog.inherit[i].prog, name) IN
         IF r.ret = 0 THEN MatchInherits(prog, name, i - 1)
         ELSE IF "PRIVATE" \in prog.inherit[i].mods THEN [ret |-> -1, num |-> r.num]
         ELSE [ret |-> 1,
               num |-> IF r.num = <<>> THEN <<>> ELSE <<r.num[1] + prog.inherit[i].fio>>]

(* arrange_call_inherited() of ::name: the first inherit that has one.     *)
arrange_call_inherited(inherit, name) ==
    LET hits == {i \in DOMAIN inherit : find_matching_function(inherit[i].prog, name).ret # 0}
        i == Min(hits)
        r == find_matching_function(inherit[i].prog, name)
    IN  IF hits = {} THEN [ok |-> FALSE]
        ELSE IF r.ret = -1 \/ "PRIVATE" \in inherit[i].mods THEN [ok |-> FALSE]
        ELSE [ok |-> TRUE, inherit |-> i, num |-> r.num]
---------------------------------------------------------------------------
(* Compiling.  c is the compiler's memory: the blocks for flags, runtime   *)
(* entries, temporary entries and functions, one entry per number, the     *)
(* inherits, the variables, and the number each name stands for.           *)

EmptyCompiler ==
    [flags |-> <<>>, rentry |-> <<>>, temp |-> <<>>, alias |-> <<>>, funcs |-> <<>>,
     inherit |-> <<>>, vars |-> 0, own |-> 0, init |-> FALSE, errors |-> 0,
     ident |-> [n \in Range(Names) \cup {InitName} |-> 0]]

(* A definition of this file, or of the inherited program p.               *)
Here(num) == [prog |-> <<>>, num |-> num]
Up(p, num) == [prog |-> <<p>>, num |-> num]

add_new_function_entry(c, fl, entry, temp, alias) ==
    [c EXCEPT !.flags = Append(@, fl), !.rentry = Append(@, entry),
              !.temp = Append(@, temp), !.alias = Append(@, alias)]

(* Flags on the way up: private functions become hidden, the modifiers of  *)
(* the inherit statement are added, and public undoes private.             *)
FlagsUp(fl, mods) ==
    LET f == (fl \cap NAME_MASK) \cup {"DEF_BY_INHERIT", "UNDEFINED"} \cup mods
             \cup (IF "PRIVATE" \in fl THEN {"HIDDEN"} ELSE {})
    IN  IF "PUBLIC" \in f THEN f \ {"PRIVATE"} ELSE f

copy_function(c, from, i, d, mods) ==
    [add_new_function_entry(c, FlagsUp(from.flags[i], mods), Inh(Len(c.inherit), i),
                            Up(d.prog, d.f_index), 1)
        EXCEPT !.ident[d.prog.table[d.f_index].name] = Len(c.flags) + 1]

(* A prototype at this level gives way to the inherited function.          *)
Withdrawn(c, old) ==
    IF c.temp[old].prog = <<>> THEN [c EXCEPT !.funcs[c.temp[old].num].removed = TRUE] ELSE c

(* "The latest function wins": unless this file defines it itself.         *)
Replaced(c, from, i, d, old, mods) ==
    IF "UNDEFINED" \in c.flags[old] /\ from.flags[i] \cap NAME_NO_CODE = {}
    THEN [Withdrawn(c, old) EXCEPT !.flags[old] = FlagsUp(from.flags[i], mods),
                                   !.temp[old] = Up(d.prog, d.f_index),
                                   !.rentry[old] = Inh(Len(c.inherit), i)]
    ELSE c

Nomasked(c, old, fl) ==
    /\ fl \cap NAME_NO_CODE = {}
    /\ REAL_FUNCTION(c.flags[old])
    /\ "NO_MASK" \in c.flags[old]

(* The number the function has in the inherited program needs an entry as  *)
(* well: an alias of the function it is overloaded by.                     *)
overload_function(c, from, i, d, old, mods) ==
    LET checked == IF Nomasked(c, old, from.flags[i]) THEN [c EXCEPT !.errors = @ + 1] ELSE c
        aliased == add_new_function_entry(checked, {"INHERITED", "ALIAS"},
                        Inh(Len(c.inherit), i), Up(d.prog, d.f_index), old)
    IN  [Replaced(aliased, from, i, d, old, mods) EXCEPT
            !.alias[old] = IF "ALIAS" \in from.flags[i] THEN @ ELSE @ + 1]

CopyOne(c, from, i, d, mods) ==
    LET num == c.ident[d.prog.table[d.f_index].name] IN
    IF num # 0 THEN overload_function(c, from, i, d, num, mods)
    ELSE copy_function(c, from, i, d, mods)

(* copy_functions(): all but the initializer, which is the last one.       *)
copy_functions(c, from, mods) ==
    LET n == Len(from.flags) - (IF from.init THEN 1 ELSE 0) IN
    FoldLeft(LAMBDA acc, i : CopyOne(acc, from, i, setup_new_frame(from, i), mods),
             c, [i \in 1 .. n |-> i])

(* The inherit statement.                                                  *)
Inherit(c, from, mods) ==
    copy_functions([c EXCEPT !.inherit = Append(@, [prog |-> from, fio |-> Len(c.flags),
                                                    vio |-> c.vars, mods |-> mods]),
                             !.vars = @ + from.vars,
                             !.init = @ \/ from.init],
                   from, mods)

(* define_new_function(), of a function, a prototype, or a function that   *)
(* is called before there is one.                                          *)
NewFunction(c, name, num, fl) ==
    LET fresh == IF num # 0 THEN c.temp[num].prog # <<>> ELSE TRUE
        f == IF fresh THEN Len(c.funcs) + 1 ELSE c.temp[num].num
        r == IF num # 0 THEN num ELSE Len(c.flags) + 1
        func == [name |-> name, runtime_index |-> r, removed |-> FALSE]
        roomy == IF num # 0 THEN c
                 ELSE [add_new_function_entry(c, {}, Def(0), Here(0), 0)
                          EXCEPT !.ident[name] = r]
    IN  [roomy EXCEPT !.funcs = IF fresh THEN Append(@, func) ELSE [@ EXCEPT ![f] = func],
                      !.temp[r] = Here(f), !.flags[r] = fl,
                      !.rentry[r] = Def(f), !.alias[r] = @ + 1]

define_new_function(c, name, fl) ==
    LET num == c.ident[name]
        old == IF num = 0 THEN {} ELSE c.flags[num]
        proto == "PROTOTYPE" \in fl
        twice == num # 0 /\ "UNDEFINED" \notin old /\ ~proto
        masked == num # 0 /\ "NO_MASK" \in old /\ "PROTOTYPE" \notin old /\ ~proto
        checked == IF masked THEN [c EXCEPT !.errors = @ + 1] ELSE c
    IN  IF twice THEN [c EXCEPT !.errors = @ + 1]
        ELSE IF num # 0 /\ proto THEN checked
        ELSE NewFunction(checked, name, num, fl)

(* A definition is first taken for a prototype.                            *)
WithDeclared(c, d, current) ==
    CASE d.k = "inherit" -> Inherit(c, current[d.file][1], d.mods)
      [] d.k = "proto" -> define_new_function(c, d.name, d.mods \cup {"UNDEFINED", "PROTOTYPE"})
      [] d.k = "def" -> define_new_function(
                            define_new_function(c, d.name, d.mods \cup {"UNDEFINED", "PROTOTYPE"}),
                            d.name, d.mods)
      [] d.k = "var" -> [c EXCEPT !.vars = @ + 1, !.own = @ + 1, !.init = @ \/ d.init]
---------------------------------------------------------------------------
(* The end of a compilation.                                               *)

(* epilog(): what is not defined here is taken from below, and aliases get *)
(* the entry of the function they stand for.                               *)
FixUp(c, i) ==
    LET fl == c.flags[i]
        below == {"UNDEFINED", "DEF_BY_INHERIT"} \subseteq fl
        real == IF fl \cap {"PROTOTYPE", "ALIAS"} = {} THEN fl \ {"UNDEFINED"} ELSE fl
        c2 == IF below THEN [c EXCEPT !.flags[i] = real \cup {"INHERITED"}] ELSE c
        which == c.alias[i]
    IN  IF "ALIAS" \notin fl THEN c2
        ELSE IF "INHERITED" \notin c2.flags[which] \/ c2.alias[which] >= 2
        THEN [c2 EXCEPT !.rentry[i] = c2.rentry[which],
                        !.flags[i] = c2.flags[which] \cup {"ALIAS"}]
        ELSE c2

FixedUp(c) == FoldLeft(FixUp, c, [i \in 1 .. Len(c.flags) |-> i])

(* compress_function_tables(): an entry that find_func_entry() can remake  *)
(* is omitted, from the first number to the last one that may be.          *)
Expected(c, i) == /\ "INHERITED" \in c.flags[i]
                  /\ i = c.inherit[c.rentry[i].offset].fio + c.rentry[i].index

Kept(c, i, f_ov) == Cardinality({k \in f_ov .. i : ~Expected(c, k)})

compress_function_tables(c) ==
    LET tot == Len(c.flags)
        f_def == 1 + Max({0} \cup {i \in 1 .. tot : Expected(c, i)})
        f_ov == Min({f_def} \cup {i \in 1 .. f_def - 1 : ~Expected(c, i)})
        l_ov == Max({f_ov} \cup {i \in f_ov .. f_def - 1 : ~Expected(c, i)})
        n_ov == IF f_ov = f_def THEN 0 ELSE l_ov - f_ov + 1
        n_def == tot - f_def + 1
        overflow == {i \in 1 .. n_ov : /\ ~Expected(c, f_ov + i - 1)
                                       /\ Kept(c, f_ov + i - 1, f_ov) > NO_INDEX}
        cut == IF overflow = {} THEN n_ov ELSE Min(overflow) - 1
        j == Kept(c, f_ov + cut - 1, f_ov)
        start == IF overflow = {} THEN f_def ELSE f_ov + cut
        entry(i) == IF i > cut \/ Expected(c, f_ov + i - 1) THEN NO_INDEX
                    ELSE Kept(c, f_ov + i - 1, f_ov) - 1
        keep == SelectSeq([i \in 1 .. n_ov |-> i], LAMBDA i : entry(i) # NO_INDEX)
    IN  [first_defined |-> start, first_overload |-> f_ov,
         num_compressed |-> IF overflow = {} THEN f_def - n_ov ELSE cut + 1,
         num_deleted |-> start - 1 - j,
         index |-> [i \in 1 .. n_ov |-> entry(i)],
         numbers |-> [i \in DOMAIN keep |-> f_ov + keep[i] - 1]
                     \o [i \in 1 .. n_def |-> start + i - 1]]

(* copy_and_sort_function_table(): by the address of the name, with the    *)
(* initializer last and without the entries that were withdrawn.  The      *)
(* entries that stayed in the compressed table follow the functions.       *)
SortedFuncs(c) ==
    SortSeq(SelectSeq([i \in DOMAIN c.funcs |-> i], LAMBDA i : ~c.funcs[i].removed),
            LAMBDA a, b : Order(c.funcs[a].name) < Order(c.funcs[b].name))

Moved(c, number, sorted) ==
    IF "INHERITED" \in c.flags[number] THEN c.rentry[number]
    ELSE Def(CHOOSE k \in DOMAIN sorted : sorted[k] = c.rentry[number].f_index)

Program(c, file, id, src, z, sorted) ==
    [file |-> file, id |-> id, flags |-> c.flags, inherit |-> c.inherit,
     table |-> [k \in DOMAIN sorted |-> [name |-> c.funcs[sorted[k]].name,
                                         runtime_index |-> c.funcs[sorted[k]].runtime_index]],
     compressed |-> [first_defined |-> z.first_defined, first_overload |-> z.first_overload,
                     num_compressed |-> z.num_compressed, num_deleted |-> z.num_deleted,
                     index |-> z.index],
     offsets |-> [k \in DOMAIN z.numbers |-> Moved(c, z.numbers[k], sorted)],
     vars |-> c.vars, init |-> c.init, src |-> src,
     plain |-> [k \in DOMAIN c.flags |-> Moved(c, k, sorted)]]

Epilog(c, file, id, src) ==
    LET fixed == FixedUp(IF c.init THEN define_new_function(c, InitName, {"PRIVATE"}) ELSE c)
    IN  Program(fixed, file, id, src, compress_function_tables(fixed), SortedFuncs(fixed))

Parsed(src, current) == FoldLeft(LAMBDA c, d : WithDeclared(c, d, current), EmptyCompiler, src)
---------------------------------------------------------------------------
(* compile_file(): a file is compiled when what it inherits is loaded; the *)
(* new program may be where an older one was.                              *)
Compile(file, src) ==
    /\ ids <= MaxCompiles
    /\ \A i \in DOMAIN src : src[i].k = "inherit" => progs[src[i].file] # <<>>
    /\ ids' = ids + 1
    /\ progs' = LET c == Parsed(src, progs) IN
                [progs EXCEPT ![file] = IF c.errors > 0 THEN <<>>
                                        ELSE <<Epilog(c, file, ids, src)>>]
    /\ UNCHANGED cache
    /\ found' = <<>>

(* apply_low().  An entry of the cache holds for the program at its        *)
(* address (here the file) with its id.                                    *)
Slot(prog, name) == (prog.id + Order(name)) % APPLY_CACHE_SIZE

Open(prog, r, own) ==
    LET number == r.prog.table[r.f_index].runtime_index + r.fio IN
    own \/ prog.flags[number] \cap {"STATIC", "PRIVATE"} = {}

(* A mutation: a program is known by its address alone.                    *)
HitByAddress(entry, prog, name) ==
    entry # <<>> /\ entry[1].file = prog.file /\ entry[1].name = name

Hit(entry, prog, name) ==
    entry # <<>> /\ entry[1].file = prog.file /\ entry[1].id = prog.id /\ entry[1].name = name

Entry(prog, name, result) ==
    <<[file |-> prog.file, id |-> prog.id, name |-> name, result |-> result]>>

(* own: the caller is the object itself, the driver or a call out.         *)
apply_low(file, name, own) ==
    /\ progs[file] # <<>>
    /\ UNCHANGED <<progs, ids>>
    /\ LET prog == progs[file][1]
           entry == cache[Slot(prog, name)]
           search == ffbn_recurse2(prog, name)
           known == IF Hit(entry, prog, name) THEN entry[1].result ELSE search
           open == IF known.at = 0 THEN FALSE ELSE Open(prog, known, own)
           right == IF search.at = 0 THEN FALSE ELSE Open(prog, search, own)
       IN /\ found' = <<[called |-> IF open THEN known ELSE NotHere,
                         meant |-> IF right THEN search ELSE NotHere]>>
          /\ cache' = IF Hit(entry, prog, name) THEN cache
                      ELSE [cache EXCEPT ![Slot(prog, name)] =
                                Entry(prog, name, IF open THEN known ELSE NotHere)]
---------------------------------------------------------------------------
ProgramsInit ==
    /\ progs = [file \in SourceFiles |-> <<>>]
    /\ ids = 1
    /\ cache = [s \in 0 .. APPLY_CACHE_SIZE - 1 |-> <<>>]
    /\ found = <<>>

ProgramsNext ==
    \/ \E file \in SourceFiles : \E src \in Sources[file] : Compile(file, src)
    \/ \E file \in SourceFiles, name \in Range(Names), own \in BOOLEAN : apply_low(file, name, own)

ProgramsSpec == ProgramsInit /\ [][ProgramsNext]_<<progs, ids, cache, found>>
---------------------------------------------------------------------------
(* What the sources mean: a program's own definition counts, else that of  *)
(* the last inherit that has one.                                          *)
Defines(prog, name) ==
    \E i \in DOMAIN prog.src : prog.src[i].k = "def" /\ prog.src[i].name = name

RECURSIVE Winner(_, _)
Winner(prog, name) ==
    IF Defines(prog, name) THEN {prog}
    ELSE LET has == {i \in DOMAIN prog.inherit : Winner(prog.inherit[i].prog, name) # {}}
         IN  IF has = {} THEN {} ELSE Winner(prog.inherit[Max(has)].prog, name)

(* The programs within a program, with the offsets of their functions.     *)
RECURSIVE Within(_, _)
Within(prog, fio) ==
    {[prog |-> prog, fio |-> fio]} \cup
        UNION {Within(prog.inherit[i].prog, fio + prog.inherit[i].fio) : i \in DOMAIN prog.inherit}

Numbers(prog) == 1 .. Len(prog.flags) - (IF prog.init THEN 1 ELSE 0)

Loaded == {progs[file][1] : file \in {f \in SourceFiles : progs[f] # <<>>}}

(* A function that is called by its name from outside, by its number in    *)
(* the program, or by the number it has in any program that is inherited,  *)
(* directly or not, is the one that the sources mean: inherited code calls *)
(* the function that overloads its own.                                    *)
CallsAgree ==
    \A prog \in Loaded :
        /\ \A name \in Range(Names) :
              {r.prog : r \in {ffbn_recurse2(prog, name)} \ {NotHere}} = Winner(prog, name)
        /\ \A w \in Within(prog, 0) : \A i \in Numbers(w.prog) :
              LET name == function_name(w.prog, i)
                  d == setup_new_frame(prog, i + w.fio)
              IN  Winner(prog, name) # {} =>
                    /\ Winner(prog, name) = {d.prog}
                    /\ d.prog.table[d.f_index].name = name
                    /\ "UNDEFINED" \notin prog.flags[i + w.fio]
                    /\ ffbn_recurse2(prog, name).vio = d.vio

(* Omitting entries from a function table loses nothing.                   *)
CompressionExact ==
    \A prog \in Loaded : \A i \in DOMAIN prog.flags :
        FIND_FUNC_ENTRY(prog, i) = prog.plain[i]

(* The cache never makes apply_low() call a function that the search would *)
(* not find: not one of another object, of an older version of the         *)
(* program, or one that the caller may not call.                           *)
CacheCallsRight == found # <<>> => found[1].called \in {found[1].meant, NotHere}

ProgramsSound == CallsAgree /\ CompressionExact /\ CacheCallsRight

(* An entry of the cache without a program says that the function is not   *)
(* in the object.                                                          *)
(* Refuted; see the README, section 6.                                     *)
CacheMeansMissing == found # <<>> => found[1].called = found[1].meant

(* A function that was declared nomask in an inherited program is not      *)
(* overloaded by another.                                                  *)
(* Refuted; see the README, section 6.                                     *)
NomaskHolds ==
    \A prog \in Loaded : \A w \in Within(prog, 0) : \A i \in DOMAIN w.prog.src :
        LET d == w.prog.src[i] IN
        d.k = "def" /\ "NO_MASK" \in d.mods =>
            \A v \in Winner(prog, d.name) : \E k \in DOMAIN v.src :
                v.src[k].k = "def" /\ v.src[k].name = d.name /\ "NO_MASK" \in v.src[k].mods

(* A ::name that compiles never stands for a private function.             *)
(* Refuted; see the README, section 6.                                     *)
PrivateStaysPrivate ==
    \A prog \in Loaded : \A name \in Range(Names) :
        LET r == arrange_call_inherited(prog.inherit, name) IN
        r.ok => r.num # <<>>
=============================================================================
