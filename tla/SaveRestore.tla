---------------------------- MODULE SaveRestore -----------------------------
(***************************************************************************)
(* save_object(), restore_object() and their kin for one value (object.c,  *)
(* restore_hash_string() of mapping.c): values written as text, a save     *)
(* file that replaces the old one when it is whole, and two passes over    *)
(* the text when it is read: restore_size() counts the elements of every   *)
(* structure, in the order they open, the second pass takes the counts     *)
(* from there.  Both passes and the writer share save_svalue_depth.        *)
(* A save writes through a stream whose buffer holds all of it until it is *)
(* closed; one that an error() leaves open keeps its lines until exit().   *)
(*                                                                         *)
(* A text is a sequence of characters; "" is the byte that ends it.        *)
(***************************************************************************)
EXTENDS Integers, Sequences, FiniteSets, SequencesExt, FiniteSetsExt, TLC

CONSTANTS
    Values, Simple,          \* what the first variable, and the others, may hold at first
    Later,                   \* what they may be set to
    Names,                   \* the variables of the object, in their order, one character each
    Statics,                 \* those that are static
    Damaged,                 \* texts no save has written
    MAX_SAVE_SVALUE_DEPTH,
    MaxSaves, MaxRestores    \* bounds

VARIABLES
    vars,        \* the object's variables
    depth,       \* save_svalue_depth
    disk,        \* [file, tmp]: sequences of lines; open: the streams left open, each
                 \* with the file it writes to and the lines in its buffer
    job,         \* the save_object() under way
    kept,        \* ghost: the variables the save file stands for, and whether exit() has
                 \* written the buffer of a stream left open over it (spilt)
    before,      \* ghost: the variables before the last restore
    out,         \* how the last operation ended
    left         \* [saves, restores]

svars == <<vars, depth, disk, job, kept, before, out, left>>

Num(n) == <<"number", n>>

-----------------------------------------------------------------------------
(* Writing. *)
Digit == <<"0", "1", "2", "3", "4", "5", "6", "7", "8", "9">>

RECURSIVE Decimal(_)
Decimal(n) == (IF n > 9 THEN Decimal(n \div 10) ELSE <<>>) \o <<Digit[(n % 10) + 1]>>

Escaped(s) == FlattenSeq([i \in DOMAIN s |-> CASE s[i] \in {"\"", "\\"} -> <<"\\", s[i]>>
                                               [] s[i] = "\n" -> <<"\r">> [] OTHER -> <<s[i]>>])

Brackets(type) == CASE type = "array" -> <<"{", "}">> [] type = "class" -> <<"/", "/">> [] type = "mapping" -> <<"[", "]">>

\* save_svalue(): what cannot be saved is written as nothing.
RECURSIVE save_svalue(_)
save_svalue(v) ==
    CASE v[1] = "string"  -> <<"\"">> \o Escaped(v[2]) \o <<"\"">>
      [] v[1] = "number"  -> IF v[2] < 0 THEN <<"-">> \o Decimal(-v[2]) ELSE Decimal(v[2])
      [] v[1] = "real"    -> Decimal(v[2] \div 10) \o <<".">> \o Decimal(v[2] % 10)
      [] v[1] \in {"array", "class"} ->
             <<"(", Brackets(v[1])[1]>> \o FlattenSeq([i \in DOMAIN v[2] |-> Append(save_svalue(v[2][i]), ",")])
             \o <<Brackets(v[1])[2], ")">>
      [] v[1] = "mapping" ->
             <<"(", "[">> \o FlattenSeq([i \in DOMAIN v[2] |->
                                 Append(save_svalue(v[2][i][1]), ":") \o Append(save_svalue(v[2][i][2]), ",")])
             \o <<"]", ")">>
      [] OTHER -> <<>>

Parts(v) ==
    CASE v[1] \in {"array", "class"} -> v[2]
      [] v[1] = "mapping" -> FlattenSeq([i \in DOMAIN v[2] |-> <<v[2][i][1], v[2][i][2]>>])
      [] OTHER -> <<>>

\* svalue_save_size(): how deep it goes; it gives up where it gets too deep, and
\* its caller starts it with no depth.
RECURSIVE Depth(_)
Depth(v) == IF v[1] \notin {"array", "class", "mapping"} THEN 0
            ELSE 1 + Max({0} \cup {Depth(Parts(v)[i]) : i \in DOMAIN Parts(v)})

TooDeep(v) == Depth(v) > MAX_SAVE_SVALUE_DEPTH

-----------------------------------------------------------------------------
(* Reading, first pass: restore_size() and restore_internal_size().  The   *)
(* result is a count, or "bad", and the counts of the structures inside.   *)
Ch(t, p) == IF p <= Len(t) THEN t[p] ELSE ""

\* The place of the next c from p on, or 0.
Strchr(t, p, c) == LET at == {i \in p .. Len(t) : t[i] = c} IN IF at = {} THEN 0 ELSE Min(at)

\* The place behind the string that starts at p, or 0.
RECURSIVE StringEnd(_, _)
StringEnd(t, p) ==
    CASE Ch(t, p) = "\"" -> p + 1
      [] Ch(t, p) = "" -> 0
      [] Ch(t, p) = "\\" -> IF Ch(t, p + 1) = "" THEN 0 ELSE StringEnd(t, p + 2)
      [] OTHER -> StringEnd(t, p + 1)

Bad(sz) == [ok |-> FALSE, n |-> 0, pos |-> 0, sz |-> sz]

\* size so far, the delimiter that has to follow, and whether it is a mapping
\* whose delimiters alternate.  A structure inside takes the next place of sz.
RECURSIVE Counting(_, _, _, _, _, _), More(_, _, _, _, _, _), Behind(_, _, _, _, _, _, _)
More(t, p, n, delim, map, sz) ==
    Counting(t, p, n + 1, IF ~map THEN delim ELSE IF delim = ":" THEN "," ELSE ":", map, sz)

Behind(t, in, n, delim, map, sz, at) ==
    IF ~in.ok \/ Ch(t, in.pos) # delim THEN Bad(in.sz) ELSE More(t, in.pos + 1, n, delim, map, [in.sz EXCEPT ![at] = in.n])

BehindString(t, e, n, delim, map, sz) ==
    IF e = 0 THEN [Bad(sz) EXCEPT !.n = -1] ELSE IF Ch(t, e) # delim THEN Bad(sz) ELSE More(t, e + 1, n, delim, map, sz)

BehindNumber(t, q, n, delim, map, sz) == IF q = 0 THEN Bad(sz) ELSE More(t, q + 1, n, delim, map, sz)

Ends(t, p, n, sz, right) == IF Ch(t, p + 1) = ")" /\ right THEN [ok |-> TRUE, n |-> n, pos |-> p + 2, sz |-> sz] ELSE Bad(sz)

Counting(t, p, n, delim, map, sz) ==
    LET c == Ch(t, p)
    IN CASE c = "" -> Bad(sz)
         [] c = "\"" -> BehindString(t, StringEnd(t, p + 1), n, delim, map, sz)
         [] c = "(" -> IF Ch(t, p + 1) \notin {"{", "[", "/"} THEN Bad(sz)
                       ELSE Behind(t, Counting(t, p + 2, 0, IF Ch(t, p + 1) = "[" THEN ":" ELSE ",", Ch(t, p + 1) = "[", Append(sz, 0)),
                                   n, delim, map, sz, Len(sz) + 1)
         [] c = "]" -> Ends(t, p, n, sz, map)
         [] c \in {"/", "}"} -> Ends(t, p, n, sz, ~map)
         [] c \in {":", ","} -> IF c # delim THEN Bad(sz) ELSE More(t, p + 1, n, delim, map, sz)
         [] OTHER -> BehindNumber(t, Strchr(t, p + 1, delim), n, delim, map, sz)

\* At the outermost level a string that does not end is taken for no elements.
Outermost(r) == IF ~r.ok /\ r.n = -1 THEN [r EXCEPT !.ok = TRUE, !.n = 0] ELSE r
restore_size(t, p, map) == Outermost(Counting(t, p, 0, IF map THEN ":" ELSE ",", map, <<>>))

-----------------------------------------------------------------------------
(* Second pass.  The result is an error, or a value and the place behind   *)
(* it; k is save_svalue_depth, sz the counts.                              *)
Got(v, p, k) == [err |-> FALSE, v |-> v, pos |-> p, k |-> k, set |-> TRUE]
Err(k) == [err |-> TRUE, v |-> Num(0), pos |-> 0, k |-> k, set |-> FALSE]

\* restore_interior_string(), restore_hash_string() and restore_string().
RECURSIVE Unescaped(_)
Unescaped(s) ==
    IF s = <<>> THEN <<>>
    ELSE IF s[1] = "\\" THEN <<s[2]>> \o Unescaped(SubSeq(s, 3, Len(s)))
    ELSE <<IF s[1] = "\r" THEN "\n" ELSE s[1]>> \o Unescaped(Tail(s))

UpTo(t, p, e, k) == IF e = 0 THEN Err(k) ELSE Got(<<"string", Unescaped(SubSeq(t, p, e - 2))>>, e, k)
restore_string(t, p, k) == UpTo(t, p, StringEnd(t, p), k)

\* parse_numeric(): the character behind the number is taken as well.
DigitAt(c) == c \in ToSet(Digit)
Value(s) == FoldLeft(LAMBDA n, d : 10 * n + (CHOOSE i \in DOMAIN Digit : Digit[i] = d) - 1, 0, s)
RunEnd(t, p) == Min({i \in p .. Len(t) + 1 : ~DigitAt(Ch(t, i))})

parse_numeric(t, p, k) ==
    LET neg  == Ch(t, p) = "-"
        from == IF neg THEN p + 1 ELSE p
        e    == RunEnd(t, from)
        n    == Value(SubSeq(t, from, e - 1))
        f    == RunEnd(t, e + 1)
    IN IF ~DigitAt(Ch(t, from)) THEN Err(k)
       ELSE IF Ch(t, e) # "." THEN Got(Num(IF neg THEN -n ELSE n), e + 1, k)
       ELSE IF ~DigitAt(Ch(t, e + 1)) THEN Err(k)
       ELSE Got(<<"real", 10 * n + Value(<<Ch(t, e + 1)>>)>>, f + 1, k)

RECURSIVE restore_array(_, _, _, _, _, _), restore_mapping(_, _, _, _, _, _), Structure(_, _, _, _),
          NextItem(_, _, _, _, _), NextPair(_, _, _, _, _, _), PairRead(_, _, _, _, _, _)

\* The value that starts at p inside of a structure; "," and ":" stand for what
\* could not be saved.
Delimited(r) == [r EXCEPT !.pos = @ + 1]
Element(t, p, k, sz, delim) ==
    LET c == Ch(t, p) IN
    CASE c = "\"" -> Delimited(restore_string(t, p + 1, k))
      [] c = "(" -> Delimited(Structure(t, p, k + 1, sz))
      [] c = delim -> Got(Num(0), p + 1, k)
      [] c = "-" \/ DigitAt(c) -> parse_numeric(t, p, k)
      [] OTHER -> Err(k)

\* restore_array() and restore_class(): n elements are read, the bracket is not.
NextItem(t, r, n, sz, vals) == IF r.err THEN r ELSE restore_array(t, r.pos, n - 1, r.k, sz, Append(vals, r.v))
restore_array(t, p, n, k, sz, vals) ==
    IF n = 0 THEN Got(<<"array", vals>>, p + 2, k) ELSE NextItem(t, Element(t, p, k, sz, ","), n, sz, vals)

\* A key that is there gets the new value.
Insert(pairs, key, v) ==
    IF \E i \in DOMAIN pairs : pairs[i][1] = key
    THEN [i \in DOMAIN pairs |-> IF pairs[i][1] = key THEN <<key, v>> ELSE pairs[i]]
    ELSE Append(pairs, <<key, v>>)

\* restore_mapping() reads up to the bracket.
PairRead(t, key, val, n, sz, pairs) ==
    IF val.err THEN val ELSE restore_mapping(t, val.pos, n, val.k, sz, Insert(pairs, key.v, val.v))
NextPair(t, key, n, k, sz, pairs) ==
    IF key.err THEN key ELSE PairRead(t, key, Element(t, key.pos, key.k, sz, ","), n, sz, pairs)
restore_mapping(t, p, n, k, sz, pairs) ==
    IF n = 0 THEN Got(<<"mapping", <<>>>>, p + 2, k)
    ELSE IF Ch(t, p) = "]" THEN Got(<<"mapping", pairs>>, p + 2, k)
    ELSE NextPair(t, Element(t, p, k, sz, ":"), n, k, sz, pairs)

\* The structure that opens at p: its count is at save_svalue_depth, or found
\* now if that is 0.  A mapping that cannot be counted gives no error and sets
\* no value.
AsClass(r) == IF r.err THEN r ELSE [r EXCEPT !.v = <<"class", r.v[2]>>]
Sized(t, p, k, n, sz) ==
    CASE Ch(t, p + 1) = "[" -> restore_mapping(t, p + 2, n, k, sz, <<>>)
      [] Ch(t, p + 1) = "{" -> restore_array(t, p + 2, n, k, sz, <<>>)
      [] OTHER -> AsClass(restore_array(t, p + 2, n, k, sz, <<>>))
Counted(t, p, c) ==
    IF c.ok THEN Sized(t, p, 0, c.n, c.sz)
    ELSE IF Ch(t, p + 1) = "[" THEN [Got(Num(0), 0, Len(c.sz)) EXCEPT !.set = FALSE] ELSE Err(Len(c.sz))
Structure(t, p, k, sz) ==
    IF Ch(t, p + 1) \notin {"{", "[", "/"} THEN Err(k)
    ELSE IF k > 0 THEN Sized(t, p, k, sz[k], sz)
    ELSE Counted(t, p, restore_size(t, p + 2, Ch(t, p + 1) = "["))

\* restore_svalue() and safe_restore_svalue(): at the end depth and counts are
\* dropped.  A string has to end the text.
WholeText(r, t, k) == IF r.err \/ r.pos # Len(t) + 1 THEN Err(k) ELSE r

restore_svalue(t, k, sz) ==
    LET c == Ch(t, 1) IN
    CASE c = "\"" -> WholeText(restore_string(t, 2, k), t, k)
      [] c = "(" -> Structure(t, 1, k, sz)
      [] c = "-" \/ DigitAt(c) -> parse_numeric(t, 1, k)
      [] OTHER -> Got(Num(0), 1, k)

-----------------------------------------------------------------------------
(* The object and its save file. *)
NoJob == [step |-> "none"]
Saved == SelectSeq(Names, LAMBDA x : x \notin Statics)

Line(x) == [name |-> x, text |-> save_svalue(vars[x])]

\* save_object(): the new file is written beside the old one.  fopen() empties a file
\* that is there, which an older stream may still write to.
SaveObject(zeros) ==
    /\ job = NoJob /\ left.saves > 0
    /\ job' = [step |-> "write", i |-> 1, zeros |-> zeros, lines |-> <<>>]
    /\ disk' = [disk EXCEPT !.tmp = <<>>]
    /\ left' = [left EXCEPT !.saves = @ - 1]
    /\ UNCHANGED <<vars, depth, kept, before, out>>

\* One variable: a value too deep is an error() out of save_object() that leaves
\* the file and save_svalue_depth as they are, and the stream open.
SaveVariable ==
    /\ job.step = "write" /\ job.i <= Len(Saved)
    /\ LET x == Saved[job.i]
       IN IF TooDeep(vars[x])
          THEN /\ depth' = MAX_SAVE_SVALUE_DEPTH + 1
               /\ job' = NoJob /\ out' = "too deep"
               /\ disk' = [disk EXCEPT !.open = @ \cup {[on |-> "tmp", lines |-> job.lines]}]
          ELSE /\ depth' = 0
               /\ job' = [job EXCEPT !.i = @ + 1,
                                     !.lines = IF ~job.zeros /\ save_svalue(vars[x]) = <<"0">> THEN @
                                               ELSE Append(@, Line(x))]
               /\ UNCHANGED <<disk, out>>
    /\ UNCHANGED <<vars, kept, before, left>>

\* fprintf() or fclose() fails, or rename(): the new file is removed, and older streams
\* on it write to nothing; save_object() gives 1.
SaveFails ==
    /\ job.step = "write"
    /\ disk' = [disk EXCEPT !.tmp = <<>>, !.open = {s \in @ : s.on = "file"}]
    /\ job' = NoJob /\ out' = "not saved"
    /\ UNCHANGED <<vars, depth, kept, before, left>>

\* Wrong on purpose: the lines there are become the save file.
RenameEarly ==
    /\ job.step = "write"
    /\ disk' = [disk EXCEPT !.file = job.lines]
    /\ kept' = [vars |-> [x \in ToSet(Saved) |-> vars[x]], spilt |-> FALSE]
    /\ job' = NoJob /\ out' = "saved"
    /\ UNCHANGED <<vars, depth, before, left>>

\* fclose() writes the lines, rename() gives the file its name: older streams on it
\* keep it, those on the old save file write to nothing.
SaveRenames ==
    /\ job.step = "write" /\ job.i > Len(Saved)
    /\ disk' = [file |-> job.lines, tmp |-> <<>>,
                open |-> {[s EXCEPT !.on = "file"] : s \in {t \in disk.open : t.on = "tmp"}}]
    /\ kept' = [vars |-> [x \in ToSet(Saved) |-> vars[x]], spilt |-> FALSE]
    /\ job' = NoJob /\ out' = "saved"
    /\ UNCHANGED <<vars, depth, before, left>>

Restarted ==
    /\ vars' = [x \in ToSet(Names) |-> Num(0)]
    /\ depth' = 0 /\ job' = NoJob

\* The driver stops at any moment and starts again: the disk stays.
Crash ==
    /\ job # NoJob \/ depth # 0 \/ disk.open # {}
    /\ Restarted
    /\ disk' = [disk EXCEPT !.open = {}] /\ out' = "crash"
    /\ UNCHANGED <<kept, before, left>>

\* A line of the file; what is left of one has no name.
Chars(line) == (IF line.name = "" THEN <<>> ELSE <<line.name, " ">>) \o line.text \o <<"\n">>

\* The lines behind the first n characters.
RECURSIVE Past(_, _)
Past(lines, n) ==
    IF lines = <<>> \/ n = 0 THEN lines
    ELSE LET c == Chars(lines[1])
         IN IF n >= Len(c) THEN Past(Tail(lines), n - Len(c))
            ELSE <<[name |-> "", text |-> SubSeq(c, n + 1, Len(c) - 1)]>> \o Tail(lines)

\* A file when a stream that was opened with it writes its buffer, at its beginning.
WrittenOver(lines, s) == s.lines \o Past(lines, Len(FlattenSeq([i \in DOMAIN s.lines |-> Chars(s.lines[i])])))

\* shutdown(): exit() writes the buffers of all streams, in an order of its own.
Exit ==
    /\ job = NoJob /\ disk.open # {}
    /\ Restarted
    /\ \E order \in SetToSeqs({s \in disk.open : s.on = "file"}) :
          disk' = [disk EXCEPT !.file = FoldLeft(WrittenOver, @, order), !.open = {}]
    /\ kept' = IF \E s \in disk.open : s.on = "file" THEN [kept EXCEPT !.spilt = TRUE] ELSE kept
    /\ out' = "exit"
    /\ UNCHANGED <<before, left>>

find_global_variable(x) == x \in ToSet(Saved)

\* safe_restore_svalue() stores a value of its own, which nothing may have set.
Stored(r, noclear) == IF r.set \/ ~noclear THEN r.v ELSE <<"garbage">>

\* The lines one after the other, until one is an error, as is one without a space;
\* current is what the variables hold by then.
RECURSIVE Lines(_, _, _, _), LineRead(_, _, _, _)
LineRead(lines, current, r, noclear) ==
    IF r.err THEN [vars |-> current, depth |-> 0, err |-> TRUE]
    ELSE Lines(Tail(lines),
               IF ~find_global_variable(lines[1].name) THEN current
               ELSE [current EXCEPT ![lines[1].name] = Stored(r, noclear)], 0, noclear)
Lines(lines, current, k, noclear) ==
    IF lines = <<>> THEN [vars |-> current, depth |-> k, err |-> FALSE]
    ELSE IF " " \notin ToSet(Chars(lines[1])) THEN [vars |-> current, depth |-> 0, err |-> TRUE]
    ELSE LineRead(lines, current,
                  IF find_global_variable(lines[1].name) THEN restore_svalue(lines[1].text, k, <<>>) ELSE Got(Num(0), 1, k), noclear)

\* restore_object(): with noclear the variables the file has no line for stay.
\* A structure that meets a depth left by a save reads counts that are not there.
Restored(r, stale) ==
    /\ vars' = IF stale THEN [x \in ToSet(Names) |-> Num(0)] ELSE r.vars
    /\ out' = IF stale THEN "driver crash" ELSE IF r.err THEN "restore error" ELSE "restored"

RestoreObject(noclear, damage) ==
    /\ job = NoJob /\ left.restores > 0
    /\ kept # <<>> /\ (damage # <<>> => disk.file # <<>>)
    /\ LET lines == IF damage = <<>> THEN disk.file ELSE [disk.file EXCEPT ![1].text = damage]
           start == [x \in ToSet(Names) |-> IF noclear \/ x \in Statics THEN vars[x] ELSE Num(0)]
       IN Restored(Lines(lines, start, 0, noclear), depth > 0 /\ \E i \in DOMAIN lines : Ch(lines[i].text, 1) = "(")
    /\ depth' = 0
    /\ before' = [vars |-> vars, noclear |-> noclear, damage |-> damage]
    /\ left' = [left EXCEPT !.restores = @ - 1]
    /\ UNCHANGED <<disk, job, kept>>

Assign(x, v) ==
    /\ left.saves + left.restores > 1 /\ vars[x] # v /\ job = NoJob
    /\ vars' = [vars EXCEPT ![x] = v]
    /\ out' = "assigned"
    /\ UNCHANGED <<depth, disk, job, kept, before, left>>

SaveInit ==
    /\ vars \in [ToSet(Names) -> Values]
    /\ \A i \in DOMAIN Names : i > 1 => vars[Names[i]] \in Simple
    /\ depth = 0 /\ job = NoJob /\ out = ""
    /\ disk = [file |-> <<>>, tmp |-> <<>>, open |-> {}]
    /\ kept = <<>> /\ before = <<>>
    /\ left = [saves |-> MaxSaves, restores |-> MaxRestores]

SaveNext ==
    \/ \E zeros \in BOOLEAN : SaveObject(zeros)
    \/ SaveVariable \/ SaveFails \/ SaveRenames \/ Crash \/ Exit
    \/ \E noclear \in BOOLEAN, damage \in Damaged \cup {<<>>} : RestoreObject(noclear, damage)
    \/ \E x \in ToSet(Names), v \in Later : Assign(x, v)

SaveSpec == SaveInit /\ [][SaveNext]_svars

-----------------------------------------------------------------------------
\* What a value is once it has been saved and restored.
RECURSIVE Portable(_)
Portable(v) ==
    CASE v[1] = "string" -> <<"string", [i \in DOMAIN v[2] |-> IF v[2][i] = "\r" THEN "\n" ELSE v[2][i]]>>
      [] v[1] \in {"number", "real"} -> v
      [] v[1] \in {"array", "class"} -> <<v[1], [i \in DOMAIN v[2] |-> Portable(v[2][i])]>>
      [] v[1] = "mapping" -> <<"mapping", [i \in DOMAIN v[2] |-> <<Portable(v[2][i][1]), Portable(v[2][i][2])>>]>>
      [] OTHER -> Num(0)

RestoreEnded == out \in {"restored", "restore error"} /\ before.damage = <<>>
GivenBack ==
    /\ out = "restored"
    /\ \A x \in ToSet(Names) :
          IF x \in Statics THEN vars[x] = before.vars[x]
          ELSE \/ vars[x] = Portable(kept.vars[x])
               \/ before.noclear /\ Portable(kept.vars[x]) = Num(0) /\ vars[x] = before.vars[x]

\* restore_object() gives back what the save file stands for, whatever crashes,
\* full disks and values too deep came between, unless a save after one that was
\* too deep is followed by exit(), which writes the lines of the stream the latter
\* left open over it (spilt): but for that the file is always a whole save, and what
\* is written is read as what it was.  Statics, and with noclear the zeros the file
\* has no line for, stay as they were.
RestoreGivesBack == RestoreEnded /\ ~kept.spilt => GivenBack

\* "Several bugfixes to restore/save_object; they should work correctly again"
\* (ChangeLog): what save_object() saved comes back whatever came before and after.
\* Refuted; see the README, section 6.
RestoreAlwaysGivesBack == RestoreEnded => GivenBack

\* "this limit prevents crashes from occuring when saving objects" (options.h):
\* after a save that was too deep the driver still restores objects.
\* Refuted; see the README, section 6.
DepthLimitPreventsCrashes == out # "driver crash"

\* "restore_object now leaves the affected variable untouched when in finds a
\* syntax error in a nested structure, then gives an error" (ChangeLog).
\* Refuted; see the README, section 6.
DamageLeavesUntouched ==
    out \in {"restored", "restore error"} /\ before.noclear /\ before.damage # <<>> =>
        out = "restore error" /\ vars[disk.file[1].name] = before.vars[disk.file[1].name]
=============================================================================
