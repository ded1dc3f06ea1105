---------------------------- MODULE Preprocessor ----------------------------
(***************************************************************************)
(* The preprocessor's state while files are compiled one after another     *)
(* (lex.c, preprocess.c, compiler.c, interpret.c): the stack of            *)
(* conditionals, the table of macros, the stack of included files and the  *)
(* account of lines that finds the file and the line of an error.          *)
(*                                                                         *)
(* A file is read line by line; what the next line is, is chosen when it   *)
(* is read.  A condition is a macro's name, defined or not.  What the      *)
(* conditionals mean is kept beside the code's state as a stack of groups. *)
(***************************************************************************)
EXTENDS Integers, Sequences, SequencesExt, FiniteSets

CONSTANTS
  Files,                \* files that can be included; the program is "main"
  Names, Predefined,    \* macro names, and the ones the driver defines
  MAX_INCLUDE_DEPTH,
  MaxLines, MaxCompiles \* bounds: lines of a program, programs

ASSUME PreprocessorAssumption == IsFiniteSet(Predefined) /\ "main" \notin Files

VARIABLES
  iftop,                \* the states of the open conditionals, innermost first
  skip,                 \* <<what skip_to() looks for>>, or <<>>
  defns,                \* a chain of the macro table: [name, exps, flags]
  inctop,               \* the including files: [line, file]
  incnum, file, current_line, base, saved, file_info,
  lex,                  \* "idle", "reading", "fatal"
  errors,               \* yyerror() was called
  groups, where, told, opened, lines, compiled

preVars == <<iftop, skip, defns, inctop, incnum, file, current_line, base, saved, file_info, lex, errors, groups, where, told, opened, lines, compiled>>
lineVars == <<inctop, incnum, file, base, saved, file_info, opened>>

\* lookup_definition(): the place of the first entry for n in the chain, or 0.
lookup_definition(n) ==
  IF \E i \in DOMAIN defns : defns[i].name = n
  THEN CHOOSE i \in DOMAIN defns : defns[i].name = n /\ \A j \in 1..(i - 1) : defns[j].name # n
  ELSE 0
Flags(n) == defns[lookup_definition(n)].flags
\* lookup_define() finds something.
IsDefined(n) == lookup_definition(n) # 0 /\ "undefined" \notin Flags(n)

\* add_define(): the new table, and whether it is an error.
add_define(n, v) ==
  LET i == lookup_definition(n) IN
  CASE i = 0 -> [table |-> <<[name |-> n, exps |-> v, flags |-> {}]>> \o defns, bad |-> FALSE]
    [] i # 0 /\ "undefined" \in Flags(n) -> [table |-> [defns EXCEPT ![i].exps = v, ![i].flags = {}], bad |-> FALSE]
    [] i # 0 /\ "undefined" \notin Flags(n) /\ "predef" \in Flags(n) -> [table |-> defns, bad |-> TRUE]
    [] OTHER -> [table |-> [defns EXCEPT ![i].exps = v], bad |-> FALSE]

\* free_defines(): the entries in front of the first predefined one go.
free_defines ==
  LET kept == {i \in DOMAIN defns : \E j \in 1..i : "predef" \in defns[j].flags}
      rest == SubSeq(defns, Len(defns) - Cardinality(kept) + 1, Len(defns))
  IN [i \in DOMAIN rest |-> [rest[i] EXCEPT !.flags = @ \ {"undefined"}]]
Predefines == SetToSeq({[name |-> n, exps |-> 0, flags |-> {"predef"}] : n \in Predefined})

save_file_info(id, n) == Append(file_info, [lines |-> n, file |-> id])
\* The lines of the first i entries that are about some of the files, as a function of i.
LinesUpTo(info, some) ==
  LET upto[i \in 0..Len(info)] ==
        IF i = 0 THEN 0 ELSE upto[i - 1] + (IF info[i].file \in some THEN info[i].lines ELSE 0)
  IN upto
AllFiles == Files \cup {"main"}
\* translate_absolute_line(): first the entry, then the file's lines in the entries before it.
translate_absolute_line(line, info) ==
  LET upto == LinesUpTo(info, AllFiles)
      i == CHOOSE i \in DOMAIN info : line <= upto[i] /\ \A j \in 1..(i - 1) : line > upto[j]
  IN [file |-> info[i].file, line |-> line - upto[i - 1] + LinesUpTo(info, {info[i].file})[i - 1]]
-----------------------------------------------------------------------------
(***************************************************************************)
(* What the conditionals mean.                                             *)
(***************************************************************************)
Active == \A i \in DOMAIN groups : groups[i].on
OuterActive == \A i \in 2..Len(groups) : groups[i].on
Opened(c) == <<[on |-> c, taken |-> c, open |-> TRUE]>> \o groups
ElifGroup(c) == [groups EXCEPT ![1].on = ~ groups[1].taken /\ c, ![1].taken = @ \/ c]
ElseGroup == [groups EXCEPT ![1].on = ~ groups[1].taken, ![1].taken = TRUE]
-----------------------------------------------------------------------------
Line(d) == lex = "reading" /\ lines < MaxLines /\ d /\ lines' = lines + 1
\* A line ends: the number of the next one.
Counted == current_line' = current_line + 1
\* A line the code does not skip.
Read(d) == skip = <<>> /\ Line(d)

start_new_file ==
  /\ lex = "idle" /\ compiled < MaxCompiles
  /\ lex' = "reading" /\ file' = "main" /\ current_line' = 1 /\ base' = 0 /\ saved' = 0 /\ file_info' = <<>> /\ incnum' = 0
  /\ defns' = add_define("__FILE__", compiled).table
  /\ errors' = FALSE /\ where' = <<[file |-> "main", line |-> 1]>> /\ told' = <<>> /\ lines' = 0 /\ opened' = [f \in Files |-> 0]
  /\ UNCHANGED <<iftop, skip, inctop, groups, compiled>>

\* A line of the program that makes code: its node is given the absolute line.
Code ==
  /\ Read(TRUE) /\ Counted
  /\ told' = Append(told, [abs |-> base + current_line, at |-> where[1], meant |-> Active])
  /\ where' = [where EXCEPT ![1].line = @ + 1]
  /\ UNCHANGED <<iftop, skip, defns, lineVars, lex, errors, groups, compiled>>

SkipTo(tokens, nest) == <<[tokens |-> tokens, nest |-> nest]>>
Stops(token) == skip # <<>> => skip[1].nest = 0 /\ token \in skip[1].tokens
\* A directive that is read, or that skip_to() stops in front of.
Directive(token, d) == Line(d) /\ Stops(token)
\* handle_cond(): skip_to() runs first, and the conditional is on the stack when it returns.
Pushed(c) == IF c THEN <<"expect_endif">> ELSE <<"expect_else">>
handle_cond(c, stack) == /\ iftop' = Pushed(c) \o stack
                         /\ skip' = IF c THEN <<>> ELSE SkipTo({"else", "endif", "elif"}, 0)
Next1 == where' = [where EXCEPT ![1].line = @ + 1]
If(c) == Read(TRUE) /\ Counted /\ Next1 /\ handle_cond(c, iftop) /\ groups' = Opened(c) /\ UNCHANGED <<defns, lineVars, lex, errors, told, compiled>>
Ifdef == \E n \in Names : If(IsDefined(n))
Ifndef == \E n \in Names : If(~ IsDefined(n))

ElifStaysTaken(c) == IF iftop[1] = "expect_else" THEN handle_cond(c, iftop) ELSE skip' = <<>> /\ UNCHANGED iftop
\* The innermost conditional is popped, and the new condition decides as an #if would.
handle_elif(c) == IF iftop[1] = "expect_else" THEN handle_cond(c, Tail(iftop)) ELSE skip' = SkipTo({"endif", "elif"}, 0) /\ UNCHANGED iftop
Elif == \E n \in Names :
  /\ Directive("elif", iftop # <<>>) /\ Counted /\ Next1
  /\ handle_elif(IsDefined(n))
  /\ groups' = ElifGroup(IsDefined(n))
  /\ UNCHANGED <<defns, lineVars, lex, errors, told, compiled>>
handle_else == IF iftop[1] = "expect_else" THEN iftop' = [iftop EXCEPT ![1] = "expect_endif"] /\ skip' = <<>>
               ELSE skip' = SkipTo({"endif", "elif"}, 0) /\ UNCHANGED iftop
Else ==
  /\ Directive("else", iftop # <<>>) /\ Counted /\ Next1 /\ handle_else
  /\ groups' = ElseGroup
  /\ UNCHANGED <<defns, lineVars, lex, errors, told, compiled>>
handle_endif == iftop' = Tail(iftop)
Endif ==
  /\ Directive("endif", iftop # <<>>) /\ Counted /\ Next1 /\ handle_endif /\ skip' = <<>> /\ groups' = Tail(groups)
  /\ UNCHANGED <<defns, lineVars, lex, errors, told, compiled>>
\* #elif, #else or #endif with no conditional open; yyerrorp() stops the lexer.
Unexpected == /\ Read(iftop = <<>>) /\ Counted /\ Next1 /\ errors' = TRUE /\ lex' = "fatal"
              /\ UNCHANGED <<iftop, skip, defns, lineVars, groups, told, compiled>>

Define == \E n \in Names, v \in {1, 2} :
  /\ Read(TRUE) /\ Counted /\ Next1
  /\ defns' = add_define(n, v).table /\ errors' = (errors \/ add_define(n, v).bad)
  /\ UNCHANGED <<iftop, skip, lineVars, lex, groups, told, compiled>>
Undef == \E n \in Names :
  /\ Read(IsDefined(n)) /\ Counted /\ Next1
  /\ IF "predef" \in Flags(n) THEN errors' = TRUE /\ UNCHANGED defns
     ELSE defns' = [defns EXCEPT ![lookup_definition(n)].flags = @ \cup {"undefined"}] /\ UNCHANGED errors
  /\ UNCHANGED <<iftop, skip, lineVars, lex, groups, told, compiled>>

-----------------------------------------------------------------------------
(***************************************************************************)
(* skip_to(), a line at a time.  In front of the directive it looks for it *)
(* stops, and the directive is read as any other.                          *)
(***************************************************************************)
Skipping(d) == skip # <<>> /\ Line(d)
Skipped == Counted /\ Next1 /\ UNCHANGED <<iftop, defns, lineVars, lex, errors, told, compiled>>
SkipCode == Skipping(TRUE) /\ Skipped /\ UNCHANGED <<skip, groups>>
SkipIf == Skipping(TRUE) /\ Skipped /\ skip' = [skip EXCEPT ![1].nest = @ + 1] /\ groups' = Opened(FALSE)
SkipOther(token, after) == Skipping(~ Stops(token)) /\ Skipped /\ groups' = after /\ UNCHANGED skip
SkipElif == \E n \in Names : Skipping(~ Stops("elif")) /\ Skipped /\ groups' = ElifGroup(IsDefined(n)) /\ UNCHANGED skip
SkipElse == SkipOther("else", ElseGroup)
SkipEndif == Skipping(~ Stops("endif")) /\ Skipped /\ groups' = Tail(groups) /\ skip' = [skip EXCEPT ![1].nest = @ - 1]
-----------------------------------------------------------------------------
\* The count is taken before it is known whether there will be another file.
handle_include(f, found) ==
  IF incnum + 1 = MAX_INCLUDE_DEPTH \/ ~ found
  THEN errors' = TRUE /\ incnum' = incnum + 1 /\ Counted /\ Next1 /\ UNCHANGED <<inctop, file, base, saved, file_info, opened>>
  ELSE /\ inctop' = <<[line |-> current_line + 1, file |-> file]>> \o inctop
       /\ file_info' = save_file_info(file, current_line - saved)
       /\ base' = base + current_line /\ saved' = 0 /\ current_line' = 1 /\ file' = f /\ incnum' = incnum + 1
       /\ where' = <<[file |-> f, line |-> 1], [where[1] EXCEPT !.line = @ + 1]>> \o Tail(where)
       /\ opened' = [opened EXCEPT ![f] = @ + 1]
       /\ UNCHANGED errors
Include == \E f \in Files, found \in BOOLEAN :
  /\ Read(opened[f] < 2) /\ handle_include(f, found)
  /\ UNCHANGED <<iftop, skip, defns, lex, groups, told, compiled>>

\* LEX_EOF in an included file: back to the line behind the #include.
EndOfInclude ==
  /\ lex = "reading" /\ skip = <<>> /\ inctop # <<>>
  /\ file_info' = save_file_info(file, current_line - saved)
  /\ saved' = inctop[1].line - 1 /\ base' = base + current_line - (inctop[1].line - 1)
  /\ current_line' = inctop[1].line /\ file' = inctop[1].file /\ inctop' = Tail(inctop) /\ incnum' = incnum - 1
  /\ where' = Tail(where)
  /\ UNCHANGED <<iftop, skip, defns, lex, errors, groups, told, opened, lines, compiled>>
\* "Unexpected end of file while skipping".
EndWhileSkipping ==
  /\ lex = "reading" /\ skip # <<>> /\ lex' = "fatal" /\ errors' = TRUE
  /\ UNCHANGED <<iftop, skip, defns, lineVars, current_line, groups, where, told, lines, compiled>>
\* The end of the program: the code is generated, end_new_file() cleans up.
EndOfProgram ==
  /\ lex = "fatal" \/ (lex = "reading" /\ skip = <<>> /\ inctop = <<>>)
  /\ lex' = "done" /\ errors' = (errors \/ iftop # <<>>)
  /\ file_info' = save_file_info(file, current_line - saved)
  /\ iftop' = <<>> /\ skip' = <<>> /\ inctop' = <<>> /\ defns' = free_defines
  /\ UNCHANGED <<incnum, file, current_line, base, saved, groups, where, told, opened, lines, compiled>>
\* A line of the finished program is asked for in an error message, and the next program comes.
Compiled ==
  /\ lex = "done" /\ lex' = "idle" /\ compiled' = compiled + 1 /\ groups' = <<>> /\ told' = <<>> /\ where' = <<>>
  /\ current_line' = 1 /\ base' = 0 /\ saved' = 0 /\ file_info' = <<>> /\ incnum' = 0 /\ file' = "main" /\ lines' = 0 /\ errors' = FALSE /\ opened' = [f \in Files |-> 0]
  /\ UNCHANGED <<iftop, skip, defns, inctop>>

PreInit ==
  /\ iftop = <<>> /\ skip = <<>> /\ defns = Predefines /\ inctop = <<>> /\ incnum = 0 /\ file = "main" /\ current_line = 1
  /\ base = 0 /\ saved = 0 /\ file_info = <<>> /\ lex = "idle" /\ errors = FALSE
  /\ groups = <<>> /\ where = <<>> /\ told = <<>> /\ opened = [f \in Files |-> 0] /\ lines = 0 /\ compiled = 0
PreNext == \/ start_new_file \/ Code \/ Ifdef \/ Ifndef \/ Elif \/ Else \/ Endif \/ Unexpected \/ Define \/ Undef
           \/ SkipCode \/ SkipIf \/ SkipElif \/ SkipElse \/ SkipEndif
           \/ Include \/ EndOfInclude \/ EndWhileSkipping \/ EndOfProgram \/ Compiled
PreSpec == PreInit /\ [][PreNext]_preVars

-----------------------------------------------------------------------------
\* Code is compiled if and only if each conditional around it, across the files it
\* is spread over, has chosen its part: skip_to() leaves nothing out and stops
\* nowhere too early (preprocess.c 86-150, 398-410; lex.c 298-351).
CompiledAsChosen == \A i \in DOMAIN told : told[i].meant

\* The absolute line of a node leads an error message to the file and the line the
\* node was read from, unless the file is included twice: its lines then count on
\* from the first time (lex.c 1121-1154, 385-444; interpret.c 4213-4236).
LinesFound == lex = "done" => \A i \in {j \in DOMAIN told : told[j].at.file \in Files => opened[told[j].at.file] = 1} :
  translate_absolute_line(told[i].abs, file_info) = told[i].at

\* Between programs the table holds what the driver defined and nothing else: no
\* program sees another's macros (lex.c 2579-2601).
NothingLeaks == lex = "idle" => /\ {defns[i].name : i \in DOMAIN defns} = Predefined
                                /\ \A i \in DOMAIN defns : defns[i].exps = 0 /\ defns[i].flags = {"predef"}
                                /\ iftop = <<>> /\ inctop = <<>>

\* "prevent unbridled recursion" (lex.c 91): files are not included deeper than that.
\* Refuted; see the README, section 6.
DepthLimited == Len(inctop) < MAX_INCLUDE_DEPTH
PreprocessorSound == CompiledAsChosen /\ LinesFound /\ NothingLeaks
=============================================================================
