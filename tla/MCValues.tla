------------------------------ MODULE MCValues ------------------------------
(***************************************************************************)
(* Values and texts: the components that work on them share no state and   *)
(* are checked side by side.  part says which of them a behaviour is       *)
(* about; efuns and mappings have their own variables, the others share    *)
(* v1..v8, which are 0 where a part does not use them.                     *)
(***************************************************************************)
EXTENDS EfunCalls, LpcMappings, MCSamples

VARIABLES part, v1, v2, v3, v4, v5, v6, v7, v8

\* Real numbers are multiples of 1/64.
Operators == INSTANCE LpcOperators WITH
    Trials <- OperatorTrials, Scale <- 64, trial <- v1, interpreted <- v2, generated <- v3

Arrays == INSTANCE LpcArrays WITH
    Vars <- {"x", "y"}, Things <- {1}, Blocks <- 1 .. 6, MAX_ARRAY_SIZE <- 3, MaxStatements <- 2,
    heap <- v1, slot <- v2, want <- v3, dead <- v4, job <- v5, lost <- v6, left <- v7

Regexps == INSTANCE Regexp WITH
    Patterns <- MCPatterns, Strings <- MCStrings, Sources <- MCSources, NSUBEXP <- 4, MaxRoom <- 4,
    pat <- v1, str <- v2, r <- v3, found <- v4, new <- v5

Saves == INSTANCE SaveRestore WITH
    Values <- MCFirst, Simple <- MCOther, Later <- MCLater, Names <- <<"x", "y">>,
    Statics <- {}, Damaged <- {}, MAX_SAVE_SVALUE_DEPTH <- 2, MaxSaves <- 2, MaxRestores <- 1,
    vars <- v1, depth <- v2, disk <- v3, job <- v4, kept <- v5, before <- v6, out <- v7, left <- v8

Editor == INSTANCE Ed WITH
    Commands <- MCCommands, Typed <- MCTyped, Files <- MCFiles,
    ED_MAXLINE <- 3, MaxLines <- 4, MaxTyped <- 3,
    buf <- v1, wanted <- v2, clean <- v3, typed <- v4

Indenter == INSTANCE EdIndent WITH
    Programs <- MCTexts, SHIFTWIDTH <- Shift, STACKSZ <- 20,
    todo <- v1, done <- v2, st <- v3, pass <- v4
-----------------------------------------------------------------------------
others == <<v1, v2, v3, v4, v5, v6, v7, v8>>

From6 == v6 = 0 /\ v7 = 0 /\ v8 = 0
From5 == v5 = 0 /\ From6
From4 == v4 = 0 /\ From5

Init ==
    /\ EfunInit
    /\ MapInit
    /\ \/ part \in {"efuns", "mappings"} /\ v1 = 0 /\ v2 = 0 /\ v3 = 0 /\ From4
       \/ part = "operators" /\ Operators!Init /\ From4
       \/ part = "arrays" /\ Arrays!ArraysInit /\ v8 = 0
       \/ part = "regexp" /\ Regexps!RegexpInit /\ From6
       \/ part = "save" /\ Saves!SaveInit
       \/ part = "ed" /\ Editor!EdInit /\ From5
       \/ part = "indent" /\ Indenter!IndentInit /\ From5

Next ==
    \/ part = "efuns" /\ EfunNext /\ UNCHANGED <<part, others, mvars>>
    \/ part = "mappings" /\ MapNext /\ UNCHANGED <<part, others, stackVars>>
    \/ /\ part = "operators" /\ Operators!Next
       /\ UNCHANGED <<part, v4, v5, v6, v7, v8, stackVars, mvars>>
    \/ part = "arrays" /\ Arrays!ArraysNext /\ UNCHANGED <<part, v8, stackVars, mvars>>
    \/ part = "regexp" /\ Regexps!RegexpNext /\ UNCHANGED <<part, v6, v7, v8, stackVars, mvars>>
    \/ part = "save" /\ Saves!SaveNext /\ UNCHANGED <<part, stackVars, mvars>>
    \/ part = "ed" /\ Editor!EdNext /\ UNCHANGED <<part, v5, v6, v7, v8, stackVars, mvars>>
    \/ /\ part = "indent" /\ Indenter!IndentNext
       /\ UNCHANGED <<part, v5, v6, v7, v8, stackVars, mvars>>

Spec == Init /\ [][Next]_<<part, others, stackVars, mvars>>
-----------------------------------------------------------------------------
(***************************************************************************)
(* The properties; EfunsSound and MappingsSound are those of the modules.  *)
(***************************************************************************)
\* Interpreter and generated C code agree on each operator and give up every
\* reference they take exactly once; x op= y does what x = x op y does; and a
\* range takes the elements between its bounds, whatever the bounds.
OperatorsAgree ==
    part = "operators" => Operators!NothingLost /\ Operators!AssignAgrees /\ Operators!SlicesAgree

\* Every array is counted by the variables and stack slots that hold it, and
\* every object by the arrays it is in, whichever path of add_array(),
\* slice_array(), alist_sort() and the efuns with callbacks moved it.
ArraysCounted == part = "arrays" => Arrays!ArraysCounted

\* Every variable holds what LPC says and shares it with whom LPC says: that
\* array operations reuse a block is never seen by another holder.
ArraysAsMeant == part = "arrays" => Arrays!ArraysAsMeant

\* A compiled regular expression finds the first place its pattern matches at,
\* there the preferred match, and what each () matched last; regsub() gives
\* the replacement or fails when it does not fit.
RegexpMeansPattern == part = "regexp" => Regexps!RegexpMeansPattern

\* restore_object() gives back what the last complete save_object() wrote,
\* whatever crashes, full disks and values too deep came between; only a driver
\* that ended with exit(), when that save came after one that was too deep, may
\* have written over it.
RestoreGivesBack == part = "save" => Saves!RestoreGivesBack

\* After any commands, also under g and v, where a command changes the lines
\* still to come, the text in the editor is what the commands make of the file,
\* its ring of lines is whole both ways and the pointer to the current line is
\* in step with its number (ed.h).
EditsAsAsked == part = "ed" => Editor!KeptInStep /\ Editor!EditsAsAsked

\* The I command indents every line as deep as its statement is nested, and a
\* text that is indented stays as it is when it is indented again.
IndentsOnce == part = "indent" => Indenter!IndentMatchesNesting /\ Indenter!IndentedOnce
=============================================================================
