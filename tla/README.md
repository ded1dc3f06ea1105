# MudOS v22pre11 in TLA+

MudOS is an LPmud driver: one process, one thread, that compiles and runs the
LPC programs of a mudlib for the users connected to it.  This directory
specifies the driver - timers and rounds of heart beats, connections, buffers,
sockets, objects, the compiler, the virtual machine, values, the editor, the
allocator -, model-checks it with TLC, and proves with TLAPS that the timers,
the rounds of heart beats, both buffers of a connection, the efun sockets, the
users, the objects and the unwinding of errors are sound for any number of them
and any size.  Paths are relative to the repository; `src/src/` is the driver's
source.

There is no parallelism in the driver, and yet plenty of interleaving: nearly
every driver routine calls LPC code half way through, and that code may call
any efun, fail with an error that jumps back to `backend()`, or destruct the
very object the routine is working for.  Where that matters, a step of a model
is the piece of C code between two such calls, and every call of LPC code is a
point where any sequence of efuns may happen.  The other half of the driver
translates and transforms - text to code, code to values, patterns to matches,
commands to edited text - with state of its own: buffers refilled in the middle
of a line, blocks reused while somebody holds them, branches patched backwards.
There a model runs the code's algorithm beside a plain definition of what it is
for, and the property is that both agree.

The build modelled is the one of `src/src/options.h`: CALLOUT_HANDLES,
THIS_PLAYER_IN_CALL_OUT, PACKAGE_SOCKETS, RECEIVE_SNOOP, SMALLOC, OLD_ED,
MUDLIB_ERROR_HANDLER, shadows, actions and environments on, LAZY_RESETS off.

## 1. Inventory

| component | state | operations | interacts with |
|---|---|---|---|
| delayed calls, `call_out.c` | wheel of 32 delta chains, free list, `unique`, `call_out_time` | `call_out`, `remove_call_out` (by name, by handle, all), `find_call_out`, `call_out()` from the heart beat | runs LPC code, which starts and removes calls; destruction leaves calls pending |
| heart beats, `backend.c` | array `heart_beats[]`, position and end of the round, `current_heart_beat`, alarm flag | `set_heart_beat`, `call_heart_beat`, SIGALRM | runs LPC code; `error_handler()` and `destruct_object()` take entries out |
| backend loop, `backend.c`, `swap.c` | `obj_list`, reset/clean-up/swap times, swap file | select, `process_io`, commands, heart beat, resets, swapping | calls all the others, in this order |
| users, `comm.c` | `all_users[]`, `interactive_t`, `num_user`, `num_hidden`, `NextCmdGiver` | accept, `connect()`, `logon()`, `exec`, `snoop`, `set_hide`, `remove_interactive`, `get_user_command` | master object, `destruct_object()`, LPC commands |
| output, `comm.c` | ring buffer of each user | `add_message`, `add_vmessage`, `flush_message` | network; called from everywhere |
| input, `comm.c` | text buffer, telnet state, CMD_IN_BUF, SINGLE_CHAR | `get_user_data`, `get_user_command`, `get_char`, `input_to` | network, snoopers, LPC |
| efun sockets, `socket_efuns.c` | table `lpc_socks[]`, flags, buffers, descriptors | create, bind, listen, accept, connect, write, close, release, acquire; read and write handlers | select masks, callbacks, `destruct_object()` |
| name server, `addr_server.c`, `comm.c` | table of lookups in progress | `resolve`, `hname_handler` | a second process |
| objects, `simulate.c` | inventory tree, shadows, sentences, living objects | move, destruct, shadow, `add_action`, `enable_commands`, `tell_room`, `say`, `present` | `init()`, `move()`, `valid_shadow()`, `catch_tell()` are LPC code |
| user ids, `packages/uids.c`, `avltree.c` | AVL tree of user ids, uid and euid of objects | loading, `seteuid`, `export_uid`, root and backbone uid | master object, loading of objects |
| errors, `simulate.c`, `interpret.c` | value stack, control stack, registers, error contexts, limits | calls of all kinds, `catch`, `throw`, `error`, `safe_apply` | unwinds all of the above |
| interpreter, `interpret.c`, `eoperators.c`, `cfuns.c` | code, program counter, stack, locals | instructions, operators in two implementations | efuns, compiler |
| efuns, `efuns_main.c` and packages | arguments on the value stack | 218 functions | everything |
| lexer and preprocessor, `lex.c`, `preprocess.c` | linked input buffers, macro table, stacks of conditionals and includes, line accounts | reading, expansion, directives | compiler |
| compiler, `grammar.y.pre`, `trees.c`, `generate.c`, `icode.c`, `compiler.c` | parse tree, branch lists, function tables | tree building, optimizing, code generation, inheritance | interpreter, apply cache |
| values, `array.c`, `mapping.c`, `regexp.c` | reference counts, hash tables, compiled patterns | array and mapping operators, efuns with callbacks, matching | interpreter |
| saving, `object.c` | save file, temporary file, depth | `save_object`, `restore_object`, `*_variable` | file system, crashes |
| editor, `ed.c` | ring of lines, current line, marks | all line commands, `g`/`v`, `s`, `I` | users, files |
| allocator, `smalloc.c` | boundary tags, AVL tree of free blocks, lists of small ones, reserve | malloc, free, realloc | everything |
| parsers, other packages, LPC to C, start-up | see `PROJECT.json` | - | - |

What is hard in each, and the properties that make it correct:

* **Delayed calls.**  A call must run in the second asked for, newest first
  among equals, once, whatever is inserted into or removed from its chain, by
  the calls that run too.  Hard: the laps of a call are a sum of deltas, and
  `call_out_time` lags behind while a slot is served.
* **Heart beats.**  A round must reach each object that stays on the list once,
  while heart beats edit the array the round walks.  Hard: index arithmetic on
  removal, rounds cut by the alarm or by an error, starvation.
* **Users.**  Object, structure and slot must point at each other, counters must
  agree with them, and a connection must be freed once.  Hard: `connect()` and
  `net_dead()` are LPC code in the middle of the bookkeeping.
* **Output and input.**  The byte streams must come through complete and in
  order within bounds.  Hard: wrap-around, partial writes, line ends that grow,
  buffers moved or dropped, type-ahead meeting single character mode.
* **Efun sockets.**  An entry must own its descriptor until it is closed once,
  pending output must be written, and no destructed object may own a socket.
  Hard: callbacks inside close and release, reuse of entries and descriptors
  while select masks are out of date.

* **Objects.**  Environment pointers and inventory lists must describe one
  forest, shadows chains, and nobody may keep a sentence of an object that is
  gone.  Hard: the walks over inventories call LPC code that moves and destructs
  what is walked, and `shadow()` asks LPC code between its checks and its linking.
* **Evaluation.**  After an error everything must be as when the context was
  saved.  Hard: errors while an error is handled, at the limits of both stacks,
  in calls whose arguments are consumed half way.
* **Efuns.**  Each must free each argument once on every path and leave one
  value, or none.  Hard: LPC code called in the middle, which may fail or
  destruct an argument.
* **Compiler.**  The characters must come in order, the code must mean the text,
  and a name must find the function the language says.  Hard: buffers spliced
  and released in use, patched branches, an optimizer that moves last uses,
  tables compressed and cached.
* **Values.**  Nobody may see that a block was reused.  Hard: counts of one,
  operands that are the same block, callbacks between two elements, tables that
  grow under a walk.
* **Saving, editing, matching, allocating.**  What was saved comes back, what was
  typed is done, what the pattern says is found, what is allocated is nobody
  else's.  Hard: crashes, damaged files and streams an error
  leaves open; global commands that change the
  lines to come; captures of failed tries; neighbours' tags.

The hazards are listed one by one, at the line where they bite, in
`PROJECT.json`.

## 2. Modules

```
CallOutTimers   <=  CallOutWheel  <=  CallOut          (<= : is implemented by)
                        CallOutProofs, CallOutChainsProofs
HeartBeat                            BackendProofs, with Evaluation and Preprocessor
OutputQueue     <=  OutputBuffer  \  TerminalProofs
InputLines      <=  InputBuffer   /  MCTerminal
Connections                          ConnectionsProofs
Sockets                              SocketsProofs
Objects                           \  ObjectsProofs
Uids, Allocator                   /  MCWorld
LexInput, LexText, Preprocessor  \
LpcTree -> LpcCode -> LpcMachine   } MCLanguage (MCLexText: its inputs)
Programs, Evaluation             /
EfunStack -> Efuns -> PackageEfuns -> EfunCalls  \
LpcMappings, LpcArrays, LpcOperators              } MCValues (MCSamples: its inputs)
Regexp, SaveRestore, Ed, EdIndent                /
```

`Lemmas` has the facts about numbers that several proof modules use.

`MCWorld`, `MCLanguage` and `MCValues` put components that share no state side by
side: `part` says which one a behaviour is about, and a property of one part says
nothing of the others.  `MCTerminal`, `Preprocessor` and `Evaluation` keep their own
variables, initial states and next-state relations (`InputNext`, `EvaluationNext`,
...); the other parts of `MCLanguage` and `MCValues` share a set of variables and
are instantiated with them.  A theorem about a part is about its own
specification (`InputSpec`, `EvaluationSpec`): the run takes steps of just that
relation while `part` names it.

Variables and actions keep the names of the source where they have one there;
`map` in `PROJECT.json` gives the lines for each definition.  Every module with
LPC code in the middle of an operation has either a program counter (`pc`) or a
`stack` of calls under way.

### CallOutTimers, CallOutWheel, CallOut
`CallOutTimers` is the promise: a set of pending calls with the second each is
due, a clock that does not pass a second before its calls are made.
`CallOutWheel` keeps slot and laps for each call, and the position of the wheel,
as `call_out.c` does, but a chain is a set.  `CallOut` has the chains: `Insert`
and `Unlink` are the loops over deltas in `new_call_out()` and
`remove_call_out()`, `call_list_free` and `num_call` the free list, handles as
in the source.  `call_out()` is cut into `CallOutBegin`, `VisitSlot`,
`TakeFirst`, `CallbackReturns`, `LeaveSlot`, `CallOutEnd`; LPC code runs outside
and in the callback.  `TimePasses` is the clock read by `call_heart_beat()`.
Arguments, `this_player()` and the error message are left out.  An LPC error in
a call ends like its return: both free the call and go on with the chain.

### HeartBeat
The array with ticks and periods (shorts, with their wrap-around), the round as
`call_heart_beat` / `ReachEntry` / `BeatReturns` / `CutRound`, and
`set_heart_beat()` and `destruct_object()` from outside and from within a heart
beat.  `BeatFails` is `error_handler()`: the heart beat is turned off, and the
round is abandoned with its indices as they are.  `waiting` and `reached` are
history variables.

### OutputQueue, OutputBuffer
`OutputQueue` is a bounded FIFO that takes line ends as CR LF or not at all.
`OutputBuffer` is the ring of `comm.c`, byte by byte as in `add_message()`, with
`flush_message()` called in the middle, and `send()` (external) free to take
any part, to block or to fail.

### InputLines, InputBuffer
`InputLines`: typed bytes become lines, handed over one at a time.
`InputBuffer`: `text[]` with `text_start` and `text_end`, the division of the
space by three, moving and dropping of the buffer, `CMD_IN_BUF`, single
character mode, erase characters, telnet and ascii ports.  A telnet negotiation
is one byte that leaves no text.  The refinement cuts the text behind `text_start`
at its NULs: `Cut` is what the pieces in front of them become once `telnet_neg()`
has applied their backspaces, and what is behind the last one, erased the same
way, is the line being typed (`Piece`).

### Connections
`all_users[]`, `interactive` of every object, the structure of every
connection, counters and snoops.  `stack` holds `connect()`, `net_dead()` and
other LPC calls; while it is not empty, `exec`, `snoop`, `set_hide`,
`remove_interactive` and `destruct` may be called for any object.  The master
object can be destructed and is then replaced (`Masters`).
The constant `Careful` keeps the mudlib away from calls after which the
structures are wrong (section 6).

### Sockets
The table with states and flags, the descriptors the system has given out, the
masks, and `process_io()`'s loop as `at` and `half`.  Socket efuns may be called
by any object whenever LPC code runs, also between `select()` and the loop, where
new users and the input of old ones are seen to.  `socket_close()` with a callback,
`socket_release()` and `destruct_object()` are each two steps with LPC code in
between.  The constant `Precautions` names three things the mudlib keeps away
from (section 6).

### Objects
`super`, `contains`, the shadow pointers and the sentences of every object, and a
`stack` of `move_object()`, `destruct_object()`, `shadow()`, `tell_room()`, `say()`
and `present()` calls under way, each with what it has read ahead (`next`).  While
LPC code runs - outside, or in `init()`, `move()`, `valid_shadow()`,
`catch_tell()`, `id()` - any efun may be called for any object.  `shadow()` is two
steps: `f_shadow` makes the checks of `validate_shadowing()` and calls
`valid_shadow()`; `ShadowApproved` links the shadow to the chain as it is then,
having looked only whether the two objects are destructed, `ShadowRefused` does not.
`irregular` is a history variable: objects whose sentences the code does not promise
to remove.  The constant `Careful` keeps out approvals that break the chains
(section 6).

### Uids, Allocator
`Uids` has `avltree.c` as functions on trees, with `balance` as the code keeps it,
and the efuns and driver calls that give uids.  `Allocator` has `smalloc.c` on a
memory of words with sizes and the two tags; the AVL tree of free blocks is kept
apart from the blocks.  Requests of both kinds, `realloc`, and the reserve freed
when `sbrk()` (external) fails.

### LexInput, LexText, Preprocessor
`LexInput` reads files through the linked buffers of `lex.c`: `refill_buffer()`,
`handle_include()`, `add_input()`, and the way back at the end of a file or of an
expansion; a character is a number, a directive one character.  `LexText` has the
transformations of text: `cond_get_exp()`, `expand_define()`, text and array
blocks, `merge()` of include paths.  `Preprocessor` has the state that lasts over
lines: conditionals, macros, included files, `file_info` for the line numbers of
errors; each line is chosen when it is read.

### LpcTree, LpcCode, LpcMachine
A function's text is a nested tuple.  `LpcTree` builds the tree the grammar's
actions build and optimizes it as `generate.c` does; `LpcCode` generates code as
`icode.c` does, with forward branch chains, break and continue lists, merged
pushes; `LpcMachine` runs it instruction by instruction as `eval_instruction()`
and keeps a log of the calls made.  `Meaning` is the text's own semantics.

### Programs
Files that inherit each other are compiled in any order and again: function
tables with overloads, `compress_function_tables()`, `find_function_by_name2()`,
`::name`, and `apply_low()` with its cache of program ids.  `Winner` says which
definition a name means.

### Evaluation
Both stacks as heights and frames, the registers a frame saves, error contexts
and the C activations that hold them: `apply`, local calls, simul efuns,
function pointers, `catch`, `safe_apply`, `command()`, errors, `throw`, the
master's `error_handler()`, too deep recursion, evaluation cost exceeded.

### LpcOperators
Every operator twice, as `interpret.c`/`eoperators.c` and as `cfuns.c` do it, with
the fate of each operand's reference.

### EfunStack, Efuns, PackageEfuns, EfunCalls
`Efuns` and `PackageEfuns` give for each efun the set of ways through its C
function as sequences of stack operations (free, put, push, pop, move, call LPC
code, may fail).  `EfunStack` runs them on slots that own references; LPC code
overwrites what lies above `sp`, and destructs any object argument.  `EfunCalls`
has the declarations of `func_spec.c` and the argument checks, and calls each
efun with every combination of kinds that passes.

### LpcArrays, LpcMappings
Blocks and buckets with their counts, against `want`/`wanted`, what the variables
hold by the language's definition.  `filter`, `map`, `unique_array`, `sort_array`
and `filter_mapping` run one callback a step; in between the other statements go on.

### Regexp, SaveRestore, Ed, EdIndent
`Regexp`: compiler, matcher with backtracking, substitution, against the ways a
pattern's tree matches.  `SaveRestore`: values to text and back in two passes,
the temporary file and its renaming, `Crash` at any moment, damaged text.  A value
too deep leaves the stream open with the lines in its buffer (`disk.open`); a later
save renames the file under it, and `Exit` (shutdown(), whose exit() writes the
buffers) puts them over its beginning: `kept.spilt` marks a save file that this
happened to, and `RestoreGivesBack` is about the others.  `Ed`:
the ring of lines and all commands that change it, against the same commands on
sequences.  `EdIndent`: the operator-precedence indenter over tokens.

## 3. Runs

| run | checks | instance | result |
|---|---|---|---|
| `call_out_chains` | `ChainsSound`, `CallsConserved`, `WheelImplemented` | wheel of 2, 3 calls, 2 objects, delays 0 and 3, 3 seconds; late insertions included; objects symmetric | holds |
| `call_out_wheel` | `WheelInv`, `TimersImplemented`, `DueCallsLeave` | wheel of 3, 3 calls, delays below, at and above a turn; time steps 1 and 2; fair | holds without late insertions |
| `heart_beat` | `RoundSound`, `NoneTwiceNoneMissed`, `TurnsUnlessCut` | 3 objects, one without heart_beat(); periods -1, 0, 2; shorts of -3..2; fair | holds |
| `terminal` | `OutputWhole`, `QueueImplemented`, `OutputDelivered`; `InputSound`, `LinesImplemented`, `CharsConserved` | ring of 3 bytes, 3 messages with line ends at every place, fair; input buffer of 16, up to 14 bytes in reads of 1 to 5, get_char() at any time, snoop errors, both ports | holds |
| `connections` | `LinksSound`, `ClosedProperly`, `NoneServedTwice` | 2 users, 2 master copies, 3 structures and slots; structures and masters symmetric | holds |
| `sockets` | `TableSound`, `WillBeWritten`, `OwnersAlive` | 2 objects, 2 entries, 2 descriptors, both modes, nesting 2; objects symmetric | holds |
| `world` | `TreesSound`, `SentencesNear`; `UidsSound`; `HeapSound` | 3 objects, nesting 2; 5 names; memory of 27 words, 3 blocks held | holds |
| `language` | `LexedInOrder`, `TextMeansWhatItSays`, `PreprocessorSound`, `CodeMeansText`, `ProgramsSound`, `EvaluationSound` | files of `MCLanguage` in 4 levels of include; conditions, macros and blocks of `MCLexText`; 2 files of 5 lines; functions of `MCLanguage`; 4 files, 4 compilations; stacks of 3 | holds |
| `values` | `EfunsSound`, `MappingsSound`, `OperatorsAgree`, `ArraysCounted`, `ArraysAsMeant`, `RegexpMeansPattern`, `RestoreGivesBack`, `EditsAsAsked`, `IndentsOnce` | every efun with every kind of argument but the `Excluded`; 2 mappings, 3 keys; every operator on every pair of values; 2 array variables, 2 statements with callbacks; patterns, values, commands and programs of the `MC` modules | holds |
| `call_out_late` | `TimersImplemented` of the chains | wheel of 4, late insertions | **violated** |
| `sockets_acquired` | `OwnersAlive` | acquirers without sockets of their own | **violated** |
| `return_in_catch` | `ReturnLeavesCatch` | functions that return inside catch | **violated** |

What the violated ones show:

* `call_out_late`: a call out that starts a call for the slot being served (a
  delay of one turn of the wheel when the wheel has caught up) makes it run
  CALLOUT_CYCLE_SIZE seconds late.  `new_call_out()` counts laps from
  `call_out_time`, which moves only when the slot is done (call_out.c:126, 178).
* `sockets_acquired`: `socket_acquire()` does not set O_EFUN_SOCKET, by which
  `destruct_object()` decides whether to look for sockets; the socket stays open
  with `owner_ob` pointing to a destructed object.
* `return_in_catch`: the compiler refuses `break` and `continue` inside a catch
  but not `return`, which pops the frame of the catch and leaves the function's.

### Bounds, and why they are enough
*Wheel:* the interesting relations are a delay below, equal to and above a turn,
and a wheel that has to catch up by several slots; wheels of 2 to 4 slots and
time steps of 1 and 2 give them all, and the proof covers every size.  Three
calls make chains with a first, a middle and a last entry.
*Heart beats:* removal before, at and behind the position needs three objects;
the short of 6 values makes periods wrap.
*Output:* a ring of 3 is the smallest in which a line end can wrap, fill the ring
and fail to fit; messages exceed it.
*Input:* with 16 bytes `MAX_TEXT/16` is 1 and a read of 5 fills the buffer; 14
bytes let the buffer be moved and dropped with a partial line in it.
`InputAssumption` demands a `MAX_TEXT` that 3 does not divide, as 2048: the
space after a flush is `MAX_TEXT/3`, which otherwise leaves no room for the NUL.
*Connections:* three structures allow a snooper in the middle of a chain, and
passing one user while serving another; nesting is bounded by the structures,
as each may be in `net_dead()` once.
*Sockets:* two entries and two descriptors are enough for every way of reusing
one of the two without the other; nesting 2 allows a callback with a release,
close or destruction in it.
*Objects:* three objects make a mover, a place and a bystander, a chain of two
shadows with its object, a container two deep; nesting 2 puts a whole move,
destruction or `shadow()` into the middle of another.
*Uids:* five names give every rotation of the tree.
*Allocator:* 27 words hold two chunks and a rest, so that blocks are split,
joined on one side, on both and not at all, and `sbrk()` fails.
*Lexer:* lines of 5 characters and buffers of 22 make every file cross a refill
and every expansion either fit in front of the text or need its own buffer.  Up to
three lines and a rest of up to eight characters, quotes and backslashes among both,
let the chunks of 12 end at every place of a block and of what follows it.
*Code:* each test of `MCLanguage` is used as a statement, a branch, a value and an
argument, each loop with each body; `MaxLog` calls end a function that loops.
*Evaluation:* stacks of 3 are full after one call with an argument inside a
catch, so every limit is met at every place.
*Programs:* four files have diamonds, two levels of `::` and a file compiled
again under objects that keep the old one; 2 cache entries collide.
*Arrays, mappings:* blocks of up to 3 elements and 2 statements with their
callbacks; tables of 2 that grow to 4 and then may not.
*Saving:* two variables, set between the saves at will, two saves and one restore:
enough for one that is too deep, a good one and a restore of what exit() left.  A
save fits the buffer of its stream, and the line with the program's name, the same
in all saves of an object, is left out.
`MaxCallOuts`, `MaxTime`, `MaxMessages`, `bytes`, `MaxDepth`, `Slots`,
`Descriptors`, `MaxLoads`, `Memory`, `MaxLive`, `MaxLines`, `MaxCompiles`,
`MaxLog`, `MaxStatements`, `MaxSaves`, `MaxRestores`, `MaxTyped` are the bounds;
all others are parameters of the program, made small.

Deadlock is checked except where the bounds on inputs let a run end (`terminal`,
`world`, `language`, `values`) and where all master copies or structures are
used up (`connections`).

### Fairness
* `CallOutWheel!FairSpec`: `call_out()` runs at every heart beat, its steps and
  the LPC calls it makes end (the evaluation limit), and the clock goes on.  The
  clock needs strong fairness because it is read only between two runs.
* `HeartBeat!FairSpec`: an armed alarm goes off, `backend()` then starts a round,
  each heart beat ends.  `TurnsUnlessCut` assumes in its own premise that rounds
  are eventually not cut; without it a slow heart beat starves the objects behind
  it (section 6).
* `OutputBuffer!FairSpec`, repeated in `MCTerminal!MCSpec`: the driver's own steps,
  and strong fairness for a `send()` that takes something: the property is about
  clients that read.

## 4. Proofs

A run shows a property for an instance; the theorems below show it for every value
of the constants: any number of objects, users, calls and sockets, any size of the
wheel, the ring and the table, any depth of nested calls.

| module | theorem | states | under |
|---|---|---|---|
| `CallOutProofs` | `WheelInvariant` | `[]WheelInv` | - |
| | `WheelImplementsTimers` | `TimersImplemented` of the wheel | `~LateInserts` |
| `CallOutChainsProofs` | `ChainsInvariant`, `ChainsAlwaysSound` | `[]ChainsInv`, `[]ChainsSound` | - |
| | `NoCallLeaks` | `[]CallsConserved` | - |
| | `ChainsImplementWheel` | `WheelImplemented` | - |
| | `TimersKept` | `TimersImplemented` of the chains | `~LateInserts` |
| `BackendProofs` | `RoundsSound` | `[]RoundSound` | - |
| | `RoundsComplete` | `NoneTwiceNoneMissed` | - |
| | `EvaluationsSound` | `[]EvaluationSound` | - |
| | `PreprocessorIsSound` | `[]PreprocessorSound` | - |
| `TerminalProofs` | `RingIsQueue` | `QueueImplemented` | - |
| | `OutputAlwaysWhole` | `[]OutputWhole` | - |
| | `InputsSound` | `[]InputSound` | - |
| | `CharsNotLost` | `[]CharsConserved` | - |
| | `LinesHandedOver` | `LinesImplemented` | - |
| `SocketsProofs` | `NothingForgotten` | `[]WillBeWritten` | - |
| | `TableAlwaysSound`, `OwnersAlwaysAlive` | `[]TableSound`, `[]OwnersAlive` | all three `Precautions` |
| `ConnectionsProofs` | `LinksAlwaysSound`, `AlwaysClosedProperly` | `[]LinksSound`, `[]ClosedProperly` | `Careful`, and only users hide |
| | `TurnsAreFair` | `NoneServedTwice` | the same |
| `ObjectsProofs` | `TreesAlwaysSound` | `[]TreesSound` | `Careful` |
| | `SentencesAlwaysNear` | `[]SentencesNear` | `Careful` |

The conditions in the last column are restrictions of the mudlib, not of the driver.
Each is needed: section 6 says what the code does without it.  They are the ones
under which the passing runs check the properties, so the conditions can be met.
`FlagMeansCommand` (in `InputSound`), `CharsConserved` and `LinesImplemented` name in
their own premises the connections they are about (line mode, no erase characters).

What is assumed of the constants is in the `ASSUME` of each module, and TLC evaluates
it in that module's run: sizes are positive (the ring holds two bytes, or no line
end would ever fit); null pointers and `NoCall` are not objects or structures;
delays are integers, also negative ones, which the code raises to 1; line feed
and carriage return are not text, and the bytes of a line end, the erase character and those of
text are told apart; `MAX_TEXT` is at least 16 and not a multiple of 3; numbers of
arguments are naturals; there are finitely many objects with heart beats and
finitely many connections, as both are counted; the driver defines finitely many
macros, and no file that is included has the name "main" that stands for the
program's own.  No proof uses a bound
such as `MaxTime` or `MaxDepth` for more than its type.

Each module follows one pattern: an inductive invariant, `Init => Inv`, one lemma per
action or group of actions for `Inv /\ [Next]_vars => Inv'`, and the theorems
from it.  Why the properties are not inductive as they stand, and what was added:

*The wheel.*  The refinement maps a call to the second
`DueAt = FirstVisit(slot) + CYCLE * (laps - 1)`.  That a visit does not change `DueAt`
of the calls it leaves, and that the calls with no lap left are exactly those due
now, needs `ClockBehind` (the wheel is not ahead of the time, and behind while a
slot is served), `IdsUnique` (so that the newest call is one) and `NoneOverdue` (a
call without laps sits in the slot being served, nowhere else).  `~LateInserts` is
used in the step of `NewCallOut` only: there the image is due one turn later than
asked for.

*The chains.*  `ChainsInv` says of every chain that handles are unique and belong to
the slot, that a call has a lap to go unless its slot is being served (`Waiting`),
that the wheel runs behind the clock (`Timely`), and that the places of calls are
finitely many and with the free ones are all that were allocated (`Counted`).  The
laps of a call are a sum of deltas along the chain, defined by recursion.  `SumsExist` shows that such a sum exists, `LapsAlong` that it
does not fall along the chain.  `InsertAt` and `UnlinkKeeps` follow the loops of
`new_call_out()` and `remove_call_out()`: the new call gets the laps asked for, the
others keep theirs, since the delta at the place of the cut is split or handed on.
Removing all calls of an object takes any number out at once; `Keeps` describes the
result by what it keeps in which order, and a finite set of places can be listed in
order (`CanBeListed`).  The map from chains to the wheel forgets the order, so that
`DueInFront` and `FirstWaitsLeast` show that the first call of a chain is the one
the wheel would run.  `TimersKept` composes the two refinements: `CallOutProofs` is
instantiated with the wheel that the chains implement.

*Heart beats.*  `RoundSound` is inductive once it says `num_hb_to_do <= num_hb_objs`
between rounds too: a round may be cut and a heart beat turned off before the next.
The lemmas are about taking an entry out of the array (`WithoutProperties`,
`TurnedOff`): the objects behind it move up by one, and so must the position and the
end of the round, each only if the entry was in front of it.

*The output ring.*  `add_message()` checks for room, may flush in the middle, and then
writes without checking again.  `WriteReadied` keeps what was checked across the
flush: there is a byte to write and room for it.  The refinement maps ring and
indices to the sequence of bytes between them; `ByteAdded`, `TwoAdded` and
`BytesTaken` are its arithmetic modulo the size.  The order of carriage return and
line feed in everything sent and waiting follows from what each write adds.

*The input buffer.*  `InputInv` adds four facts to `InputSound`.  `Full`: a set
`CMD_IN_BUF` means that there is a whole command or that the buffer no longer
begins at its start.  `first_cmd_in_buf()` cuts a line in two when it fills the
buffer, and this is what shows that it never does so in line mode: the flag is
only up with a command in the buffer, so that a partial line that has the flag
has been preceded by a command and is shorter than the buffer.  `Neat`, for
connections that erase nothing: each backspace in the text follows the blank of
its line end, so that `telnet_neg()` takes back no character; with it,
`kept = Handed + Waiting` says that the characters in commands and in the buffer
are those kept.  `kept >= Waiting` makes the difference a natural number, and in
line mode nobody sets `SINGLE_CHAR`.  `Held` and `Count` count positions by
cardinality; `HeldSplit`, `HeldMoved` and `CountConcat` are their arithmetic,
`CopyCounts` and `NegCounts` what copying and erasing do to the number.

For the refinement, buffer and abstract queue are compared through
`View = Cut` and `telnet_neg(Piece)`.  Three facts carry it: appending what
`copy_chars()` makes of a byte changes the view as `Typed` says (`ViewTyped`; a line
end becomes blank, backspace and NUL, of which the first two cancel); moving the
text keeps the view, and dropping it happens only without whole lines in it, when
the abstract queue may drop its partial line too (`RoomView`); taking a command
takes the head of `Cut` and leaves its tail (`CutCommand`, `TakeLine`).  The
functions defined by recursion along the text are shown to exist (`CutIs`, `NegIs`,
`CopyIs`), and compared by induction on the position.

*Evaluation.*  `EvaluationSound` speaks only of the step at which a call ends; the
invariant has to say all the time what makes it come out.  `Kept`: the registers of
every C function that waits for LPC code are in the frame just above its own, or
are the current ones.  That is why `restore_context()` may pop a single frame
whatever the depth of the error.  `HasContext`: an error context holds the heights
its activation had when it was entered, with the arguments of `safe_apply()` on top.
`FramesCounted` and `InCode`: each activation has the number of frames its kind has, two
for a function pointer, and `fp` points just above what it should find again, so
that `F_RETURN` leaves one value and nothing else.  `Giver`: only
`parse_command()` has a command giver to put back.  `Resumes`: all but the error
handler were called by running code; the handler may be called half way through
a call, and is exempt, because `error()` ends in `longjmp()` and never goes on
there.  The lemmas follow the primitives (`FramePushed`, `Popped`,
`ActOpened`, `Closed`, `CutBack`), and each action composes them.  The depth of the control stack and
the bound of the value stack are arbitrary.

*The preprocessor.*  `CompiledAsChosen` and `LinesFound` speak of what has been compiled,
`NothingLeaks` of the moments between programs; `PreInv` says what holds on the way.
`Table`: the chain of macros ends with the driver's own, as they were made at the
start, and what stands in front of them is the program's, never "predef" and never
of a driver's name; so `free_defines()`, which drops all that is not "predef",
leaves just those.  A `#define` or `#undef` of a driver's macro is refused, as the
place `lookup_definition()` finds for any other name is in front (`OwnPlace`).
`Conditionals`: `iftop` holds one state for each group of conditionals being read,
all of which have chosen their part; while `skip_to()` skips, `nest` more groups have
been opened inside the text skipped, the state on top of `iftop` tells whether the
group has had its turn, and an `#else` is looked for exactly if it has not.
`Accounts`: `base` and `saved` together are the lines accounted for in `file_info`;
a file that is included once has as many of them as have been read of it, whatever
was included in between (`Balance`); and every node compiled is in an entry or
behind all of them (`Placed`).  The accounts are summed by a function (`LinesUpTo`),
shown to exist (`SumExists`) and to grow entry by entry (`SumGrows`), so that the entry
at which `translate_absolute_line()` stops is the one the node is in
(`TranslateFinds`).  Files included twice are outside `Singles`, and so outside
the promise, as in the property.

*Sockets.*  `AnyMudlib` holds whatever the mudlib does: the types of the frames, that
data left to write is polled for, and that a release under way has its entry.  The
rest is `CarefulMudlib`: `DescriptorsSound` and `OwnersAlive` need `CallsSound`, that
a `socket_close()` in its callback still has the entry and descriptor it will
close, and that of an object being destructed no socket is left.

*Users.*  Cardinalities are awkward for the provers and are replaced by injections:
`Links` has one slot for a connection in place of a count, `Closings` one `net_dead()`
call for a connection being closed; the counts are derived at the end from the
finite sets (`UsersFit`, `CallsFit`).  `CallsNested` and `FreshMasters` say who may be
interactive while which calls are under way.  A chain of snoops has no circle:
`Snooped` is the least set closed under the pointers, and `SnoopsCut` and
`SnoopsLinked` show how it changes when a link is cut or added.  `ServedBehind` turns
the action property about turns into a fact about states: whoever was served while
a user waits now comes after that user.

*Objects.*  That there is no circle of environments or shadows is stated by sets:
every non-empty group of objects has a member whose pointer leads out of it.  Moving
an item keeps this because `move_object()` refuses a destination inside the item
(`NotInside`, `ForestMoved`).  The pointers are followed by recursive functions
(`FirstShadow`, `Shadowed`, `Inside`), which are shown to exist by closed sets
(`EndExists`, `InsideExists`).  Added to the properties are: `Ends(shadowed)`, as the
first shadow is looked for in the other direction; that an object being destructed
has no shadow left, without which the pointers to it would dangle once it is gone,
and for which `Careful` is needed; `KnowsWhom`, that a call waiting for LPC code has
read an object and not a null pointer before, and that nobody asks to shadow itself; and `Regular`, that whoever was given a
sentence in the regular way is living and somewhere until it is destructed - only
such users are looked at when sentences are removed.  `PartedFrom` and
`SentencesLeft` then show that those `remove_sent()` passes over are near still.

Induction is proved where it is needed: `NatInd` and `LeastNat` (in `Lemmas`) are
stated for sets and follow from the well-foundedness of the naturals.

*Only model-checked:*

* Liveness (`DueCallsLeave`, `TurnsUnlessCut`, `OutputDelivered`), which is out of the
  prover's reach, as is `ENABLED`.
* The agreement of an algorithm with what it is for: `UidsSound` and `HeapSound`
  (AVL trees), `TextMeansWhatItSays`, `CodeMeansText`, `ProgramsSound`, `ArraysCounted`, `ArraysAsMeant`, `RegexpMeansPattern`,
  `RestoreGivesBack`, `IndentsOnce`.  Both sides are recursive over nested data and are
  written with recursive operators, which the prover does not take; what they
  compute for every input would need induction over that data.
* `LexedInOrder`: what the files mean is a recursion over files that include each
  other, and the lexer is compared with it only at the end.
* `OperatorsAgree` needs bitwise operators, which the prover does not take either.
* `EfunsSound` and `EditsAsAsked`: a table of over two hundred efuns, and of all
  commands of the editor, each with its own few ways through the code.  TLC
  goes through every entry; a proof would be the same enumeration.
* `MappingsSound`: two accounts of up to three mappings in buckets, compared through
  folds over the whole table.

## 5. What the mutants are

Each property has a mutant: an operator next to the definition it mutates,
named in its comment, with a plausible mistake (a delta that is not handed on, a
flag that is not set, an index that does not move, a wrap-around forgotten).  TLC
finds the property violated with it.

## 6. Observations outside the runs

### Statements of the repository that the models refute
Each of these properties is stated in its module, and TLC finds it violated when
it is checked there with the constants given; they are not among the runs.

| property | what the repository says | what the code does |
|---|---|---|
| `Objects!ToldAreInside` | tell_room() "sends a string to all objects inside of a specific object" (simulate.c:1230) | the walk follows `next_inv` of an object that `catch_tell()` has moved into another room (simulate.c:1264) |
| `Uids!UidNotNull` | "UID is a null pointer" is an assertion (packages/uids.c:75) | an object loaded from the backbone takes the loader's euid for its uid, and that is null after `seteuid(0)` (simulate.c:192) |
| `Preprocessor!DepthLimited` | MAX_INCLUDE_DEPTH: "prevent unbridled recursion" (lex.c:91) | `++incnum` is compared for equality and never counted down (lex.c:385-444): includes deeper than that pass once the count is past it |
| `Evaluation!NeverPopsNegative`, with `StackSize = 4` | `pop_n_elems()` asserts that it is never asked for less than none (interpret.c:987) | `restore_context()` may find the stack lower than it saved it (interpret.c:5367) |
| `Programs!CacheMeansMissing` | an entry without a program means that the function is not there (interpret.c:3715, 3758-3760) | it also stands for a function the caller may not call (interpret.c:3822-3830) |
| `Programs!NomaskHolds`, `Programs!PrivateStaysPrivate`, with a = D f NO_MASK or PRIVATE, b inheriting a with or without its own f, c inheriting b | "not redefineable", "Can't be inherited" (program.h:64-65) | the checks look at one level of inheritance (compiler.c:711-718, 760) |
| `SaveRestore!DepthLimitPreventsCrashes` | "this limit prevents crashes from occuring when saving objects" (options.h:716-718) | the error leaves `save_svalue_depth` as it is, and the next restore indexes `sizes` with it (object.c:65) |
| `SaveRestore!RestoreAlwaysGivesBack` | "Several bugfixes to restore/save_object; they should work correctly again" (ChangeLog:1796-1797) | the error leaves `save_object()` without closing the temporary file (object.c:15-17, 65-67, 1300-1307); the next good save reopens that file and renames it, and exit() writes the old lines from the stream's buffer over its beginning: old values come back, or a torn line is a restore error |
| `SaveRestore!DamageLeavesUntouched` | "restore_object now leaves the affected variable untouched" (ChangeLog:1342-1344) | a mapping whose size cannot be counted is no error, and the variable is overwritten (object.c:594) |
| `Ed!UnchangedMeansSaved` | "You can't quit this way if there are any unsaved changes" (ed.c:2481) | writing a part of the text, a failed write and a failed substitution leave or clear the mark wrongly |
| `EfunCalls!DestructedLeftAlone`, with `Careful = {}` | "They might have been destructed" (f_exec) | `shadow`, `snoop`, `reload_object`, `bind`, `all_inventory` and `deep_inventory` go on with the object |
| `HeartBeat`: objects get their turn although rounds are cut | objects are moved "to the end of the heart beat list before we call its function" (backend.c:342-344) | each round starts at the first entry (backend.c:409) |
| `Connections!NoneServedTwice`, which holds for all users | "CmdsGiven is used to allow users in ED to send more cmds (if they have them queued up) than users not in ED" (comm.c:1437-1438) | there is no `CmdsGiven`: `get_user_command()` gives everybody one command a turn and does not look for ed (comm.c:1446-1512) |
| `Objects!TreesSound`, with `Careful = FALSE` | "The shadow must not reside inside another object", "Already shadowing", "Can't shadow when shadowed" (interpret.c:213-219) | these are looked at before `valid_shadow()` runs and not again: one that moves the shadow, or lets it shadow or be shadowed, and approves, breaks the chains; a shadow that shadows once more from there may become its own (efuns_main.c:2940-2952) |
| `Connections!CountsAgree`, with `Hiders = {a, m1}`, one master | num_hidden "must be kept up to date at all times" (comm.c:57-61) | new_user_handler() passes through a hidden master uncounted (comm.c:1049) |
| `LexText!RestAsWritten` | "put back trailing portion after terminator" (lex.c:551, 688), "go back and unprotect \" and \\" (lex.c:690) | `get_array_block()` puts the rest of the terminator's line back without unprotecting it: `@@END` ... `END, "x")` goes on as `, \"x\")`.  `get_text_block()` unprotects chunk by chunk: a backslash cut from what it protects by the end of a chunk loses its meaning, is lost with it, or lets the loop run past the chunk (lex.c:692-700) |
| `LpcMachine!CodeMeansText`, with the functions `MCUndead` of `MCLanguage`: a last use of a variable in the second operand of `&&`, `\|\|`, or in `catch` | "change the last use to a transfer if safe" (generate.c:13-25) | those nodes do not count as conditional, so the value is moved out although it may be used again |

### Further observations, by component
*Excluded efuns (`EfunCalls`, `Excluded`).*  `link()` frees neither string;
`write_buffer()` frees a buffer as a string; a refused `input_to()` or `get_char()`
loses the extra arguments; `find_object()` and `next_inventory()` free the argument
before `valid_hide()` runs; `stat()` reads above `sp` after an apply; `objects()` with
two, `ed()` with four, `terminal_colour()` with three arguments and `map()` of a
string with a wrong third one do not check what they take.

*Objects.*  `add_action()` between two objects without environment passes the
nearness test, and its sentences are never removed; `shadow()` of an object being
destructed leaves a dangling pointer; the contents of a container that
destructs itself in `move()` stay; `say()` and `present()` may follow a null
environment (simulate.c:796, 1209).

*Compiler and machine.*  A `switch` with only a default has an empty table; equal
single labels are not reported (compiler.c:2230); branch offsets are signed shorts;
`case_compare` subtracts; a foreach counts in a short.  A last line that is a
directive without newline overwrites the end of file (lex.c:969); nested
expansions may overflow the second buffer; `abs_line` is a short.

*Operators.*  `*=` of mappings pushes a null pointer; `c_lt` compares the wrong slots
for strings; generated code lacks the checks for zero bytes in strings; a prefix
increment of a real increments the number; indexing a buffer may read one past it;
`&` takes arrays and `&=` does not.

*Values.*  An error between taking a bucket and filling it leaves `unfilled` too low;
`filter_mapping()` walks the table across callbacks; sort_array()'s copy is not on
the stack and leaks when the callback fails; the intersection of a block with itself
leaks it; array counts are unsigned shorts; alist_cmp() subtracts.

*Saving.*  A carriage return comes back as a newline; `save_object()` answers 1 after
a failed write; two variables of one name collide; every save that is too deep leaves
a stream open, and with it a descriptor, until the driver ends.

*Editor.*  `c` under `g` deletes and then fails; `0i` inserts at the end; marks are not
adjusted; the current line is out of step in an empty file, and `m0` then loses text.
The indenter misplaces the `while` of a `do` that is a body without braces.

*Allocator.*  A remainder too small to be free stays allocated; with 8-byte pointers
the entries of `sfltable` would overlap: the model has one word per pointer.

*Evaluation.*  `safe_apply()` leaves its arguments on the stack after an error although
its comment says they are always removed; an error in the error handler makes a
pending uncatchable error catchable.

*Excluded by `Careful` (Connections).*  Each of these makes `LinksAgree` fail:
an error in `connect()`, which leaves the connection on the master object, where
the next connection overwrites it (comm.c:1033); `connect()` returning an object
that is interactive already, or the master itself (comm.c:1051); `exec()` of a
user from its own `net_dead()`, after which `remove_interactive()` clears the old
object's pointer only (comm.c:1676, 2289); `exec()` to the master object followed
by a new connection.

*Excluded by `Precautions` (Sockets).*  `"close"`: a close callback that closes
its socket or destructs its owner.  `socket_close()` goes on after the callback
and closes the descriptor again, which may by then belong to another socket
(socket_efuns.c:990-1005): `DescriptorsSound` fails.  `"alive"`: an object that
opens a socket after `destruct_object()` has closed its sockets
(simulate.c:909, before the LPC calls at 988), or later, its code still running:
`OwnersAlive` fails.  `"acquire"`: the violated run above.

*Select masks.*  The masks name descriptors, and a callback may close a socket
further on in the table and open one that gets its descriptor.  The new socket is
then taken for readable and, being UNBOUND, closed with a message;
ChangeLog.beta:900-902 says of that message: "This shouldn't ever happen, but
evidentally does".

*Excluded by `Careful` (Objects).*  A `valid_shadow()` that approves although the
shadow no longer stands alone (`StandsAlone`): it was moved, or shadows, or is
shadowed, by what was called from there; or although one of the two objects is just
being destructed, further down the stack.  `ShadowsSound` then fails in a few steps.

*Input.*  After IAC BREAK, IP, AYT or AO the telnet state stays TS_IAC and the next
byte is taken for a command (comm.c:704).  Text typed ahead before `get_char()` is returned only once more
arrives, as only `get_user_data()` sets CMD_IN_BUF; the comment at
comm.c:1439-1440 wants it returned.  With errors in `receive_snoop()`
`FlagMeansCommand` fails: the command waits for the next read.  On an ascii port
the data read is never copied to `ip->text`, so no line is ever passed on
(comm.c:1393-1417); `CharsConserved` is restricted to telnet ports for that reason.

*Delayed calls.*  `find_call_out()` answers -1 both for no such call and for one
that is late by one second.  After 2^26 calls handles overflow.

## 7. What is not modelled, and why

The natural language parsers (`parse.c`, `packages/parser.c`) match English
sentences against the mudlib's vocabulary by rules that only the code defines: there
is no second account of what a sentence means to compare with.  The name server is
another process, and each answer is independent of the others.  `swap.c`,
`binaries.c`, `compile_file.c`, `file.c` are I/O on one file at a time.  Start-up and
platform code run once or replace system calls.  `sprintf()`, the math and matrix
packages and the shared string table are data manipulation without control.

Within the modelled parts: the content of messages beyond what the properties tell
apart, addresses, logging; telnet options; MUD mode framing; `external_start()`;
type checking of expressions, classes and function literals in the compiler; sizes of
numbers in `LpcOperators` (numbers are unbounded there, and shifts of negative ones are
left to the machine); listing formats of the editor; the object table, `replace_program()`
and `look_for_objects_to_swap()`.

## 8. Plan

1. Proofs: `EfunStack` (each reference freed once, by the shape of a way alone),
   `LpcMappings` (table and `wanted` agree).
2. `Objects` without `Careful`: the forest alone, which shadows do not touch.
3. `copy_chars()` as a state machine over telnet bytes, composed with
   `InputBuffer` and with the release of the structure in `Connections`.
4. `look_for_objects_to_swap()` and the list of objects under `Objects`.
5. Lookups of the name server: late, lost and unasked answers.
