------------------------------ MODULE Objects ------------------------------
(***************************************************************************)
(* Objects and where they are: the inventory tree (super, contains), the   *)
(* chains of shadows, the commands ("sentences") objects give to living    *)
(* objects near them, and what becomes of all three when objects are moved *)
(* and destructed.                                                         *)
(*                                                                         *)
(* move_object() calls init() for everybody in the new environment and     *)
(* destruct_object() calls move() in everything it contains, so both walk  *)
(* lists that the LPC code they call changes.  So do shadow(), which asks  *)
(* the master object's valid_shadow() first, and the efuns that visit the  *)
(* objects around one.  stack holds the calls of these that are under way; *)
(* LPC code runs when it is empty or when the call on top has called it.   *)
(***************************************************************************)
EXTENDS Integers, Sequences, FiniteSets, SequencesExt

CONSTANTS
  Objects,      \* all loaded objects
  Beings,       \* the ones that call enable_commands() or become command_giver
  Shadows,      \* the ones that call shadow()
  None,         \* the null pointer
  MaxDepth,     \* bound on the calls under way
  Careful       \* TRUE: valid_shadow() approves of no object that is being destructed,
                \* and only if the shadow still stands alone (see ShadowApproved)

ASSUME ObjectsAssumption ==
  Beings \subseteq Objects /\ Shadows \subseteq Objects /\ None \notin Objects
  /\ MaxDepth \in Nat /\ Careful \in BOOLEAN

VARIABLES
  super,        \* environment of each object, or None
  contains,     \* its inventory, first object first
  shadowing,    \* the object it shadows, or None
  shadowed,     \* the object that shadows it, or None
  living,       \* objects with O_ENABLE_COMMANDS
  sent,         \* <<user, definer>>: user has a sentence defined by definer
  destructed,   \* objects with O_DESTRUCTED
  restrict_destruct,
  stack,        \* calls of move_object(), destruct_object() and others, outermost first
  irregular     \* history: objects that lost O_ENABLE_COMMANDS, or were given a
                \* sentence without having it or without an environment

vars == <<super, contains, shadowing, shadowed, living, sent, destructed,
          restrict_destruct, stack, irregular>>
places == <<super, contains>>
shadows == <<shadowing, shadowed>>
actions == <<living, sent, irregular>>

Pointers == Objects \union {None}

(***************************************************************************)
(* A frame: the function, the objects it works on, where it is ("loop": in *)
(* the driver's own code).  next is what the function has read ahead: the  *)
(* next object of the inventory, the object that was asked to move, the    *)
(* next shadow.  save is the restriction that destruct_object() returns to.*)
(***************************************************************************)
MoveFrames ==
  [fn: {"move"}, item: Objects, dest: Objects, ob: Pointers, next: Pointers,
   at: {"loop", "room", "user", "other", "dest"}]
DestructFrames ==
  [fn: {"destruct"}, ob: Objects, next: Pointers, save: Pointers, at: {"loop", "move"}]
ChainFrames ==
  [fn: {"chain"}, ob: Pointers, next: Pointers, at: {"loop"}]
VisitFrames ==
  [fn: {"say", "tell_room", "present"}, origin: Objects, ob: Pointers,
   part: {"super", "beside", "inside"}, at: {"loop", "call"}]
ShadowFrames ==
  [fn: {"shadow"}, me: Objects, ob: Objects, at: {"call"}]
Frames ==
  MoveFrames \union DestructFrames \union ChainFrames \union VisitFrames \union ShadowFrames

Top == stack[Len(stack)]
Push(f) == stack' = Append(stack, f)
Return == stack' = Front(stack)
Become(f) == stack' = [stack EXCEPT ![Len(stack)] = f]

\* LPC code is running: nothing is under way, or the last call waits for a function of it.
InLpc == stack # <<>> => Top.at # "loop"
Room == Len(stack) < MaxDepth
Alive == Objects \ destructed

Init ==
  /\ super = [o \in Objects |-> None]
  /\ contains = [o \in Objects |-> <<>>]
  /\ shadowing = [o \in Objects |-> None]
  /\ shadowed = [o \in Objects |-> None]
  /\ living = {}
  /\ sent = {}
  /\ destructed = {}
  /\ restrict_destruct = None
  /\ stack = <<>>
  /\ irregular = {}

-----------------------------------------------------------------------------
(***************************************************************************)
(* Errors.  error_handler() takes the restriction back and jumps to the    *)
(* innermost catch(), which may be in the LPC code of any level, or to the *)
(* backend: the calls above it are gone.                                   *)
(***************************************************************************)
Unwind(frames) ==
  /\ restrict_destruct' = None
  /\ \E k \in 0..Len(frames) :
       /\ k > 0 => frames[k].at # "loop"
       /\ stack' = SubSeq(frames, 1, k)

error_handler == Unwind(stack) /\ UNCHANGED <<places, shadows, actions, destructed>>

LpcError == InLpc /\ error_handler

-----------------------------------------------------------------------------
(***************************************************************************)
(* Commands.                                                               *)
(***************************************************************************)
enable_commands(ob) ==
  /\ InLpc /\ ob \in Alive
  /\ living' = living \union {ob}
  /\ UNCHANGED <<places, shadows, sent, destructed, restrict_destruct, stack, irregular>>

\* What remove_sent(ob, user) removes, for those users that are looked at.
SentencesOf(ob, users) == {<<u, ob>> : u \in users \cap living}

\* enable_commands(0)
disable_commands(ob) ==
  /\ InLpc /\ ob \in Alive
  /\ sent' = IF ob \in living /\ super[ob] # None
               THEN sent \ (SentencesOf(ob, ToSet(contains[super[ob]]))
                            \union {<<super[ob], ob>>})
               ELSE sent
  /\ living' = living \ {ob}
  /\ irregular' = irregular \union {ob}
  /\ UNCHANGED <<places, shadows, destructed, restrict_destruct, stack>>

\* The end of the chain of shadows that starts at ob: it looks as if that one had called.
Shadowed(ob) ==
  LET end[o \in Objects] == IF shadowing[o] = None THEN o ELSE end[shadowing[o]] IN end[ob]

Near(ob, user) ==
  \/ ob = user
  \/ super[ob] = user
  \/ super[ob] = super[user]
  \/ ob = super[user]

\* add_action() called by ob while user is command_giver, which may be any object.
add_action(ob, user) ==
  /\ InLpc /\ ob \in Alive /\ user \in Alive
  /\ Near(Shadowed(ob), user)
  /\ sent' = sent \union {<<user, Shadowed(ob)>>}
  /\ irregular' = IF user \in living /\ super[user] # None THEN irregular
                                                        ELSE irregular \union {user}
  /\ UNCHANGED <<places, shadows, living, destructed, restrict_destruct, stack>>

-----------------------------------------------------------------------------
(***************************************************************************)
(* Shadows.  validate_shadowing() looks at both objects and then asks      *)
(* valid_shadow() of the master object, which is LPC code.  Of what that   *)
(* code does to the two, only their destruction is noticed afterwards: the *)
(* shadow is linked though it has been moved, shadows already or is        *)
(* shadowed by now.                                                        *)
(***************************************************************************)
FirstShadow(ob) ==
  LET end[o \in Objects] == IF shadowed[o] = None THEN o ELSE end[shadowed[o]] IN end[ob]

Leaving == {stack[i].ob : i \in {j \in DOMAIN stack : stack[j].fn = "destruct"}}

StandsAlone(me) == shadowing[me] = None /\ shadowed[me] = None /\ super[me] = None

\* shadow() up to the call of valid_shadow().
f_shadow(me, ob) ==
  /\ InLpc /\ Room /\ me \in Alive /\ ob \in Alive /\ me # ob
  /\ StandsAlone(me) /\ shadowing[ob] = None
  /\ Push([fn |-> "shadow", me |-> me, ob |-> ob, at |-> "call"])
  /\ UNCHANGED <<places, shadows, actions, destructed, restrict_destruct>>

AskingToShadow == stack # <<>> /\ Top.fn = "shadow"

\* valid_shadow() has refused, or one of the two is destructed.
ShadowRefused ==
  /\ AskingToShadow
  /\ Return
  /\ UNCHANGED <<places, shadows, actions, destructed, restrict_destruct>>

\* valid_shadow() has approved: the shadow goes to the end of the chain as it is now.
ShadowApproved ==
  /\ AskingToShadow
  /\ LET me == Top.me  ob == Top.ob  first == FirstShadow(ob) IN
     /\ me \in Alive /\ ob \in Alive
     /\ Careful => StandsAlone(me) /\ {me, ob} \cap Leaving = {}
     /\ shadowing' = [shadowing EXCEPT ![me] = first]
     /\ shadowed' = [shadowed EXCEPT ![first] = me]
  /\ Return
  /\ UNCHANGED <<places, actions, destructed, restrict_destruct>>

-----------------------------------------------------------------------------
(***************************************************************************)
(* move_object(): sentences that leave with the item are removed, the item *)
(* changes lists, then init() is called: in the room for the item, and in  *)
(* the item for, and for the item in, each object there, by a walk over    *)
(* the inventory with the next object read before the calls.               *)
(***************************************************************************)
\* Mutant: only the destination itself is compared with the item.
InsideOne(ob, item) == ob = item

Inside(ob, item) ==
  LET in[o \in Pointers] == o # None /\ (o = item \/ in[super[o]]) IN in[ob]

NextInv(ob) ==
  IF super[ob] = None THEN None
  ELSE LET inv == contains[super[ob]]
           i == CHOOSE j \in 1..Len(inv) : inv[j] = ob
       IN IF i = Len(inv) THEN None ELSE inv[i + 1]

\* Mutant: the item keeps the sentences the others gave it.
LeftBehindHalf(item) ==
  IF super[item] = None THEN {}
  ELSE SentencesOf(item, ToSet(contains[super[item]]) \union {super[item]})

\* The sentences that end when item leaves its environment.
LeftBehind(item) ==
  IF super[item] = None THEN {}
  ELSE LET others == (ToSet(contains[super[item]]) \union {super[item]}) \ {item}
       IN SentencesOf(item, others)
          \union (IF item \in living THEN {<<item, p>> : p \in others} ELSE {})

\* The lists with item at the head of dest's.
Linked(item, dest) ==
  [o \in Objects |->
     (IF o = dest THEN <<item>> ELSE <<>>)
     \o (IF o = super[item] THEN RemoveFirst(contains[o], item) ELSE contains[o])]

FirstInv(inv) == IF inv = <<>> THEN None ELSE Head(inv)

move_object(item, dest) ==
  /\ InLpc /\ Room /\ item \in Alive /\ dest \in Alive
  /\ ~ Inside(dest, item)
  /\ shadowing[item] = None
  /\ sent' = sent \ LeftBehind(item)
  /\ contains' = Linked(item, dest)
  /\ super' = [super EXCEPT ![item] = dest]
  /\ Push([fn |-> "move", item |-> item, dest |-> dest, next |-> None,
           ob |-> item, at |-> IF item \in living THEN "room" ELSE "loop"])
  /\ UNCHANGED <<shadows, living, irregular, destructed, restrict_destruct>>

Moving(at) == stack # <<>> /\ Top.fn = "move" /\ Top.at = at
Stays == super[Top.item] = Top.dest
StackOnly == UNCHANGED <<places, shadows, actions, destructed, restrict_destruct>>

\* init() in the room has returned.
RoomInitReturns ==
  /\ Moving("room")
  /\ IF Top.dest \in destructed \/ ~Stays THEN Return
     ELSE Become([Top EXCEPT !.at = "loop", !.ob = FirstInv(contains[Top.dest])])
  /\ StackOnly

\* One turn of the loop, up to the next call of init().
MoveLoop ==
  /\ Moving("loop") /\ Top.ob # None
  /\ LET ob == Top.ob
         step == [Top EXCEPT !.next = NextInv(ob)]
     IN \/ /\ ob = Top.item
           /\ Become([step EXCEPT !.ob = step.next])
           /\ StackOnly
        \/ /\ ob # Top.item /\ ob \in destructed
           /\ error_handler
        \/ /\ ob # Top.item /\ ob \notin destructed
           /\ Become(IF ob \in living THEN [step EXCEPT !.at = "user"]
                     ELSE IF Top.item \in living THEN [step EXCEPT !.at = "other"]
                     ELSE [step EXCEPT !.ob = step.next])
           /\ StackOnly

\* init() in the item, for the living object ob, has returned.
UserInitReturns ==
  /\ Moving("user")
  /\ IF ~Stays THEN Return
     ELSE Become(IF Top.item \in living THEN [Top EXCEPT !.at = "other"]
                 ELSE [Top EXCEPT !.at = "loop", !.ob = Top.next])
  /\ StackOnly

\* init() in ob, for the living item, has returned.
OtherInitReturns ==
  /\ Moving("other")
  /\ IF Stays THEN Become([Top EXCEPT !.at = "loop", !.ob = Top.next]) ELSE Return
  /\ StackOnly

\* After the loop: init() in the item once more, for an environment that is alive.
MoveEnds ==
  /\ Moving("loop") /\ Top.ob = None
  /\ \/ Top.dest \in destructed /\ error_handler
     \/ /\ Top.dest \notin destructed
        /\ IF Top.dest \in living THEN Become([Top EXCEPT !.at = "dest"]) ELSE Return
        /\ StackOnly

DestInitReturns == Moving("dest") /\ Return /\ StackOnly

-----------------------------------------------------------------------------
(***************************************************************************)
(* destruct_object().                                                      *)
(***************************************************************************)

Unshadow(ob) ==
  LET below == shadowing[ob]  above == shadowed[ob] IN
  /\ shadowed' = [o \in Objects |-> IF o = ob THEN None
                                    ELSE IF o = below THEN above ELSE shadowed[o]]
  /\ shadowing' = [o \in Objects |-> IF o = ob THEN None
                                     ELSE IF o = above THEN below ELSE shadowing[o]]

\* The call, up to the loop over the inventory, with restrict_destruct = allowed;
\* below is the stack it returns to.
Destruct(ob, below, allowed) ==
  \/ /\ allowed \notin {None, ob}
     /\ Unwind(below)
     /\ UNCHANGED <<places, shadows, actions, destructed>>
  \/ /\ allowed \in {None, ob}
     /\ restrict_destruct' = allowed
     /\ UNCHANGED <<places, actions, destructed>>
     /\ \/ /\ ob \in destructed
           /\ stack' = below
           /\ UNCHANGED shadows
        \/ /\ ob \notin destructed
           /\ shadowed[ob] # None /\ shadowing[ob] = None
           /\ stack' = Append(below, [fn |-> "chain", ob |-> None, next |-> FirstShadow(ob),
                                      at |-> "loop"])
           /\ UNCHANGED shadows
        \/ /\ ob \notin destructed
           /\ shadowed[ob] = None \/ shadowing[ob] # None
           /\ stack' = Append(below, [fn |-> "destruct", ob |-> ob, next |-> None,
                                      save |-> allowed, at |-> "loop"])
           /\ Unshadow(ob)

f_destruct(ob) == InLpc /\ Room /\ ob \in Alive /\ Destruct(ob, stack, restrict_destruct)

(***************************************************************************)
(* The shadows of an object go before it, the last one added first; each   *)
(* is taken off the chain and then destructed.                             *)
(***************************************************************************)
InChain == stack # <<>> /\ Top.fn = "chain"

ChainUnlink ==
  /\ InChain /\ Top.ob = None /\ Top.next # None
  /\ LET ob == Top.next  ob2 == shadowing[ob] IN
     /\ shadowed' = [o \in Objects |-> IF o = ob2 THEN None ELSE shadowed[o]]
     /\ shadowing' = [shadowing EXCEPT ![ob] = None]
     /\ Become([Top EXCEPT !.ob = ob, !.next = ob2])
  /\ UNCHANGED <<places, actions, destructed, restrict_destruct>>

ChainDestruct ==
  /\ InChain /\ Top.ob # None
  /\ Destruct(Top.ob, [stack EXCEPT ![Len(stack)].ob = None], restrict_destruct)

ChainEnds == InChain /\ Top.ob = None /\ Top.next = None /\ Return /\ StackOnly

Destructing(at) == stack # <<>> /\ Top.fn = "destruct" /\ Top.at = at

\* The first object of the inventory is asked to move: only it may be destructed meanwhile.
AskToMove ==
  /\ Destructing("loop") /\ contains[Top.ob] # <<>>
  /\ restrict_destruct' = Head(contains[Top.ob])
  /\ Become([Top EXCEPT !.at = "move", !.next = Head(contains[Top.ob])])
  /\ UNCHANGED <<places, shadows, actions, destructed>>

\* move() has returned: if the object is still the first of the inventory, it is destructed.
MoveReturns ==
  /\ Destructing("move")
  /\ \/ /\ Top.ob \in destructed
        /\ Return
        /\ restrict_destruct' = Top.save
        /\ UNCHANGED <<places, shadows, actions, destructed>>
     \/ /\ Top.ob \notin destructed /\ FirstInv(contains[Top.ob]) # Top.next
        /\ Become([Top EXCEPT !.at = "loop", !.next = None])
        /\ restrict_destruct' = Top.save
        /\ UNCHANGED <<places, shadows, actions, destructed>>
     \/ /\ Top.ob \notin destructed /\ FirstInv(contains[Top.ob]) = Top.next
        /\ Destruct(Top.next, [stack EXCEPT ![Len(stack)] = [Top EXCEPT !.at = "loop", !.next = None]],
                    Top.save)

\* With nothing left inside, the object leaves its environment and the lists.
DestructEnds ==
  /\ Destructing("loop") /\ contains[Top.ob] = <<>>
  /\ LET ob == Top.ob  env == super[ob] IN
     /\ sent' = IF env = None THEN sent
                ELSE sent \ SentencesOf(ob, ToSet(contains[env]) \union {env})
     /\ contains' = [o \in Objects |-> IF o = env THEN RemoveFirst(contains[o], ob) ELSE contains[o]]
     /\ super' = [super EXCEPT ![ob] = None]
     /\ living' = living \ {ob}
     /\ destructed' = destructed \union {ob}
  /\ Return
  /\ UNCHANGED <<shadows, irregular, restrict_destruct>>

-----------------------------------------------------------------------------
(***************************************************************************)
(* say(), tell_room() and present() call catch_tell() or id() in the       *)
(* objects around or inside origin, and read the next object of a list     *)
(* after the call.  An object that does not define the function is passed  *)
(* over, as one whose function does nothing.                               *)
(***************************************************************************)
Visit(kind, origin, part) ==
  LET env == super[origin] IN
  [fn |-> kind, origin |-> origin, part |-> part,
   ob |-> CASE part = "super" -> env
            [] part = "beside" -> FirstInv(contains[env])
            [] part = "inside" -> FirstInv(contains[origin]),
   at |-> IF part = "super" THEN "call" ELSE "loop"]

say(origin) ==
  /\ InLpc /\ Room /\ origin \in Alive
  /\ Push(Visit("say", origin, IF super[origin] = None THEN "inside" ELSE "super"))
  /\ StackOnly

tell_room(room) ==
  /\ InLpc /\ Room /\ room \in Alive
  /\ Push(Visit("tell_room", room, "inside"))
  /\ StackOnly

object_present(ob) ==
  /\ InLpc /\ Room /\ ob \in Alive
  /\ Push(Visit("present", ob, "inside"))
  /\ StackOnly

Visiting(at) == stack # <<>> /\ Top.fn \in {"say", "tell_room", "present"} /\ Top.at = at

\* One list is done: say() goes on from beside to inside, present() from inside to
\* the environment.
PartEnds ==
  IF Top.fn = "say" /\ Top.part = "beside" THEN Become(Visit("say", Top.origin, "inside"))
  ELSE IF Top.fn = "present" /\ Top.part = "inside" /\ super[Top.origin] # None
         THEN Become(Visit("present", Top.origin, "super"))
  ELSE Return

VisitLoop ==
  /\ Visiting("loop")
  /\ IF Top.ob = None THEN PartEnds
     ELSE Become(IF Top.fn = "say" /\ Top.part = "beside" /\ Top.ob = Top.origin
                   THEN [Top EXCEPT !.ob = NextInv(Top.ob)]
                   ELSE [Top EXCEPT !.at = "call"])
  /\ StackOnly

\* The function of the environment has returned.  The pointer to the environment is read
\* again, without looking whether the call has taken origin out of it: that is excluded.
SuperReturns ==
  /\ Visiting("call") /\ Top.part = "super"
  /\ super[Top.origin] # None
  /\ \/ Become(Visit(Top.fn, Top.origin, "beside"))
     \/ Top.fn = "present" /\ Return
  /\ StackOnly

\* The function of an object of a list has returned; present() may have found it.
VisitReturns ==
  /\ Visiting("call") /\ Top.part # "super"
  /\ IF Top.ob \in destructed THEN PartEnds
     ELSE \/ Become([Top EXCEPT !.ob = NextInv(Top.ob), !.at = "loop"])
          \/ Top.fn = "present" /\ Return
  /\ StackOnly

-----------------------------------------------------------------------------
Efun ==
  \/ \E being \in Beings : enable_commands(being) \/ disable_commands(being)
  \/ \E ob \in Objects, being \in Beings : add_action(ob, being)
  \/ \E me \in Shadows, ob \in Objects : f_shadow(me, ob)
  \/ \E ob, dest \in Objects : move_object(ob, dest)
  \/ \E ob \in Objects : f_destruct(ob) \/ say(ob) \/ tell_room(ob) \/ object_present(ob)
  \/ LpcError

Goes ==
  \/ ShadowRefused \/ ShadowApproved
  \/ RoomInitReturns \/ UserInitReturns \/ OtherInitReturns \/ DestInitReturns
  \/ MoveLoop \/ MoveEnds
  \/ ChainUnlink \/ ChainDestruct \/ ChainEnds
  \/ AskToMove \/ MoveReturns \/ DestructEnds
  \/ VisitLoop \/ SuperReturns \/ VisitReturns

Next == Efun \/ Goes
Spec == Init /\ [][Next]_vars

-----------------------------------------------------------------------------
TypeOK ==
  /\ super \in [Objects -> Pointers]
  /\ \A o \in Objects : contains[o] \in Seq(Objects)
  /\ shadowing \in [Objects -> Pointers] /\ shadowed \in [Objects -> Pointers]
  /\ living \subseteq Objects /\ destructed \subseteq Objects /\ irregular \subseteq Objects
  /\ sent \subseteq Objects \X Objects
  /\ restrict_destruct \in Pointers
  /\ stack \in Seq(Frames)

\* The inventory lists and the environment pointers describe one forest, in which no
\* destructed object has a place, at every point where LPC code runs: whatever init() and
\* move() do to the lists that move_object() and destruct_object() are walking.
TreeSound ==
  /\ \A o \in Objects : IsInjective(contains[o])
  /\ \A o, p \in Objects : p \in ToSet(contains[o]) <=> super[p] = o
  /\ \A o \in destructed : super[o] = None /\ contains[o] = <<>>
  /\ \A group \in (SUBSET Objects) \ {{}} : \E o \in group : super[o] \notin group

\* Shadows are chains linked in both directions, none of them inside another object or
\* destructed, and never a circle, whatever part of a chain is destructed and from where.
ShadowsSound ==
  /\ \A o \in Objects : shadowing[o] # None => /\ shadowed[shadowing[o]] = o
                                               /\ super[o] = None
                                               /\ shadowing[o] \notin destructed
  /\ \A o \in Objects : shadowed[o] # None => /\ shadowing[shadowed[o]] = o
                                              /\ shadowed[o] \notin destructed
  /\ \A group \in (SUBSET Objects) \ {{}} : \E o \in group : shadowing[o] \notin group

\* A living object has sentences only of objects near it, so none of a destructed object,
\* whose memory a sentence would keep on using (add_action() takes no reference): removing
\* the sentences wherever objects part is enough, unless O_ENABLE_COMMANDS was turned off
\* in between or a sentence was given to an object without it or without an environment.
SentencesNear ==
  \A user, ob \in Objects :
    <<user, ob>> \in sent /\ user \in living \ irregular => ob \notin destructed /\ Near(ob, user)

\* Inventories and environments are each other's inverse and shadows form chains
\* both ways, whatever init(), move(), valid_shadow() and the efuns called there do
\* in the middle of moving, destructing or shadowing an object, as long as
\* valid_shadow() does not approve of a shadow that it has moved, or made to shadow
\* or be shadowed, or of an object that is being destructed (Careful).
TreesSound == TypeOK /\ TreeSound /\ ShadowsSound

\* tell_room() "sends a string to all objects inside of a specific object" (simulate.c:1230):
\* whoever is told is inside the room.  Not so if the object told before has gone elsewhere:
\* the walk follows it.
\* Refuted; see the README, section 6.
ToldAreInside ==
  [][Visiting("loop") /\ Top.fn = "tell_room" /\ stack' = [stack EXCEPT ![Len(stack)].at = "call"]
     => super[Top.ob] = Top.origin]_vars

=============================================================================
