------------------------- MODULE ConnectionsProofs -------------------------
(***************************************************************************)
(* Proofs about the connected users, for any users, copies of the master   *)
(* object, structures and slots, and any nesting of calls.  The mudlib is  *)
(* careful, and no master object hides (Sensible).                         *)
(***************************************************************************)
EXTENDS Connections, Lemmas, SequenceTheorems, FunctionTheorems, FiniteSetTheorems,
        TLAPS

Sensible == Careful /\ Hiders \subseteq Users

(* The types, without the bounds that follow from the rest.                *)
Shape ==
  /\ all_users \in [Index -> Conns \cup {Null}]
  /\ interactive \in [Objects -> Conns \cup {Null}]
  /\ ip \in [Conns -> Interactive \cup {Null}]
  /\ O_HIDDEN \subseteq Hiders /\ destructed \subseteq Objects
  /\ master_ob \in Masters \ destructed
  /\ NextCmdGiver \in Index
  /\ stack \in Seq(Frame)
  /\ passed \in [Conns -> SUBSET Conns]

(* LinksAgree, with one slot for a connection in place of a count.         *)
Links ==
  /\ \A o \in Objects : interactive[o] # Null =>
       ip[interactive[o]] # Null /\ ip[interactive[o]].ob = o
  /\ \A c \in Conns : ip[c] # Null =>
       interactive[ip[c].ob] = c /\ \E i \in Index : all_users[i] = c
  /\ \A i, j \in Index : all_users[i] = all_users[j] /\ all_users[i] # Null => i = j
  /\ \A i \in Index : all_users[i] # Null => ip[all_users[i]] # Null

(* ClosedOnce likewise, and what else is known of the calls under way.     *)
Closings ==
  /\ \A n \in DOMAIN stack : stack[n].fun = "net_dead" =>
       /\ stack[n].ip \in Conns /\ ip[stack[n].ip] # Null
       /\ ip[stack[n].ip].CLOSING /\ ip[stack[n].ip].ob = stack[n].ob
  /\ \A n, k \in DOMAIN stack :
       stack[n].fun = "net_dead" /\ stack[k].fun = "net_dead" /\ stack[n].ip = stack[k].ip => n = k
  /\ \A c \in Conns : ip[c] # Null /\ ip[c].CLOSING =>
       \E n \in DOMAIN stack : stack[n].fun = "net_dead" /\ stack[n].ip = c

(* Of the copies of the master object only the one loaded, and destructed  *)
(* ones, have been interactive.                                            *)
FreshMasters == \A m \in Masters \ (destructed \cup {master_ob}) : interactive[m] = Null

ConnectionsInv ==
  Shape /\ Links /\ SnoopsSound /\ Closings /\ CallsNested /\ FreshMasters /\ CountsAgree
  /\ ServedBehind
-----------------------------------------------------------------------------
(* Structures.                                                             *)

(* A structure that is there has the fields of one.                        *)
LEMMA StructFacts ==
  ASSUME Shape, NEW c \in Conns, ip[c] # Null
  PROVE  /\ ip[c] \in Interactive /\ ip[c].ob \in Objects
         /\ ip[c].CLOSING \in BOOLEAN /\ ip[c].CMD_IN_BUF \in BOOLEAN
         /\ ip[c].snoop_on \in Conns \cup {Null} /\ ip[c].snoop_by \in Conns \cup {Null}
<1>1. ip[c] \in Interactive
  BY DEF Shape
<1> QED
  BY <1>1 DEF Interactive

(* How structures may change: the same ones are there, of the same owners, *)
(* with the same snoops, being closed or not as before.                    *)
SameLive == \A d \in Conns : ip'[d] = Null <=> ip[d] = Null
SameOwner == \A d \in Conns : ip[d] # Null => ip'[d].ob = ip[d].ob
SameSnoop ==
  \A d \in Conns : ip[d] # Null =>
    ip'[d].snoop_on = ip[d].snoop_on /\ ip'[d].snoop_by = ip[d].snoop_by
SameClosing == \A d \in Conns : ip[d] # Null => ip'[d].CLOSING = ip[d].CLOSING
SameWaiting == \A d \in Conns : ip[d] # Null => ip'[d].CMD_IN_BUF = ip[d].CMD_IN_BUF

(* The structures once c is freed.                                         *)
Freed(c) ==
  /\ ip' \in [Conns -> Interactive \cup {Null}]
  /\ ip'[c] = Null
  /\ \A d \in Conns : d # c => (ip'[d] = Null <=> ip[d] = Null)
  /\ \A d \in Conns : d # c /\ ip[d] # Null =>
       /\ ip'[d].ob = ip[d].ob /\ ip'[d].CLOSING = ip[d].CLOSING
       /\ ip'[d].CMD_IN_BUF = ip[d].CMD_IN_BUF
       /\ ip'[d].snoop_on = IF ip[d].snoop_on = c THEN Null ELSE ip[d].snoop_on
       /\ ip'[d].snoop_by = IF ip[d].snoop_by = c THEN Null ELSE ip[d].snoop_by

(* The second half of remove_interactive() frees c and no more.            *)
LEMMA FinishRemoveFrees ==
  ASSUME Shape, NEW o, NEW c \in Conns, FinishRemove(o, c)
  PROVE  Freed(c)
<1> DEFINE new(d) == [ip[d] EXCEPT !.snoop_by = IF c \in {d, @} THEN Null ELSE @,
                                   !.snoop_on = IF c \in {d, @} THEN Null ELSE @]
           u == Unsnooped(ip, c)
<1>1. u = [d \in Conns |-> IF ip[d] = Null THEN Null ELSE new(d)]
  BY DEF Unsnooped
<1>2. ASSUME NEW d \in Conns, ip[d] # Null
      PROVE  /\ new(d) \in Interactive
             /\ new(d).ob = ip[d].ob /\ new(d).CLOSING = ip[d].CLOSING
             /\ new(d).CMD_IN_BUF = ip[d].CMD_IN_BUF
             /\ new(d).snoop_on = IF c \in {d, ip[d].snoop_on} THEN Null ELSE ip[d].snoop_on
             /\ new(d).snoop_by = IF c \in {d, ip[d].snoop_by} THEN Null ELSE ip[d].snoop_by
  <2>1. ip[d] \in Interactive
    BY <1>2, StructFacts
  <2> QED
    BY <2>1 DEF Interactive
<1> HIDE DEF new, u
<1>3. u \in [Conns -> Interactive \cup {Null}]
  BY <1>1, <1>2
<1>4. ip' = [u EXCEPT ![c] = Null]
  BY DEF FinishRemove, u
<1>5. /\ ip' \in [Conns -> Interactive \cup {Null}] /\ ip'[c] = Null
      /\ \A d \in Conns : d # c => ip'[d] = u[d]
  BY <1>3, <1>4
<1>6. ASSUME NEW d \in Conns, d # c, ip[d] = Null PROVE ip'[d] = Null
  BY <1>1, <1>5, <1>6
<1>7. ASSUME NEW d \in Conns, d # c, ip[d] # Null
      PROVE  ip'[d] = new(d) /\ ip'[d] # Null
  BY <1>1, <1>2, <1>5, <1>7, NullAssumption
<1>8. ASSUME NEW d \in Conns, d # c, ip[d] # Null
      PROVE  /\ ip'[d].ob = ip[d].ob /\ ip'[d].CLOSING = ip[d].CLOSING
             /\ ip'[d].CMD_IN_BUF = ip[d].CMD_IN_BUF
             /\ ip'[d].snoop_on = IF ip[d].snoop_on = c THEN Null ELSE ip[d].snoop_on
             /\ ip'[d].snoop_by = IF ip[d].snoop_by = c THEN Null ELSE ip[d].snoop_by
  BY <1>2, <1>7, <1>8
<1> QED
  BY <1>5, <1>6, <1>7, <1>8 DEF Freed
-----------------------------------------------------------------------------
(* Objects, structures and slots.                                          *)

(* Steps that neither move nor add nor free a connection.                  *)
LEMMA LinksKept ==
  ASSUME Shape, Links, UNCHANGED <<all_users, interactive>>, SameLive, SameOwner
  PROVE  Links'
BY DEF Links, SameLive, SameOwner, Shape

(* o and its connection c part.                                            *)
LEMMA LinksFreed ==
  ASSUME Shape, Links, NEW o \in Objects, NEW c \in Conns, FinishRemove(o, c),
         interactive[o] = c
  PROVE  Links'
<1>1. Freed(c)
  BY FinishRemoveFrees
<1>2. /\ interactive'[o] = Null /\ \A p \in Objects : p # o => interactive'[p] = interactive[p]
      /\ \A i \in Index : all_users'[i] = IF all_users[i] = c THEN Null ELSE all_users[i]
  BY DEF FinishRemove, Shape
<1>3. ip[c] # Null /\ ip[c].ob = o /\ c # Null
  BY ConnectionsAssumption DEF Links
<1>4. ASSUME NEW p \in Objects, interactive'[p] # Null
      PROVE  ip'[interactive'[p]] # Null /\ ip'[interactive'[p]].ob = p
  <2>1. p # o /\ interactive[p] \in Conns /\ interactive'[p] = interactive[p]
    BY <1>2, <1>4 DEF Shape
  <2>2. ip[interactive[p]] # Null /\ ip[interactive[p]].ob = p
    BY <1>4, <2>1 DEF Links
  <2>3. interactive[p] # c
    BY <1>3, <2>1, <2>2
  <2> QED
    BY <1>1, <2>1, <2>2, <2>3 DEF Freed
<1>5. ASSUME NEW d \in Conns, ip'[d] # Null
      PROVE  interactive'[ip'[d].ob] = d /\ \E i \in Index : all_users'[i] = d
  <2>1. d # c /\ ip[d] # Null /\ ip'[d].ob = ip[d].ob
    BY <1>1, <1>5 DEF Freed
  <2>2. interactive[ip[d].ob] = d /\ ip[d].ob \in Objects /\ \E i \in Index : all_users[i] = d
    BY <2>1, StructFacts DEF Links
  <2>3. ip[d].ob # o
    BY <1>3, <2>1, <2>2
  <2> QED
    BY <1>2, <2>1, <2>2, <2>3
<1>6. ASSUME NEW i \in Index, all_users'[i] # Null
      PROVE  /\ ip'[all_users'[i]] # Null
             /\ \A j \in Index : all_users'[i] = all_users'[j] => i = j
  <2>1. all_users'[i] = all_users[i] /\ all_users[i] # c /\ all_users[i] \in Conns
    BY <1>2, <1>6 DEF Shape
  <2>2. ip[all_users[i]] # Null
    BY <1>6, <2>1 DEF Links
  <2>3. ip'[all_users[i]] # Null
    BY <1>1, <2>1, <2>2 DEF Freed
  <2> QED
    BY <1>2, <1>6, <2>1, <2>3 DEF Links
<1> QED
  BY <1>4, <1>5, <1>6 DEF Links

(* c goes from one object to another.                                      *)
Moved(c, from, o) ==
  /\ interactive'[o] = c /\ interactive'[from] = Null
  /\ \A p \in Objects : p \notin {o, from} => interactive'[p] = interactive[p]
  /\ ip'[c].ob = o
  /\ \A d \in Conns : d # c => ip'[d] = ip[d]

(* Handing over to the object connect() answers, and exec().               *)
LEMMA LinksMoved ==
  ASSUME Shape, Links, NEW from \in Objects, NEW o \in Objects, NEW c \in Conns,
         interactive[from] = c, interactive[o] = Null,
         Moved(c, from, o), SameLive, all_users' = all_users
  PROVE  Links'
<1>1. ip[c] # Null /\ ip[c].ob = from /\ c # Null /\ o # from
  BY ConnectionsAssumption DEF Links
<1>2. ASSUME NEW p \in Objects, interactive'[p] # Null
      PROVE  ip'[interactive'[p]] # Null /\ ip'[interactive'[p]].ob = p
  <2>1. CASE p = o
    BY <1>1, <2>1 DEF Moved, SameLive
  <2>2. CASE p # o
    <3>1. p # from /\ interactive'[p] = interactive[p] /\ interactive[p] \in Conns
      BY <1>2, <2>2 DEF Moved, Shape
    <3>2. ip[interactive[p]] # Null /\ ip[interactive[p]].ob = p
      BY <1>2, <3>1 DEF Links
    <3>3. interactive[p] # c
      BY <1>1, <3>1, <3>2
    <3> QED
      BY <3>1, <3>2, <3>3 DEF Moved
  <2> QED
    BY <2>1, <2>2
<1>3. ASSUME NEW d \in Conns, ip'[d] # Null
      PROVE  interactive'[ip'[d].ob] = d /\ \E i \in Index : all_users'[i] = d
  <2>1. ip[d] # Null
    BY <1>3 DEF SameLive
  <2>2. interactive[ip[d].ob] = d /\ ip[d].ob \in Objects /\ \E i \in Index : all_users[i] = d
    BY <2>1, StructFacts DEF Links
  <2>3. CASE d = c
    BY <2>2, <2>3 DEF Moved
  <2>4. CASE d # c
    <3>1. ip[d].ob # from /\ ip[d].ob # o /\ ip'[d].ob = ip[d].ob
      BY <2>2, <2>4, ConnectionsAssumption DEF Moved
    <3> QED
      BY <2>2, <3>1 DEF Moved
  <2> QED
    BY <2>3, <2>4
<1> QED
  BY <1>2, <1>3 DEF Links, SameLive, Shape

(* c is new, in slot i, and belongs to object m, which had none.           *)
Added(c, m, i) ==
  /\ interactive'[m] = c
  /\ \A p \in Objects : p # m => interactive'[p] = interactive[p]
  /\ ip' \in [Conns -> Interactive \cup {Null}]
  /\ ip'[c] # Null /\ ip'[c].ob = m /\ ~ip'[c].CLOSING /\ ~ip'[c].CMD_IN_BUF
  /\ ip'[c].snoop_on = Null /\ ip'[c].snoop_by = Null
  /\ \A d \in Conns : d # c => ip'[d] = ip[d]
  /\ all_users' \in [Index -> Conns \cup {Null}]
  /\ all_users'[i] = c
  /\ \A j \in Index : j # i => all_users'[j] = all_users[j]

(* new_user_handler() adds c for the master object.                        *)
LEMMA NewUserAdds ==
  ASSUME Shape, NEW c \in Conns, new_user_handler(c)
  PROVE  ip[c] = Null /\ \E i \in Index : all_users[i] = Null /\ Added(c, master_ob, i)
<1> DEFINE e == [ob |-> master_ob, CLOSING |-> FALSE, CMD_IN_BUF |-> FALSE,
                 snoop_on |-> Null, snoop_by |-> Null]
<1>1. master_ob \in Objects /\ ip[c] = Null
  BY DEF Shape, Objects, new_user_handler, Live
<1>2. PICK i \in Index : all_users[i] = Null /\ all_users' = [all_users EXCEPT ![i] = c]
  BY DEF new_user_handler
<1>3. e \in Interactive
  BY <1>1 DEF Interactive
<1>4. e # Null /\ e.ob = master_ob /\ ~e.CLOSING /\ ~e.CMD_IN_BUF /\ e.snoop_on = Null /\ e.snoop_by = Null
  BY <1>3, NullAssumption
<1>5. ip' = [ip EXCEPT ![c] = e] /\ interactive' = [interactive EXCEPT ![master_ob] = c]
  BY DEF new_user_handler
<1> HIDE DEF e
<1>6. /\ ip' \in [Conns -> Interactive \cup {Null}] /\ ip'[c] = e
      /\ \A d \in Conns : d # c => ip'[d] = ip[d]
  BY <1>3, <1>5 DEF Shape
<1>7. /\ interactive'[master_ob] = c
      /\ \A p \in Objects : p # master_ob => interactive'[p] = interactive[p]
  BY <1>1, <1>5 DEF Shape
<1>8. /\ all_users' \in [Index -> Conns \cup {Null}] /\ all_users'[i] = c
      /\ \A j \in Index : j # i => all_users'[j] = all_users[j]
  BY <1>2 DEF Shape
<1>9. Added(c, master_ob, i)
  BY <1>4, <1>6, <1>7, <1>8 DEF Added
<1> QED
  BY <1>1, <1>2, <1>9

(* The links after new_user_handler().                                     *)
LEMMA LinksAdded ==
  ASSUME Shape, Links, NEW c \in Conns, NEW m \in Objects, NEW i \in Index,
         ip[c] = Null, interactive[m] = Null, all_users[i] = Null, Added(c, m, i)
  PROVE  Links'
<1>1. c # Null
  BY ConnectionsAssumption
<1>2. ASSUME NEW p \in Objects, interactive'[p] # Null
      PROVE  ip'[interactive'[p]] # Null /\ ip'[interactive'[p]].ob = p
  <2>1. CASE p = m
    BY <2>1 DEF Added
  <2>2. CASE p # m
    <3>1. interactive'[p] = interactive[p] /\ interactive[p] \in Conns
      BY <1>2, <2>2 DEF Added, Shape
    <3>2. ip[interactive[p]] # Null /\ ip[interactive[p]].ob = p
      BY <1>2, <3>1 DEF Links
    <3> QED
      BY <3>1, <3>2 DEF Added
  <2> QED
    BY <2>1, <2>2
<1>3. ASSUME NEW d \in Conns, ip'[d] # Null
      PROVE  interactive'[ip'[d].ob] = d /\ \E j \in Index : all_users'[j] = d
  <2>1. CASE d = c
    BY <2>1 DEF Added
  <2>2. CASE d # c
    <3>1. ip'[d] = ip[d] /\ ip[d] # Null
      BY <1>3, <2>2 DEF Added
    <3>2. interactive[ip[d].ob] = d /\ ip[d].ob \in Objects
      BY <3>1, StructFacts DEF Links
    <3>3. PICK j \in Index : all_users[j] = d
      BY <3>1 DEF Links
    <3>4. d # Null
      BY ConnectionsAssumption
    <3>5. ip[d].ob # m /\ j # i
      BY <3>2, <3>3, <3>4
    <3> QED
      BY <3>1, <3>2, <3>3, <3>5 DEF Added
  <2> QED
    BY <2>1, <2>2
<1>4. ASSUME NEW j \in Index, all_users'[j] # Null PROVE ip'[all_users'[j]] # Null
  <2>1. CASE j = i
    BY <2>1 DEF Added
  <2>2. CASE j # i
    <3>1. all_users'[j] = all_users[j] /\ all_users[j] \in Conns /\ ip[all_users[j]] # Null
      BY <1>4, <2>2 DEF Added, Shape, Links
    <3> QED
      BY <3>1 DEF Added
  <2> QED
    BY <2>1, <2>2
<1>5. ASSUME NEW j \in Index, NEW k \in Index, all_users'[j] = all_users'[k], all_users'[j] # Null
      PROVE  j = k
  <2>1. \A l \in Index : all_users[l] # c
    BY <1>1 DEF Links
  <2> QED
    BY <1>5, <2>1 DEF Added, Links
<1> QED
  BY <1>2, <1>3, <1>4, <1>5 DEF Links
-----------------------------------------------------------------------------
(* Snoops.  Of a set that snoop_on does not lead out of, nobody outside is *)
(* snooped.                                                                *)
Kept(S) == S \subseteq Live /\ \A e \in S : ip[e].snoop_on \in S \cup {Null}

(* The complement of Snooped: some set closed under snoop_on shows it.     *)
LEMMA NotSnooped ==
  ASSUME NEW c \in Live, NEW x
  PROVE  c \notin Snooped(x) <=> \E S \in SUBSET Live : Kept(S) /\ x \in S /\ c \notin S
BY DEF Snooped, Kept

(* The two halves of SnoopsSound.                                          *)
Paired ==
  \A c \in Live :
    /\ ip[c].snoop_on # Null => ip[c].snoop_on \in Live /\ ip[ip[c].snoop_on].snoop_by = c
    /\ ip[c].snoop_by # Null => ip[c].snoop_by \in Live /\ ip[ip[c].snoop_by].snoop_on = c

NoCircle ==
  \A c \in Live : ip[c].snoop_on # Null =>
    \E S \in SUBSET Live : Kept(S) /\ ip[c].snoop_on \in S /\ c \notin S

(* SnoopsSound in the form that the proofs use.                            *)
LEMMA SnoopsAre == SnoopsSound <=> Paired /\ NoCircle
BY NotSnooped DEF SnoopsSound, Paired, NoCircle

(* Links that stay, or go on both sides.                                   *)
LEMMA SnoopsCut ==
  ASSUME Shape, Shape', SnoopsSound,
         \A d \in Conns : ip'[d] # Null => ip[d] # Null,
         \A d \in Conns : ip'[d] # Null => ip'[d].snoop_on \in {ip[d].snoop_on, Null},
         \A d \in Conns : ip'[d] # Null => ip'[d].snoop_by \in {ip[d].snoop_by, Null},
         \A d, e \in Conns : ip'[d] # Null /\ ip[d].snoop_on = e /\ ip'[d].snoop_on = e =>
                               ip'[e] # Null /\ ip'[e].snoop_by = ip[e].snoop_by,
         \A d, e \in Conns : ip'[d] # Null /\ ip[d].snoop_by = e /\ ip'[d].snoop_by = e =>
                               ip'[e] # Null /\ ip'[e].snoop_on = ip[e].snoop_on
  PROVE  SnoopsSound'
<1>1. Paired /\ NoCircle
  BY SnoopsAre
<1>2. Live' \subseteq Live
  BY DEF Live
<1>3. Paired'
  <2> SUFFICES ASSUME NEW d \in Live'
               PROVE  /\ ip'[d].snoop_on # Null =>
                           ip'[d].snoop_on \in Live' /\ ip'[ip'[d].snoop_on].snoop_by = d
                      /\ ip'[d].snoop_by # Null =>
                           ip'[d].snoop_by \in Live' /\ ip'[ip'[d].snoop_by].snoop_on = d
    BY DEF Paired
  <2>1. d \in Conns /\ ip'[d] # Null /\ d \in Live
    BY <1>2 DEF Live
  <2>2. ASSUME ip'[d].snoop_on # Null
        PROVE  ip'[d].snoop_on \in Live' /\ ip'[ip'[d].snoop_on].snoop_by = d
    <3>1. /\ ip'[d].snoop_on = ip[d].snoop_on /\ ip[d].snoop_on \in Live
          /\ ip[ip[d].snoop_on].snoop_by = d
      BY <1>1, <2>1, <2>2 DEF Paired
    <3> QED
      BY <2>1, <3>1 DEF Live
  <2>3. ASSUME ip'[d].snoop_by # Null
        PROVE  ip'[d].snoop_by \in Live' /\ ip'[ip'[d].snoop_by].snoop_on = d
    <3>1. /\ ip'[d].snoop_by = ip[d].snoop_by /\ ip[d].snoop_by \in Live
          /\ ip[ip[d].snoop_by].snoop_on = d
      BY <1>1, <2>1, <2>3 DEF Paired
    <3> QED
      BY <2>1, <3>1 DEF Live
  <2> QED
    BY <2>2, <2>3
<1>4. NoCircle'
  <2> SUFFICES ASSUME NEW d \in Live', ip'[d].snoop_on # Null
               PROVE  \E S \in SUBSET Live' : Kept(S)' /\ ip'[d].snoop_on \in S /\ d \notin S
    BY DEF NoCircle
  <2>1. d \in Live /\ d \in Conns /\ ip'[d] # Null /\ ip'[d].snoop_on = ip[d].snoop_on
    BY <1>2 DEF Live
  <2>2. PICK S \in SUBSET Live : Kept(S) /\ ip[d].snoop_on \in S /\ d \notin S
    BY <1>1, <2>1 DEF NoCircle
  <2>3. ip'[d].snoop_on \in Live'
    BY <1>3 DEF Paired
  <2>4. PICK T : T = S \cap Live'
    OBVIOUS
  <2>5. ASSUME NEW e \in T PROVE ip'[e].snoop_on \in T \cup {Null}
    <3>1. e \in Conns /\ ip'[e] # Null /\ ip[e].snoop_on \in S \cup {Null}
      BY <2>2, <2>4 DEF Live, Kept
    <3>2. ip'[e].snoop_on # Null => ip'[e].snoop_on \in Live'
      BY <1>3, <2>4 DEF Paired
    <3> QED
      BY <2>4, <3>1, <3>2
  <2>6. Kept(T)'
    BY <2>5, <2>4 DEF Kept
  <2> QED
    BY <2>1, <2>2, <2>3, <2>6, <2>4
<1> QED
  BY <1>3, <1>4, SnoopsAre DEF SnoopsSound, Paired, NoCircle, Snooped, Kept, Live

(* Steps that change no snoop link.                                        *)
LEMMA SnoopsKept ==
  ASSUME Shape, Shape', SnoopsSound, SameLive, SameSnoop
  PROVE  SnoopsSound'
<1>1. Paired
  BY SnoopsAre
<1>2. ASSUME NEW d \in Conns, ip[d] # Null
      PROVE  /\ ip[d].snoop_on # Null => ip[d].snoop_on \in Conns /\ ip[ip[d].snoop_on] # Null
             /\ ip[d].snoop_by # Null => ip[d].snoop_by \in Conns /\ ip[ip[d].snoop_by] # Null
  BY <1>1, <1>2 DEF Paired, Live
<1>3. \A d \in Conns : ip'[d] # Null => ip[d] # Null
  BY DEF SameLive
<1>4. \A d \in Conns : ip'[d] # Null =>
        /\ ip'[d].snoop_on \in {ip[d].snoop_on, Null} /\ ip'[d].snoop_by \in {ip[d].snoop_by, Null}
  BY <1>3 DEF SameSnoop
<1>5. \A d, e \in Conns : ip'[d] # Null /\ ip[d].snoop_on = e =>
        ip'[e] # Null /\ ip'[e].snoop_by = ip[e].snoop_by
  BY <1>2, <1>3, ConnectionsAssumption DEF SameLive, SameSnoop
<1>6. \A d, e \in Conns : ip'[d] # Null /\ ip[d].snoop_by = e =>
        ip'[e] # Null /\ ip'[e].snoop_on = ip[e].snoop_on
  BY <1>2, <1>3, ConnectionsAssumption DEF SameLive, SameSnoop
<1> QED
  BY <1>3, <1>4, <1>5, <1>6, SnoopsCut

(* A freed structure leaves none that points to it.                        *)
LEMMA SnoopsFreed ==
  ASSUME Shape, Shape', SnoopsSound, NEW c \in Conns, Freed(c)
  PROVE  SnoopsSound'
<1>1. Paired
  BY SnoopsAre
<1>2. ASSUME NEW d \in Conns, ip[d] # Null
      PROVE  /\ ip[d].snoop_on # Null => /\ ip[d].snoop_on \in Conns /\ ip[ip[d].snoop_on] # Null
                                         /\ ip[ip[d].snoop_on].snoop_by = d
             /\ ip[d].snoop_by # Null => /\ ip[d].snoop_by \in Conns /\ ip[ip[d].snoop_by] # Null
                                         /\ ip[ip[d].snoop_by].snoop_on = d
  BY <1>1, <1>2 DEF Paired, Live
<1>3. \A d \in Conns : ip'[d] # Null => ip[d] # Null /\ d # c
  BY DEF Freed
<1>4. \A d \in Conns : ip'[d] # Null =>
        /\ ip'[d].snoop_on \in {ip[d].snoop_on, Null} /\ ip'[d].snoop_by \in {ip[d].snoop_by, Null}
  BY <1>3 DEF Freed
<1>5. ASSUME NEW d \in Conns, NEW e \in Conns, ip'[d] # Null, ip[d].snoop_on = e, ip'[d].snoop_on = e
      PROVE  ip'[e] # Null /\ ip'[e].snoop_by = ip[e].snoop_by
  <2>1. e # Null /\ ip[e] # Null /\ ip[e].snoop_by = d /\ d # c /\ ip[d] # Null
    BY <1>2, <1>3, <1>5, ConnectionsAssumption
  <2>2. e # c
    BY <1>5, <2>1 DEF Freed
  <2> QED
    BY <2>1, <2>2 DEF Freed
<1>6. ASSUME NEW d \in Conns, NEW e \in Conns, ip'[d] # Null, ip[d].snoop_by = e, ip'[d].snoop_by = e
      PROVE  ip'[e] # Null /\ ip'[e].snoop_on = ip[e].snoop_on
  <2>1. e # Null /\ ip[e] # Null /\ ip[e].snoop_on = d /\ d # c /\ ip[d] # Null
    BY <1>2, <1>3, <1>6, ConnectionsAssumption
  <2>2. e # c
    BY <1>6, <2>1 DEF Freed
  <2> QED
    BY <2>1, <2>2 DEF Freed
<1> QED
  BY <1>3, <1>4, <1>5, <1>6, SnoopsCut

(* A new structure has no snoop links.                                     *)
LEMMA SnoopsAdded ==
  ASSUME Shape, SnoopsSound, NEW c \in Conns, NEW m, NEW i, ip[c] = Null, Added(c, m, i)
  PROVE  SnoopsSound'
<1>1. Paired /\ NoCircle
  BY SnoopsAre
<1>2. Live' = Live \cup {c} /\ c \notin Live /\ Live \subseteq Conns
  BY DEF Live, Added
<1>3. \A d \in Live : ip'[d] = ip[d]
  BY <1>2 DEF Added
<1>4. ip'[c].snoop_on = Null /\ ip'[c].snoop_by = Null
  BY DEF Added
<1>5. Paired'
  BY <1>1, <1>2, <1>3, <1>4 DEF Paired
<1>6. NoCircle'
  <2> SUFFICES ASSUME NEW d \in Live', ip'[d].snoop_on # Null
               PROVE  \E S \in SUBSET Live' : Kept(S)' /\ ip'[d].snoop_on \in S /\ d \notin S
    BY DEF NoCircle
  <2>1. d \in Live /\ ip'[d] = ip[d]
    BY <1>2, <1>3, <1>4
  <2>2. PICK S \in SUBSET Live : Kept(S) /\ ip[d].snoop_on \in S /\ d \notin S
    BY <1>1, <2>1 DEF NoCircle
  <2>3. Kept(S)'
    BY <1>2, <1>3, <2>2 DEF Kept
  <2> QED
    BY <1>2, <2>1, <2>2, <2>3
<1> QED
  BY <1>5, <1>6, SnoopsAre DEF SnoopsSound, Paired, NoCircle, Snooped, Kept, Live

(* The structures after new_set_snoop().                                   *)
Snooping(by, on) ==
  /\ ip' \in [Conns -> Interactive \cup {Null}]
  /\ SameLive /\ SameOwner /\ SameClosing /\ SameWaiting
  /\ \A d \in Conns : ip[d] # Null =>
       /\ ip'[d].snoop_by =
            IF d = on THEN by ELSE IF d = ip[by].snoop_on THEN Null ELSE ip[d].snoop_by
       /\ ip'[d].snoop_on =
            IF d = by THEN on ELSE IF d = ip[on].snoop_by THEN Null ELSE ip[d].snoop_on

(* What new_set_snoop() writes is what Snooping says.                      *)
LEMMA LinkedSnooping ==
  ASSUME Shape, NEW by \in Conns, NEW on \in Conns, ip' = Linked(ip, by, on)
  PROVE  Snooping(by, on)
<1> DEFINE new(d) == [ip[d] EXCEPT
             !.snoop_by = IF d = on THEN by ELSE IF d = ip[by].snoop_on THEN Null ELSE @,
             !.snoop_on = IF d = by THEN on ELSE IF d = ip[on].snoop_by THEN Null ELSE @]
<1>1. ip' = [d \in Conns |-> IF ip[d] = Null THEN Null ELSE new(d)]
  BY DEF Linked
<1>2. ASSUME NEW d \in Conns, ip[d] # Null
      PROVE  /\ new(d) \in Interactive
             /\ new(d).ob = ip[d].ob /\ new(d).CLOSING = ip[d].CLOSING
             /\ new(d).CMD_IN_BUF = ip[d].CMD_IN_BUF
             /\ new(d).snoop_by =
                  IF d = on THEN by ELSE IF d = ip[by].snoop_on THEN Null ELSE ip[d].snoop_by
             /\ new(d).snoop_on =
                  IF d = by THEN on ELSE IF d = ip[on].snoop_by THEN Null ELSE ip[d].snoop_on
  <2>1. ip[d] \in Interactive
    BY <1>2, StructFacts
  <2> QED
    BY <2>1 DEF Interactive
<1> HIDE DEF new
<1>3. \A d \in Conns : IF ip[d] = Null THEN ip'[d] = Null ELSE ip'[d] = new(d) /\ ip'[d] # Null
  BY <1>1, <1>2, NullAssumption
<1>4. ip' \in [Conns -> Interactive \cup {Null}]
  BY <1>1, <1>2
<1> QED
  BY <1>2, <1>3, <1>4 DEF Snooping, SameLive, SameOwner, SameClosing, SameWaiting

(* new_set_snoop() refuses circles: U, what on leads to, is without by.    *)
LEMMA SnoopsLinked ==
  ASSUME Shape, SnoopsSound, NEW by \in Live, NEW on \in Live, by \notin Snooped(on), Snooping(by, on)
  PROVE  SnoopsSound'
<1>1. Paired /\ NoCircle
  BY SnoopsAre
<1>2. Live' = Live /\ by \in Conns /\ on \in Conns /\ Null \notin Live /\ Live \subseteq Conns
  BY ConnectionsAssumption DEF Live, Snooping, SameLive
<1>3. PICK U \in SUBSET Live : Kept(U) /\ on \in U /\ by \notin U
  BY NotSnooped
<1>4. by # on /\ ip[by].snoop_on # by
  <2>1. ip[by].snoop_on = by => FALSE
    BY <1>1, <1>2 DEF NoCircle
  <2> QED
    BY <1>3, <2>1
<1>5. \A d \in Live :
        /\ ip'[d].snoop_by =
             IF d = on THEN by ELSE IF d = ip[by].snoop_on THEN Null ELSE ip[d].snoop_by
        /\ ip'[d].snoop_on =
             IF d = by THEN on ELSE IF d = ip[on].snoop_by THEN Null ELSE ip[d].snoop_on
  BY DEF Live, Snooping
<1>6. Paired'
  <2> SUFFICES ASSUME NEW d \in Live
               PROVE  /\ ip'[d].snoop_on # Null =>
                           ip'[d].snoop_on \in Live /\ ip'[ip'[d].snoop_on].snoop_by = d
                      /\ ip'[d].snoop_by # Null =>
                           ip'[d].snoop_by \in Live /\ ip'[ip'[d].snoop_by].snoop_on = d
    BY <1>2 DEF Paired
  <2>1. ASSUME ip'[d].snoop_on # Null
        PROVE  ip'[d].snoop_on \in Live /\ ip'[ip'[d].snoop_on].snoop_by = d
    <3>1. CASE d = by
      BY <1>5, <3>1
    <3>2. CASE d # by
      <4>1. ip'[d].snoop_on = ip[d].snoop_on /\ d # ip[on].snoop_by
        BY <1>5, <2>1, <3>2
      <4>2. PICK e \in Live : e = ip[d].snoop_on /\ ip[e].snoop_by = d
        BY <1>1, <2>1, <4>1 DEF Paired
      <4>3. e # on /\ e # ip[by].snoop_on
        BY <1>1, <1>2, <3>2, <4>1, <4>2 DEF Paired
      <4> QED
        BY <1>5, <4>1, <4>2, <4>3
    <3> QED
      BY <3>1, <3>2
  <2>2. ASSUME ip'[d].snoop_by # Null
        PROVE  ip'[d].snoop_by \in Live /\ ip'[ip'[d].snoop_by].snoop_on = d
    <3>1. CASE d = on
      BY <1>5, <3>1
    <3>2. CASE d # on
      <4>1. ip'[d].snoop_by = ip[d].snoop_by /\ d # ip[by].snoop_on
        BY <1>5, <2>2, <3>2
      <4>2. PICK e \in Live : e = ip[d].snoop_by /\ ip[e].snoop_on = d
        BY <1>1, <2>2, <4>1 DEF Paired
      <4>3. e # by /\ e # ip[on].snoop_by
        BY <1>1, <1>2, <3>2, <4>1, <4>2 DEF Paired
      <4> QED
        BY <1>5, <4>1, <4>2, <4>3
    <3> QED
      BY <3>1, <3>2
  <2> QED
    BY <2>1, <2>2
<1>7. NoCircle'
  <2> SUFFICES ASSUME NEW d \in Live, ip'[d].snoop_on # Null
               PROVE  \E S \in SUBSET Live : Kept(S)' /\ ip'[d].snoop_on \in S /\ d \notin S
    BY <1>2 DEF NoCircle
  <2>1. CASE d = by
    <3>1. Kept(U)'
      BY <1>2, <1>3, <1>5 DEF Kept
    <3> QED
      BY <1>3, <1>5, <2>1, <3>1
  <2>2. CASE d # by
    <3>1. ip'[d].snoop_on = ip[d].snoop_on
      BY <1>5, <2>2
    <3>2. PICK S \in SUBSET Live : Kept(S) /\ ip[d].snoop_on \in S /\ d \notin S
      BY <1>1, <3>1 DEF NoCircle
    <3>3. CASE d \in U
      <4>1. PICK T \in SUBSET Live : T = S \cap U
        BY <3>2
      <4>2. Kept(T)'
        BY <1>2, <1>3, <1>5, <3>2, <4>1 DEF Kept
      <4>3. ip[d].snoop_on \in U
        BY <1>3, <3>1, <3>3 DEF Kept
      <4> QED
        BY <3>1, <3>2, <4>1, <4>2, <4>3
    <3>4. CASE d \notin U
      <4>1. PICK T \in SUBSET Live : T = S \cup U
        BY <1>3, <3>2
      <4>2. Kept(T)'
        BY <1>2, <1>3, <1>5, <3>2, <4>1 DEF Kept
      <4> QED
        BY <3>1, <3>2, <3>4, <4>1, <4>2
    <3> QED
      BY <3>3, <3>4
  <2> QED
    BY <2>1, <2>2
<1> QED
  BY <1>6, <1>7, SnoopsAre DEF SnoopsSound, Paired, NoCircle, Snooped, Kept, Live

(* snoop(me) takes out one link on both sides.                             *)
LEMMA SnoopsStopped ==
  ASSUME Shape, SnoopsSound, NEW by \in Live, NEW on \in Conns, on = ip[by].snoop_on,
         ip' = [ip EXCEPT ![on].snoop_by = Null, ![by].snoop_on = Null]
  PROVE  /\ ip' \in [Conns -> Interactive \cup {Null}]
         /\ SameLive /\ SameOwner /\ SameClosing /\ SameWaiting
         /\ Shape' => SnoopsSound'
<1>1. Paired /\ NoCircle
  BY SnoopsAre
<1>2. by \in Conns /\ ip[by] # Null /\ on # Null
  BY ConnectionsAssumption DEF Live
<1>3. ip[on] # Null /\ ip[on].snoop_by = by /\ by # on
  <2>1. on = by => FALSE
    BY <1>1, <1>2 DEF NoCircle
  <2> QED
    BY <1>1, <1>2, <2>1 DEF Paired, Live
<1>4. ip[by] \in Interactive /\ ip[on] \in Interactive
  BY <1>2, <1>3, StructFacts
<1> DEFINE a == [ip[on] EXCEPT !.snoop_by = Null]
           b == [ip[by] EXCEPT !.snoop_on = Null]
<1>5. /\ a \in Interactive /\ a.ob = ip[on].ob /\ a.CLOSING = ip[on].CLOSING
      /\ a.CMD_IN_BUF = ip[on].CMD_IN_BUF /\ a.snoop_on = ip[on].snoop_on /\ a.snoop_by = Null
  BY <1>4 DEF Interactive
<1>6. /\ b \in Interactive /\ b.ob = ip[by].ob /\ b.CLOSING = ip[by].CLOSING
      /\ b.CMD_IN_BUF = ip[by].CMD_IN_BUF /\ b.snoop_by = ip[by].snoop_by /\ b.snoop_on = Null
  BY <1>4 DEF Interactive
<1>7. /\ ip'[on] = a /\ ip'[by] = b
      /\ \A d \in Conns : d \notin {on, by} => ip'[d] = ip[d]
  BY <1>2, <1>3 DEF Shape
<1>8. ip' \in [Conns -> Interactive \cup {Null}]
  <2>1. DOMAIN ip' = Conns /\ ip' = [d \in Conns |-> ip'[d]]
    BY DEF Shape
  <2>2. \A d \in Conns : ip'[d] \in Interactive \cup {Null}
    BY <1>5, <1>6, <1>7 DEF Shape
  <2> QED
    BY <2>1, <2>2
<1> HIDE DEF a, b
<1>9. a # Null /\ b # Null
  BY <1>5, <1>6, NullAssumption
<1>10. SameLive /\ SameOwner /\ SameClosing /\ SameWaiting
  BY <1>2, <1>3, <1>5, <1>6, <1>7, <1>9 DEF SameLive, SameOwner, SameClosing, SameWaiting
<1>11. \A d \in Conns : ip[d] # Null =>
         /\ ip'[d].snoop_on = IF d = by THEN Null ELSE ip[d].snoop_on
         /\ ip'[d].snoop_by = IF d = on THEN Null ELSE ip[d].snoop_by
  <2> SUFFICES ASSUME NEW d \in Conns, ip[d] # Null
               PROVE  /\ ip'[d].snoop_on = IF d = by THEN Null ELSE ip[d].snoop_on
                      /\ ip'[d].snoop_by = IF d = on THEN Null ELSE ip[d].snoop_by
    OBVIOUS
  <2>1. CASE d = on
    BY <1>3, <1>5, <1>7, <2>1
  <2>2. CASE d = by
    BY <1>3, <1>6, <1>7, <2>2
  <2>3. CASE d # on /\ d # by
    <3>1. ip'[d] = ip[d]
      BY <1>7, <2>3
    <3>2. ip'[d].snoop_on = ip[d].snoop_on /\ ip'[d].snoop_by = ip[d].snoop_by
      BY <3>1
    <3> QED
      BY <2>3, <3>2
  <2> QED
    BY <2>1, <2>2, <2>3
<1>12. \A d \in Conns : ip[d] # Null =>
         /\ ip[d].snoop_on # Null => /\ ip[d].snoop_on \in Conns /\ ip[ip[d].snoop_on] # Null
                                     /\ ip[ip[d].snoop_on].snoop_by = d
         /\ ip[d].snoop_by # Null => /\ ip[d].snoop_by \in Conns /\ ip[ip[d].snoop_by] # Null
                                     /\ ip[ip[d].snoop_by].snoop_on = d
  BY <1>1 DEF Paired, Live
<1>13. Shape' => SnoopsSound'
  <2>1. \A d \in Conns : ip'[d] # Null => ip[d] # Null
    BY <1>10 DEF SameLive
  <2>2. \A d \in Conns : ip'[d] # Null =>
          /\ ip'[d].snoop_on \in {ip[d].snoop_on, Null} /\ ip'[d].snoop_by \in {ip[d].snoop_by, Null}
    BY <1>11, <2>1
  <2>3. ASSUME NEW d \in Conns, NEW e \in Conns, ip'[d] # Null, ip[d].snoop_on = e, ip'[d].snoop_on = e
        PROVE  ip'[e] # Null /\ ip'[e].snoop_by = ip[e].snoop_by
    <3>1. e # Null /\ ip[d] # Null
      BY <2>1, <2>3, ConnectionsAssumption
    <3>2. ip[e] # Null /\ ip[e].snoop_by = d /\ d # by
      BY <1>11, <1>12, <2>3, <3>1
    <3>3. e # on
      BY <1>3, <3>2
    <3> QED
      BY <1>10, <1>11, <3>2, <3>3 DEF SameLive
  <2>4. ASSUME NEW d \in Conns, NEW e \in Conns, ip'[d] # Null, ip[d].snoop_by = e, ip'[d].snoop_by = e
        PROVE  ip'[e] # Null /\ ip'[e].snoop_on = ip[e].snoop_on
    <3>1. e # Null /\ ip[d] # Null
      BY <2>1, <2>4, ConnectionsAssumption
    <3>2. ip[e] # Null /\ ip[e].snoop_on = d /\ d # on
      BY <1>11, <1>12, <2>4, <3>1
    <3>3. e # by
      BY <3>2
    <3> QED
      BY <1>10, <1>11, <3>2, <3>3 DEF SameLive
  <2> QED
    BY <2>1, <2>2, <2>3, <2>4, SnoopsCut, ZenonT(30)
<1> QED
  BY <1>8, <1>10, <1>13
-----------------------------------------------------------------------------
(* Counters.                                                               *)

Hidden == {c \in Live : ip[c].ob \in O_HIDDEN}

(* The counters are the cardinalities of finite sets.                      *)
LEMMA CountFacts ==
  ASSUME CountsAgree
  PROVE  /\ IsFiniteSet(Live) /\ IsFiniteSet(Hidden)
         /\ num_user = Cardinality(Live) /\ num_hidden = Cardinality(Hidden)
         /\ num_user \in Nat /\ num_hidden \in Nat /\ num_hidden <= num_user
<1>1. Live \in SUBSET Conns /\ Hidden \in SUBSET Live
  BY DEF Live, Hidden
<1>2. IsFiniteSet(Live)
  BY <1>1, FS_Subset, ConnectionsAssumption
<1>3. IsFiniteSet(Hidden) /\ Cardinality(Hidden) <= Cardinality(Live)
  BY <1>1, <1>2, FS_Subset
<1>4. Cardinality(Live) \in Nat /\ Cardinality(Hidden) \in Nat
  BY <1>2, <1>3, FS_CardinalityType
<1> QED
  BY <1>2, <1>3, <1>4 DEF CountsAgree, Hidden

(* Steps that change no owner and hide nobody.                             *)
LEMMA CountsKept ==
  ASSUME CountsAgree, SameLive, SameOwner, UNCHANGED <<O_HIDDEN, num_user, num_hidden>>
  PROVE  CountsAgree'
<1>1. Live' = Live
  BY DEF Live, SameLive
<1>2. Hidden' = Hidden
  BY <1>1 DEF Hidden, SameOwner, Live
<1>3. num_user' = Cardinality(Live') /\ num_hidden' = Cardinality(Hidden')
  BY <1>1, <1>2, CountFacts
<1> QED
  BY <1>3 DEF CountsAgree, Hidden

(* One connection less, and one hidden less if its owner hides.            *)
LEMMA CountsFreed ==
  ASSUME CountsAgree, NEW o, NEW c \in Conns, ip[c] # Null, ip[c].ob = o, Freed(c),
         num_user' = num_user - 1, O_HIDDEN' = O_HIDDEN,
         num_hidden' = num_hidden - (IF o \in O_HIDDEN THEN 1 ELSE 0)
  PROVE  CountsAgree'
<1>1. Live' = Live \ {c} /\ c \in Live
  BY DEF Live, Freed
<1>2. Hidden' = Hidden \ {c}
  BY <1>1 DEF Hidden, Freed, Live
<1>3. c \in Hidden <=> o \in O_HIDDEN
  BY <1>1 DEF Hidden
<1>4. Cardinality(Live \ {c}) = num_user - 1
  BY <1>1, CountFacts, FS_RemoveElement
<1>5. Cardinality(Hidden \ {c}) = IF c \in Hidden THEN num_hidden - 1 ELSE num_hidden
  BY CountFacts, FS_RemoveElement
<1>6. num_hidden' = IF c \in Hidden THEN num_hidden - 1 ELSE num_hidden
  BY <1>3, CountFacts
<1>7. num_user' = Cardinality(Live') /\ num_hidden' = Cardinality(Hidden')
  BY <1>1, <1>2, <1>4, <1>5, <1>6
<1> QED
  BY <1>7 DEF CountsAgree, Hidden

(* One owner for another, either of them hidden or not.                    *)
LEMMA CountsMoved ==
  ASSUME CountsAgree, NEW from, NEW o, NEW c \in Conns, ip[c] # Null, ip[c].ob = from,
         Moved(c, from, o), SameLive, UNCHANGED <<num_user, O_HIDDEN>>,
         num_hidden' = num_hidden + (IF o \in O_HIDDEN THEN 1 ELSE 0)
                                  - (IF from \in O_HIDDEN THEN 1 ELSE 0)
  PROVE  CountsAgree'
<1>1. Live' = Live /\ c \in Live
  BY DEF Live, SameLive
<1>2. c \in Hidden <=> from \in O_HIDDEN
  BY <1>1 DEF Hidden
<1>3. Hidden' = IF o \in O_HIDDEN THEN (Hidden \ {c}) \cup {c} ELSE Hidden \ {c}
  BY <1>1 DEF Hidden, Moved, Live
<1>4. /\ IsFiniteSet(Hidden \ {c})
      /\ Cardinality(Hidden \ {c}) = num_hidden - (IF from \in O_HIDDEN THEN 1 ELSE 0)
  BY <1>2, CountFacts, FS_RemoveElement
<1>5. Cardinality((Hidden \ {c}) \cup {c}) = Cardinality(Hidden \ {c}) + 1
  <2> DEFINE T == Hidden \ {c}
  <2>1. c \notin T /\ IsFiniteSet(T)
    BY <1>4
  <2> HIDE DEF T
  <2>2. Cardinality(T \cup {c}) = Cardinality(T) + 1
    BY <2>1, FS_AddElement
  <2> QED
    BY <2>2 DEF T
<1>6. num_hidden \in Nat
  BY CountFacts
<1>7. num_hidden' = Cardinality(Hidden')
  <2>1. CASE o \in O_HIDDEN
    BY <1>3, <1>4, <1>5, <1>6, <2>1
  <2>2. CASE o \notin O_HIDDEN
    BY <1>3, <1>4, <1>6, <2>2
  <2> QED
    BY <2>1, <2>2
<1>8. num_user' = Cardinality(Live')
  BY <1>1, CountFacts
<1> QED
  BY <1>7, <1>8 DEF CountsAgree, Hidden

(* One connection more, of an owner that does not hide.                    *)
LEMMA CountsAdded ==
  ASSUME CountsAgree, NEW c \in Conns, NEW m, NEW i, ip[c] = Null, Added(c, m, i),
         m \notin O_HIDDEN, num_user' = num_user + 1, UNCHANGED <<num_hidden, O_HIDDEN>>
  PROVE  CountsAgree'
<1>1. Live' = Live \cup {c} /\ c \notin Live
  BY DEF Live, Added
<1>2. Hidden' = Hidden
  BY <1>1 DEF Hidden, Added, Live
<1>3. Cardinality(Live \cup {c}) = num_user + 1
  BY <1>1, CountFacts, FS_AddElement
<1>4. num_user' = Cardinality(Live') /\ num_hidden' = Cardinality(Hidden')
  BY <1>1, <1>2, <1>3, CountFacts
<1> QED
  BY <1>4 DEF CountsAgree, Hidden

(* set_hide() of an object with or without connection.                     *)
LEMMA CountsHide ==
  ASSUME Shape, Links, CountsAgree, NEW o \in Objects, NEW hide \in BOOLEAN, f_set_hide(o, hide)
  PROVE  CountsAgree'
<1>1. /\ O_HIDDEN' = IF hide THEN O_HIDDEN \cup {o} ELSE O_HIDDEN \ {o}
      /\ UNCHANGED <<ip, num_user>>
      /\ num_hidden' = CASE interactive[o] # Null /\ hide /\ o \notin O_HIDDEN -> num_hidden + 1
                         [] interactive[o] # Null /\ ~hide /\ o \in O_HIDDEN -> num_hidden - 1
                         [] OTHER -> num_hidden
  BY DEF f_set_hide
<1>2. Live' = Live /\ num_user' = Cardinality(Live')
  BY <1>1, CountFacts DEF Live
<1>3. \A d \in Live : d \in Conns /\ ip[d].ob \in Objects /\ interactive[ip[d].ob] = d
  BY StructFacts DEF Live, Links
<1>4. Hidden' = {d \in Live : ip[d].ob \in O_HIDDEN'}
  BY <1>1, <1>2 DEF Hidden
<1>5. CASE interactive[o] = Null
  <2>1. \A d \in Live : ip[d].ob # o
    BY <1>3, <1>5, ConnectionsAssumption
  <2>2. Hidden' = Hidden
    BY <1>1, <1>4, <2>1 DEF Hidden
  <2>3. num_hidden' = num_hidden
    BY <1>1, <1>5
  <2> QED
    BY <1>2, <2>2, <2>3, CountFacts DEF CountsAgree, Hidden
<1>6. CASE interactive[o] # Null
  <2> DEFINE c == interactive[o]
  <2>1. c \in Live /\ ip[c].ob = o
    BY <1>6 DEF Links, Live, Shape
  <2>2. \A d \in Live : ip[d].ob = o <=> d = c
    BY <1>3, <2>1
  <2> HIDE DEF c
  <2>3. c \in Hidden <=> o \in O_HIDDEN
    BY <2>1 DEF Hidden
  <2>4. Hidden' = IF hide THEN Hidden \cup {c} ELSE Hidden \ {c}
    BY <1>1, <1>4, <2>1, <2>2 DEF Hidden
  <2>5. /\ Cardinality(Hidden \cup {c}) = IF c \in Hidden THEN num_hidden ELSE num_hidden + 1
        /\ Cardinality(Hidden \ {c}) = IF c \in Hidden THEN num_hidden - 1 ELSE num_hidden
    BY CountFacts, FS_AddElement, FS_RemoveElement
  <2>6. CASE hide
    <3>1. num_hidden' = IF o \in O_HIDDEN THEN num_hidden ELSE num_hidden + 1
      BY <1>1, <1>6, <2>6
    <3> QED
      BY <1>2, <2>3, <2>4, <2>5, <2>6, <3>1 DEF CountsAgree, Hidden
  <2>7. CASE ~hide
    <3>1. num_hidden' = IF o \in O_HIDDEN THEN num_hidden - 1 ELSE num_hidden
      BY <1>1, <1>6, <2>7
    <3> QED
      BY <1>2, <2>3, <2>4, <2>5, <2>7, <3>1 DEF CountsAgree, Hidden
  <2> QED
    BY <2>6, <2>7
<1> QED
  BY <1>5, <1>6
-----------------------------------------------------------------------------
(* Turns.                                                                  *)

SlotOf(c) == CHOOSE i \in Index : all_users[i] = c

(* How far an index counted down, round the table, is from another.        *)
LEMMA TurnIs ==
  ASSUME NEW n \in Nat \ {0}, NEW g \in 0..(n - 1), NEW k \in 0..(n - 1)
  PROVE  ((g - k) % n) = IF k <= g THEN g - k ELSE g - k + n
<1>1. CASE k <= g
  <2>1. g - k \in 0..(n - 1) /\ g - k = n * 0 + (g - k) /\ g - k \in Int /\ 0 \in Int
    BY <1>1
  <2> QED
    BY <1>1, <2>1, DivModIs
<1>2. CASE ~(k <= g)
  <2>1. g - k + n \in 0..(n - 1) /\ g - k = n * (-1) + (g - k + n) /\ g - k \in Int /\ -1 \in Int
    BY <1>2
  <2> QED
    BY <1>2, <2>1, DivModIs
<1> QED
  BY <1>1, <1>2

(* Where a connection is and how many steps its turn is away.              *)
LEMMA TurnFacts ==
  ASSUME Shape, Links, NEW c \in Conns, ip[c] # Null
  PROVE  /\ SlotOf(c) \in Index /\ all_users[SlotOf(c)] = c
         /\ \A i \in Index : all_users[i] = c => i = SlotOf(c)
         /\ SlotOf(c) \in 0..(Slots - 1) /\ NextCmdGiver \in 0..(Slots - 1)
         /\ Turn(c) = IF SlotOf(c) <= NextCmdGiver THEN NextCmdGiver - SlotOf(c)
                      ELSE NextCmdGiver - SlotOf(c) + Slots
<1>1. \E i \in Index : all_users[i] = c
  BY DEF Links
<1>2. SlotOf(c) \in Index /\ all_users[SlotOf(c)] = c
  BY <1>1 DEF SlotOf
<1>3. \A i \in Index : all_users[i] = c => i = SlotOf(c)
  BY <1>2, ConnectionsAssumption DEF Links
<1>4. SlotOf(c) \in 0..(Slots - 1) /\ NextCmdGiver \in 0..(Slots - 1) /\ Slots \in Nat \ {0}
  BY <1>2, ConnectionsAssumption DEF Index, Shape
<1>5. Turn(c) = (NextCmdGiver - SlotOf(c)) % Slots
  BY DEF Turn, SlotOf
<1> QED
  BY <1>2, <1>3, <1>4, <1>5, TurnIs

(* Connections that stay in their slots keep their turns while             *)
(* NextCmdGiver stays.                                                     *)
LEMMA TurnsStay ==
  ASSUME Shape, Links, Shape', Links', ServedBehind, NextCmdGiver' = NextCmdGiver,
         \A d \in Conns : ip[d] # Null /\ ip'[d] # Null =>
           \A i \in Index : all_users[i] = d => all_users'[i] = d,
         \A d \in Conns : passed'[d] \subseteq passed[d],
         \A d \in Conns : passed'[d] # {} => ip'[d] # Null /\ ip'[d].CMD_IN_BUF,
         \A d \in Conns : \A c \in passed'[d] : ip'[c] # Null
  PROVE  ServedBehind'
<1>1. ASSUME NEW d \in Conns, ip[d] # Null, ip'[d] # Null PROVE Turn(d)' = Turn(d)
  <2>1. SlotOf(d) \in Index /\ all_users[SlotOf(d)] = d
    BY <1>1, TurnFacts
  <2>2. all_users'[SlotOf(d)] = d
    BY <1>1, <2>1
  <2>3. \E i \in Index : all_users'[i] = d
    BY <2>1, <2>2
  <2>4. SlotOf(d)' \in Index /\ all_users'[SlotOf(d)'] = d
    BY <2>3 DEF SlotOf
  <2>5. SlotOf(d)' = SlotOf(d)
    BY <2>1, <2>2, <2>4, ConnectionsAssumption DEF Links
  <2>6. Turn(d)' = (NextCmdGiver' - SlotOf(d)') % Slots /\ Turn(d) = (NextCmdGiver - SlotOf(d)) % Slots
    BY DEF Turn, SlotOf
  <2> QED
    BY <2>5, <2>6
<1> SUFFICES ASSUME NEW d \in Conns, NEW c \in passed'[d]
             PROVE  d \in Waiting' /\ c \in Live' /\ Turn(d)' < Turn(c)'
  BY DEF ServedBehind
<1>2. c \in passed[d] /\ c \in Conns /\ d \in Live /\ c \in Live /\ Turn(d) < Turn(c)
  BY DEF ServedBehind, Waiting, Shape
<1>3. ip'[d] # Null /\ ip'[d].CMD_IN_BUF /\ ip'[c] # Null
  OBVIOUS
<1>4. Turn(d)' = Turn(d) /\ Turn(c)' = Turn(c)
  BY <1>1, <1>2, <1>3 DEF Live
<1> QED
  BY <1>2, <1>3, <1>4 DEF Live, Waiting

(* Nothing about the turns changes.                                        *)
LEMMA TurnsKept ==
  ASSUME Shape, Links, Shape', Links', ServedBehind, UNCHANGED <<NextCmdGiver, all_users, passed>>,
         SameLive, SameWaiting
  PROVE  ServedBehind'
<1>1. \A d \in Conns : \A c \in passed[d] : c \in Conns /\ ip[d] # Null /\ ip[d].CMD_IN_BUF /\ ip[c] # Null
  BY DEF ServedBehind, Waiting, Live, Shape
<1>2. \A d \in Conns : passed'[d] # {} => ip'[d] # Null /\ ip'[d].CMD_IN_BUF
  BY <1>1 DEF SameLive, SameWaiting
<1>3. \A d \in Conns : \A c \in passed'[d] : ip'[c] # Null
  BY <1>1 DEF SameLive
<1> QED
  BY <1>2, <1>3, TurnsStay

(* The turns of the others when one is freed.                              *)
LEMMA TurnsFreed ==
  ASSUME Shape, Links, Shape', Links', ServedBehind, NEW o, NEW c \in Conns, FinishRemove(o, c), Freed(c),
         NextCmdGiver' = NextCmdGiver
  PROVE  ServedBehind'
<1>1. /\ \A i \in Index : all_users'[i] = IF all_users[i] = c THEN Null ELSE all_users[i]
      /\ \A d \in Conns : passed'[d] = IF d = c THEN {} ELSE passed[d] \ {c}
  BY DEF FinishRemove
<1>2. \A d \in Conns : \A e \in passed[d] : e \in Conns /\ ip[d] # Null /\ ip[d].CMD_IN_BUF /\ ip[e] # Null
  BY DEF ServedBehind, Waiting, Live, Shape
<1>3. \A d \in Conns : ip[d] # Null /\ ip'[d] # Null => d # c
  BY DEF Freed
<1>4. \A d \in Conns : passed'[d] # {} => ip'[d] # Null /\ ip'[d].CMD_IN_BUF
  BY <1>1, <1>2, ZenonT(30) DEF Freed
<1>5. ASSUME NEW d \in Conns, NEW e \in passed'[d] PROVE ip'[e] # Null
  <2>1. e \in passed[d] /\ e # c
    BY <1>1
  <2>2. e \in Conns /\ ip[e] # Null
    BY <1>2, <2>1
  <2> QED
    BY <2>1, <2>2 DEF Freed
<1>6. \A d \in Conns : passed'[d] \subseteq passed[d]
  BY <1>1
<1>7. \A d \in Conns : ip[d] # Null /\ ip'[d] # Null =>
        \A i \in Index : all_users[i] = d => all_users'[i] = d
  BY <1>1, <1>3
<1> QED
  BY <1>4, <1>5, <1>6, <1>7, TurnsStay

(* The turns of the others when one is new.                                *)
LEMMA TurnsAdded ==
  ASSUME Shape, Links, Shape', Links', ServedBehind, NEW c \in Conns, NEW m, NEW i \in Index,
         ip[c] = Null, all_users[i] = Null, Added(c, m, i), UNCHANGED <<NextCmdGiver, passed>>
  PROVE  ServedBehind'
<1>1. \A d \in Conns : \A e \in passed[d] : e \in Conns /\ ip[d] # Null /\ ip[d].CMD_IN_BUF /\ ip[e] # Null
  BY DEF ServedBehind, Waiting, Live, Shape
<1>2. \A d \in Conns : passed'[d] # {} => ip'[d] # Null /\ ip'[d].CMD_IN_BUF
  BY <1>1 DEF Added
<1>3. \A d \in Conns : \A e \in passed'[d] : ip'[e] # Null
  BY <1>1 DEF Added
<1>4. \A d \in Conns : ip[d] # Null /\ ip'[d] # Null =>
        \A k \in Index : all_users[k] = d => all_users'[k] = d
  BY ConnectionsAssumption DEF Added
<1> QED
  BY <1>2, <1>3, <1>4, TurnsStay

(* What a turn taken does to those who come later: arithmetic.             *)
LEMMA TurnTaken ==
  ASSUME NEW n \in Nat \ {0}, NEW g \in 0..(n - 1), NEW e \in 0..(n - 1), NEW d \in 0..(n - 1), d # e,
         NEW h, h = IF e = 0 THEN n - 1 ELSE e - 1,
         (IF e <= g THEN g - e ELSE g - e + n) < (IF d <= g THEN g - d ELSE g - d + n)
  PROVE  (IF d <= h THEN h - d ELSE h - d + n) =
           (IF d <= g THEN g - d ELSE g - d + n) - (IF e <= g THEN g - e ELSE g - e + n) - 1
OBVIOUS

(* The one served has the longest way to go: arithmetic.                   *)
LEMMA TurnGone ==
  ASSUME NEW n \in Nat \ {0}, NEW e \in 0..(n - 1), NEW h, h = IF e = 0 THEN n - 1 ELSE e - 1
  PROVE  /\ h \in 0..(n - 1) /\ h = ((e - 1) % n)
         /\ (IF e <= h THEN h - e ELSE h - e + n) = n - 1
<1>1. h \in 0..(n - 1) /\ (IF e <= h THEN h - e ELSE h - e + n) = n - 1
  OBVIOUS
<1>2. e - 1 = n * (IF e = 0 THEN -1 ELSE 0) + h
  OBVIOUS
<1> QED
  BY <1>1, <1>2, DivModIs

(* The flags of commands: d's is what it was, unless d is in S.            *)
Cleared(S) ==
  /\ \A d \in Conns : d \in S => ip'[d] = [ip[d] EXCEPT !.CMD_IN_BUF = FALSE]
  /\ \A d \in Conns : d \notin S => ip'[d] = ip[d]

(* Clearing flags changes nothing else.                                    *)
LEMMA ClearedFacts ==
  ASSUME Shape, NEW S \in SUBSET Live, Cleared(S), ip' = [d \in Conns |-> ip'[d]]
  PROVE  /\ ip' \in [Conns -> Interactive \cup {Null}]
         /\ SameLive /\ SameOwner /\ SameSnoop /\ SameClosing
<1>1. ASSUME NEW d \in S
      PROVE  /\ d \in Conns /\ ip[d] # Null
             /\ ip'[d] \in Interactive /\ ip'[d].ob = ip[d].ob /\ ip'[d].CLOSING = ip[d].CLOSING
             /\ ip'[d].snoop_on = ip[d].snoop_on /\ ip'[d].snoop_by = ip[d].snoop_by
  <2>1. d \in Conns /\ ip[d] # Null /\ ip[d] \in Interactive
    BY StructFacts DEF Live
  <2>2. ip'[d] = [ip[d] EXCEPT !.CMD_IN_BUF = FALSE]
    BY <2>1 DEF Cleared
  <2> QED
    BY <2>1, <2>2 DEF Interactive
<1>2. \A d \in Conns : d \notin S => ip'[d] = ip[d]
  BY DEF Cleared
<1>3. \A d \in Conns : ip'[d] \in Interactive \cup {Null}
  BY <1>1, <1>2 DEF Shape
<1>4. SameLive
  BY <1>1, <1>2, NullAssumption DEF SameLive
<1>5. SameOwner /\ SameSnoop /\ SameClosing
  BY <1>1, <1>2 DEF SameOwner, SameSnoop, SameClosing
<1> QED
  BY <1>3, <1>4, <1>5

(* Whoever still waits after a turn is now before the one who took it.     *)
LEMMA TurnsServed ==
  ASSUME Shape, Links, Shape', Links', SameLive, ServedBehind, NEW c \in Conns, NEW more \in BOOLEAN,
         process_user_command(c, more)
  PROVE  ServedBehind'
<1> DEFINE partial == {d \in Waiting : Turn(d) < Turn(c)}
<1>1. /\ c \in Conns /\ ip[c] # Null /\ all_users' = all_users /\ NextCmdGiver' = After(c)
      /\ \A d \in Conns : passed'[d] =
           IF d \in Waiting \ (partial \cup {c}) THEN passed[d] \cup {c} ELSE {}
      /\ \A d \in Conns : d \notin partial \cup {c} => ip'[d] = ip[d]
  BY DEF process_user_command, Waiting, Live
<1> DEFINE n == Slots  g == NextCmdGiver  e == SlotOf(c)  h == NextCmdGiver'
<1>2. n \in Nat \ {0} /\ g \in 0..(n - 1) /\ e \in 0..(n - 1)
  BY <1>1, TurnFacts, ConnectionsAssumption
<1>3. h = ((e - 1) % n)
  BY <1>1 DEF After, SlotOf
<1>4. /\ h = (IF e = 0 THEN n - 1 ELSE e - 1) /\ h \in 0..(n - 1)
      /\ (IF e <= h THEN h - e ELSE h - e + n) = n - 1
  <2>1. PICK k : k = IF e = 0 THEN n - 1 ELSE e - 1
    OBVIOUS
  <2>2. k = ((e - 1) % n) /\ k \in 0..(n - 1) /\ (IF e <= k THEN k - e ELSE k - e + n) = n - 1
    BY <1>2, <2>1, TurnGone
  <2> QED
    BY <1>3, <2>1, <2>2
<1>5. ASSUME NEW d \in Conns, ip[d] # Null
      PROVE  /\ SlotOf(d) \in 0..(n - 1) /\ all_users[SlotOf(d)] = d
             /\ Turn(d) = IF SlotOf(d) <= g THEN g - SlotOf(d) ELSE g - SlotOf(d) + n
             /\ Turn(d)' = IF SlotOf(d) <= h THEN h - SlotOf(d) ELSE h - SlotOf(d) + n
  <2>1. /\ SlotOf(d) \in 0..(n - 1) /\ all_users[SlotOf(d)] = d
        /\ Turn(d) = IF SlotOf(d) <= g THEN g - SlotOf(d) ELSE g - SlotOf(d) + n
    BY <1>5, TurnFacts
  <2>2. Turn(d)' = (h - SlotOf(d)) % n
    BY <1>1 DEF Turn, SlotOf
  <2>3. ((h - SlotOf(d)) % n) = IF SlotOf(d) <= h THEN h - SlotOf(d) ELSE h - SlotOf(d) + n
    BY <1>2, <1>4, <2>1, TurnIs
  <2> QED
    BY <2>1, <2>2, <2>3
<1>6. ASSUME NEW d \in Conns, ip[d] # Null, d # c, ~(Turn(d) < Turn(c))
      PROVE  /\ Turn(c) < Turn(d) /\ Turn(d)' = Turn(d) - Turn(c) - 1
             /\ Turn(c) \in Nat /\ Turn(d) \in 0..(n - 1)
  <2>1. PICK k : k = SlotOf(d)
    OBVIOUS
  <2>2. k \in 0..(n - 1) /\ k # e
    BY <1>1, <1>5, <1>6, <2>1
  <2>3. /\ Turn(d) = (IF k <= g THEN g - k ELSE g - k + n)
        /\ Turn(c) = (IF e <= g THEN g - e ELSE g - e + n)
        /\ Turn(d)' = (IF k <= h THEN h - k ELSE h - k + n)
    BY <1>1, <1>5, <1>6, <2>1
  <2>4. (IF e <= g THEN g - e ELSE g - e + n) < (IF k <= g THEN g - k ELSE g - k + n)
    <3> HIDE DEF n, g, e, h
    <3> QED
      BY <1>2, <1>6, <2>2, <2>3
  <2>5. (IF k <= h THEN h - k ELSE h - k + n) =
           (IF k <= g THEN g - k ELSE g - k + n) - (IF e <= g THEN g - e ELSE g - e + n) - 1
    BY <1>2, <1>4, <2>2, <2>4, TurnTaken
  <2> HIDE DEF n, g, e, h
  <2> QED
    BY <1>2, <2>2, <2>3, <2>4, <2>5
<1>7. Turn(c)' = n - 1
  BY <1>1, <1>4, <1>5
<1> SUFFICES ASSUME NEW d \in Conns, NEW b \in passed'[d]
             PROVE  d \in Waiting' /\ b \in Live' /\ Turn(d)' < Turn(b)'
  BY DEF ServedBehind
<1>8. d \in Waiting /\ d # c /\ d \notin partial /\ b \in passed[d] \cup {c}
  BY <1>1
<1>9. ip[d] # Null /\ ip[d].CMD_IN_BUF /\ ~(Turn(d) < Turn(c)) /\ ip'[d] = ip[d]
  BY <1>1, <1>8 DEF Waiting, Live
<1>10. d \in Waiting'
  BY <1>9 DEF Waiting, Live
<1>11. /\ Turn(c) < Turn(d) /\ Turn(d)' = Turn(d) - Turn(c) - 1 /\ Turn(c) \in Nat
       /\ Turn(d) \in 0..(n - 1)
  BY <1>6, <1>8, <1>9
<1>12. CASE b = c
  <2>1. Turn(d)' < Turn(b)'
    BY <1>2, <1>7, <1>11, <1>12
  <2> QED
    BY <1>1, <1>10, <1>12, <2>1 DEF Live, SameLive
<1>13. CASE b # c
  <2>1. b \in passed[d] /\ b \in Conns /\ ip[b] # Null /\ Turn(d) < Turn(b)
    BY <1>8, <1>13 DEF ServedBehind, Live
  <2>2. Turn(b) \in Nat /\ Turn(c) \in Nat /\ Turn(d) \in Nat
    <3>1. PICK k : k = SlotOf(b)
      OBVIOUS
    <3>2. k \in 0..(n - 1) /\ Turn(b) = (IF k <= g THEN g - k ELSE g - k + n)
      BY <1>5, <2>1, <3>1
    <3> HIDE DEF n, g, e, h
    <3> QED
      BY <1>2, <1>11, <3>2
  <2>3. ~(Turn(b) < Turn(c))
    BY <1>11, <2>1, <2>2
  <2>4. Turn(b)' = Turn(b) - Turn(c) - 1
    BY <1>6, <1>13, <2>1, <2>3
  <2>5. Turn(d)' < Turn(b)'
    BY <1>11, <2>1, <2>2, <2>4
  <2> QED
    BY <1>10, <2>1, <2>5 DEF Live, SameLive
<1> QED
  BY <1>12, <1>13

(* A new command has been typed: nobody was served while it waits.         *)
LEMMA TurnsTyped ==
  ASSUME Shape, Links, Shape', Links', SameLive, ServedBehind, NEW c \in Conns, get_user_data(c)
  PROVE  ServedBehind'
<1>1. /\ UNCHANGED <<NextCmdGiver, all_users>>
      /\ passed'[c] = {} /\ \A d \in Conns : d # c => passed'[d] = passed[d] /\ ip'[d] = ip[d]
  BY DEF get_user_data, Shape
<1>2. \A d \in Conns : \A e \in passed[d] : e \in Conns /\ ip[d] # Null /\ ip[d].CMD_IN_BUF /\ ip[e] # Null
  BY DEF ServedBehind, Waiting, Live, Shape
<1>3. \A d \in Conns : passed'[d] \subseteq passed[d]
  BY <1>1
<1>4. ASSUME NEW d \in Conns, passed'[d] # {} PROVE ip'[d] # Null /\ ip'[d].CMD_IN_BUF
  <2>1. d # c /\ passed[d] # {}
    BY <1>1, <1>4
  <2> QED
    BY <1>1, <1>2, <2>1
<1>5. \A d \in Conns : \A e \in passed'[d] : ip'[e] # Null
  BY <1>2, <1>3 DEF SameLive
<1> QED
  BY <1>1, <1>3, <1>4, <1>5, TurnsStay
-----------------------------------------------------------------------------
(* The calls under way.                                                    *)

Calls == Closings /\ CallsNested /\ FreshMasters

(* No call of net_dead() is under way.                                     *)
Plain(s) == s = <<>> \/ (Len(s) = 1 /\ s[1].fun # "net_dead")

(* The stack is a sequence of frames.                                      *)
LEMMA StackFacts ==
  ASSUME NEW s \in Seq(Frame)
  PROVE  /\ Len(s) \in Nat /\ DOMAIN s = 1..Len(s)
         /\ \A n \in 1..Len(s) : s[n] \in Frame
         /\ s # <<>> <=> Len(s) >= 1
         /\ Plain(s) => \A n \in DOMAIN s : n = 1 /\ s[n].fun # "net_dead"
<1>1. Len(s) \in Nat /\ DOMAIN s = 1..Len(s) /\ \A n \in 1..Len(s) : s[n] \in Frame
  BY LenProperties, ElementOfSeq
<1>2. s # <<>> <=> Len(s) # 0
  BY EmptySeq
<1> QED
  BY <1>1, <1>2 DEF Plain

(* A call goes on top of the others.                                       *)
LEMMA Pushed ==
  ASSUME NEW s \in Seq(Frame), NEW f \in Frame
  PROVE  /\ Append(s, f) \in Seq(Frame) /\ Len(s) \in Nat
         /\ DOMAIN s = 1..Len(s) /\ DOMAIN Append(s, f) = 1..(Len(s) + 1)
         /\ Len(Append(s, f)) = Len(s) + 1
         /\ \A n \in 1..Len(s) : Append(s, f)[n] = s[n]
         /\ Append(s, f)[Len(s) + 1] = f
<1>1. /\ Append(s, f) \in Seq(Frame) /\ Len(Append(s, f)) = Len(s) + 1
      /\ \A n \in 1..Len(s) : Append(s, f)[n] = s[n]
      /\ Append(s, f)[Len(s) + 1] = f
  BY AppendProperties
<1> QED
  BY <1>1, LenProperties

(* The call on top returns.                                                *)
LEMMA Popped ==
  ASSUME Shape, LpcRuns
  PROVE  /\ Pop \in Seq(Frame) /\ DOMAIN Pop = 1..(Len(stack) - 1)
         /\ DOMAIN stack = 1..Len(stack) /\ Len(stack) \in Nat /\ Len(stack) >= 1
         /\ Len(Pop) = Len(stack) - 1
         /\ \A n \in 1..(Len(stack) - 1) : Pop[n] = stack[n]
         /\ Top \in Frame
<1>1. stack \in Seq(Frame) /\ Len(stack) \in Nat /\ DOMAIN stack = 1..Len(stack) /\ Len(stack) >= 1
      /\ \A n \in 1..Len(stack) : stack[n] \in Frame
  BY StackFacts DEF Shape, LpcRuns
<1>2. \A n \in 1..(Len(stack) - 1) : stack[n] \in Frame
  BY <1>1
<1>3. /\ SubSeq(stack, 1, Len(stack) - 1) \in Seq(Frame)
      /\ Len(SubSeq(stack, 1, Len(stack) - 1)) =
           IF 1 <= Len(stack) - 1 THEN Len(stack) - 1 - 1 + 1 ELSE 0
      /\ \A n \in 1..(Len(stack) - 1 - 1 + 1) :
           SubSeq(stack, 1, Len(stack) - 1)[n] = stack[1 + n - 1]
  BY <1>1, <1>2, SubSeqProperties
<1>4. /\ Pop \in Seq(Frame) /\ Len(Pop) = Len(stack) - 1
      /\ \A n \in 1..(Len(stack) - 1) : Pop[n] = stack[n]
  BY <1>1, <1>3 DEF Pop
<1>5. DOMAIN Pop = 1..Len(Pop)
  BY <1>4, LenProperties
<1>6. Top \in Frame
  BY <1>1 DEF Top
<1> QED
  BY <1>1, <1>4, <1>5, <1>6

(* While no net_dead() runs, only connect()'s connection is with a master. *)
LEMMA PlainFacts ==
  ASSUME Shape, Links, Calls, Plain(stack)
  PROVE  /\ \A c \in Conns : ip[c] # Null => ~ip[c].CLOSING
         /\ \A o \in destructed : interactive[o] = Null
         /\ \A m \in Masters : interactive[m] # Null =>
              m = master_ob /\ LpcRuns /\ stack[1].fun = "connect"
<1>1. ASSUME NEW c \in Conns, ip[c] # Null PROVE ~ip[c].CLOSING
  BY <1>1, StackFacts DEF Calls, Closings, Shape
<1>2. ASSUME NEW o \in Objects, interactive[o] # Null PROVE ~ip[interactive[o]].CLOSING
  BY <1>1, <1>2 DEF Links, Shape
<1>3. \A o \in destructed : interactive[o] = Null
  BY <1>2 DEF Calls, CallsNested, Shape
<1>4. ASSUME NEW m \in Masters, interactive[m] # Null
      PROVE  m = master_ob /\ LpcRuns /\ stack[1].fun = "connect"
  <2>1. m \in Objects
    BY DEF Objects
  <2>2. m = master_ob
    BY <1>3, <1>4 DEF Calls, FreshMasters
  <2> QED
    BY <1>2, <1>4, <2>1, <2>2 DEF Calls, CallsNested
<1> QED
  BY <1>1, <1>3, <1>4

(* Under one call there is none that is not net_dead().                    *)
LEMMA PlainTop ==
  ASSUME Shape, CallsNested, LpcRuns, Top.fun # "net_dead"
  PROVE  Len(stack) = 1 /\ Plain(stack) /\ Top = stack[1] /\ Pop = <<>>
<1>1. Len(stack) \in Nat /\ Len(stack) >= 1 /\ DOMAIN stack = 1..Len(stack)
      /\ Pop \in Seq(Frame) /\ Len(Pop) = Len(stack) - 1
  BY Popped
<1>2. Len(stack) = 1
  BY <1>1 DEF CallsNested, Top
<1>3. Pop = <<>>
  BY <1>1, <1>2, EmptySeq
<1> QED
  BY <1>2, <1>3 DEF Plain, Top

(* The calls of net_dead() under way stay, and so does what they close.    *)
LEMMA ClosingsKept ==
  ASSUME Shape, Shape', Closings, SameLive, SameClosing,
         \A d \in Conns : ip[d] # Null /\ ip[d].CLOSING => ip'[d].ob = ip[d].ob,
         stack' = stack \/ (Plain(stack) /\ Plain(stack'))
  PROVE  Closings'
<1>1. CASE stack' = stack
  BY <1>1 DEF Closings, SameLive, SameClosing
<1>2. CASE Plain(stack) /\ Plain(stack')
  <2>1. /\ \A n \in DOMAIN stack : stack[n].fun # "net_dead"
        /\ \A n \in DOMAIN stack' : stack'[n].fun # "net_dead"
    BY <1>2, StackFacts DEF Shape
  <2>2. \A c \in Conns : ip[c] # Null => ~ip[c].CLOSING
    BY <2>1 DEF Closings
  <2> QED
    BY <2>1, <2>2 DEF Closings, SameLive, SameClosing
<1> QED
  BY <1>1, <1>2

(* Steps that leave objects and connections linked as they are.            *)
LEMMA CallsQuiet ==
  ASSUME Shape, Shape', Links, Calls, SameLive, SameClosing, SameOwner,
         UNCHANGED <<interactive, destructed, master_ob>>,
         stack' = stack \/ (Plain(stack) /\ Plain(stack') /\ \A m \in Masters : interactive[m] = Null)
  PROVE  Calls'
<1>1. Closings'
  BY ClosingsKept DEF Calls, SameOwner
<1>2. FreshMasters'
  BY DEF Calls, FreshMasters
<1>3. ASSUME NEW o \in Objects, interactive[o] # Null
      PROVE  ip'[interactive[o]].CLOSING = ip[interactive[o]].CLOSING
  BY <1>3 DEF Links, Shape, SameClosing
<1>4. \A o \in destructed' : interactive'[o] # Null => ip'[interactive'[o]].CLOSING
  BY <1>3 DEF Calls, CallsNested, Shape
<1>5. CASE stack' = stack
  <2>1. \A m \in Masters : interactive'[m] # Null =>
          ip'[interactive'[m]].CLOSING \/ (LpcRuns' /\ stack'[1].fun = "connect")
    BY <1>3, <1>5 DEF Calls, CallsNested, LpcRuns, Objects
  <2> QED
    BY <1>1, <1>2, <1>4, <1>5, <2>1 DEF Calls, CallsNested
<1>6. CASE Plain(stack') /\ \A m \in Masters : interactive[m] = Null
  <2>1. \A n \in DOMAIN stack' : n = 1
    BY <1>6, StackFacts DEF Shape
  <2> QED
    BY <1>1, <1>2, <1>4, <1>6, <2>1 DEF Calls, CallsNested
<1> QED
  BY <1>5, <1>6

(* A connection that is not being closed goes to another object.           *)
LEMMA CallsMoved ==
  ASSUME Shape, Shape', Links, Calls, NEW from \in Objects, NEW o \in Users, NEW c \in Conns,
         Moved(c, from, o), interactive[from] = c, ~ip[c].CLOSING, o \notin destructed,
         SameLive, SameClosing, UNCHANGED <<destructed, master_ob>>,
         stack' = stack \/ (Plain(stack) /\ Plain(stack') /\ \A m \in Masters : m # from => interactive[m] = Null)
  PROVE  Calls'
<1>0. ip[c] # Null /\ c # Null /\ o \notin Masters
  BY ConnectionsAssumption DEF Links
<1>1. Closings'
  <2>1. \A d \in Conns : ip[d] # Null /\ ip[d].CLOSING => ip'[d].ob = ip[d].ob
    BY DEF Moved
  <2> QED
    BY <2>1, ClosingsKept DEF Calls
<1>2. \A p \in Objects : p # o => interactive'[p] \in {interactive[p], Null}
  BY DEF Moved
<1>3. FreshMasters'
  BY <1>0, <1>2 DEF Calls, FreshMasters, Objects
<1>4. ASSUME NEW p \in Objects, interactive[p] # Null
      PROVE  ip'[interactive[p]].CLOSING = ip[interactive[p]].CLOSING
  BY <1>4 DEF Links, Shape, SameClosing
<1>5. ASSUME NEW p \in destructed', interactive'[p] # Null PROVE ip'[interactive'[p]].CLOSING
  <2>1. p \in Objects /\ p \in destructed /\ p # o /\ interactive'[p] = interactive[p]
    BY <1>2, <1>5 DEF Shape
  <2> QED
    BY <1>4, <1>5, <2>1 DEF Calls, CallsNested
<1>6. ASSUME NEW m \in Masters, interactive'[m] # Null
      PROVE  m \in Objects /\ m # from /\ interactive'[m] = interactive[m]
  BY <1>0, <1>2, <1>6 DEF Moved, Objects
<1>7. CASE stack' = stack
  <2>1. ASSUME NEW m \in Masters, interactive'[m] # Null
        PROVE  ip'[interactive'[m]].CLOSING \/ (LpcRuns' /\ stack'[1].fun = "connect")
    BY <1>4, <1>6, <1>7, <2>1 DEF Calls, CallsNested, LpcRuns
  <2> QED
    BY <1>1, <1>3, <1>5, <1>7, <2>1 DEF Calls, CallsNested
<1>8. CASE Plain(stack') /\ \A m \in Masters : m # from => interactive[m] = Null
  <2>1. \A n \in DOMAIN stack' : n = 1
    BY <1>8, StackFacts DEF Shape
  <2>2. \A m \in Masters : interactive'[m] = Null
    BY <1>6, <1>8
  <2> QED
    BY <1>1, <1>3, <1>5, <2>1, <2>2 DEF Calls, CallsNested
<1> QED
  BY <1>7, <1>8

(* remove_interactive() marks c and calls net_dead(): the structures.      *)
Marked(c) ==
  /\ ip' \in [Conns -> Interactive \cup {Null}]
  /\ SameLive /\ SameOwner /\ SameSnoop /\ SameWaiting
  /\ ip'[c].CLOSING
  /\ \A d \in Conns : d # c => ip'[d] = ip[d]

(* Setting CLOSING is what Marked says.                                    *)
LEMMA MarkedFacts ==
  ASSUME Shape, NEW c \in Conns, ip[c] # Null, ip' = [ip EXCEPT ![c].CLOSING = TRUE]
  PROVE  Marked(c)
<1> DEFINE e == [ip[c] EXCEPT !.CLOSING = TRUE]
<1>1. ip[c] \in Interactive
  BY StructFacts
<1>2. /\ e \in Interactive /\ e.ob = ip[c].ob /\ e.CLOSING /\ e.CMD_IN_BUF = ip[c].CMD_IN_BUF
      /\ e.snoop_on = ip[c].snoop_on /\ e.snoop_by = ip[c].snoop_by
  BY <1>1 DEF Interactive
<1>3. ip' = [ip EXCEPT ![c] = e]
  OBVIOUS
<1> HIDE DEF e
<1>4. e # Null
  BY <1>2, NullAssumption
<1>5. /\ ip' \in [Conns -> Interactive \cup {Null}] /\ ip'[c] = e
      /\ \A d \in Conns : d # c => ip'[d] = ip[d]
  BY <1>2, <1>3 DEF Shape
<1> QED
  BY <1>2, <1>4, <1>5 DEF Marked, SameLive, SameOwner, SameSnoop, SameWaiting

(* net_dead() is called for a connection that is not being closed yet.     *)
LEMMA CallsBegun ==
  ASSUME Shape, Shape', Links, Calls, NEW c \in Conns, ip[c] # Null, ~ip[c].CLOSING, Marked(c),
         UNCHANGED <<interactive, destructed, master_ob>>,
         NEW frames \in Seq(Frame), stack' = Append(frames, Call("net_dead", ip[c].ob, c)),
         frames = stack \/ (Plain(stack) /\ frames = <<>> /\ \A m \in Masters : interactive[m] \in {c, Null})
  PROVE  Calls'
<1> DEFINE f == Call("net_dead", ip[c].ob, c)  n0 == Len(frames) + 1
<1>1. f \in Frame /\ f.fun = "net_dead" /\ f.ob = ip[c].ob /\ f.ip = c
  BY StructFacts DEF Call, Frame
<1>2. stack' = Append(frames, f)
  OBVIOUS
<1> HIDE DEF f
<1>3. /\ Len(frames) \in Nat /\ DOMAIN frames = 1..Len(frames) /\ DOMAIN stack' = 1..n0
      /\ n0 \in DOMAIN stack' /\ stack'[n0] = f
      /\ \A n \in DOMAIN frames : n \in DOMAIN stack' /\ stack'[n] = frames[n]
      /\ \A n \in DOMAIN stack' : n = n0 \/ n \in DOMAIN frames
      /\ n0 \notin DOMAIN frames /\ LpcRuns'
  <2>1. /\ stack' \in Seq(Frame) /\ Len(frames) \in Nat /\ DOMAIN frames = 1..Len(frames)
        /\ DOMAIN stack' = 1..n0 /\ Len(stack') = n0
        /\ \A n \in 1..Len(frames) : stack'[n] = frames[n]
        /\ stack'[n0] = f
    BY <1>1, <1>2, Pushed
  <2>2. stack' # <<>>
    BY <2>1, StackFacts
  <2> QED
    BY <2>1, <2>2 DEF LpcRuns
<1> HIDE DEF n0
(* The calls of net_dead() in frames are those in stack.                   *)
<1>4. \A n : n \in DOMAIN frames /\ frames[n].fun = "net_dead" <=>
             n \in DOMAIN stack /\ stack[n].fun = "net_dead"
  <2>1. CASE frames = stack
    BY <2>1
  <2>2. CASE Plain(stack) /\ frames = <<>>
    <3>1. \A n \in DOMAIN stack : stack[n].fun # "net_dead"
      BY <2>2, StackFacts DEF Shape
    <3>2. \A n \in DOMAIN frames : FALSE
      BY <2>2
    <3> QED
      BY <3>1, <3>2
  <2> QED
    BY <2>1, <2>2
<1>5. \A n \in DOMAIN frames : frames[n].fun = "net_dead" => frames[n] = stack[n]
  BY <1>4
<1>6. ASSUME NEW n \in DOMAIN stack', stack'[n].fun = "net_dead", n # n0
      PROVE  n \in DOMAIN stack /\ stack[n].fun = "net_dead" /\ stack'[n] = stack[n]
  BY <1>3, <1>4, <1>5, <1>6
<1>7. ASSUME NEW n \in DOMAIN stack, stack[n].fun = "net_dead"
      PROVE  /\ n \in DOMAIN stack' /\ n # n0 /\ stack'[n] = stack[n]
             /\ stack[n].ip \in Conns /\ stack[n].ip # c /\ ip[stack[n].ip] # Null
             /\ ip[stack[n].ip].CLOSING /\ ip[stack[n].ip].ob = stack[n].ob
  BY <1>3, <1>4, <1>5, <1>7 DEF Calls, Closings
<1>8. Closings'
  <2>1. ASSUME NEW n \in DOMAIN stack', stack'[n].fun = "net_dead"
        PROVE  /\ stack'[n].ip \in Conns /\ ip'[stack'[n].ip] # Null
               /\ ip'[stack'[n].ip].CLOSING /\ ip'[stack'[n].ip].ob = stack'[n].ob
    <3>1. CASE n = n0
      BY <1>1, <1>3, <3>1 DEF Marked, SameLive, SameOwner
    <3>2. CASE n # n0
      BY <1>6, <1>7, <2>1, <3>2 DEF Marked
    <3> QED
      BY <3>1, <3>2
  <2>2. ASSUME NEW n \in DOMAIN stack', NEW k \in DOMAIN stack', stack'[n].fun = "net_dead",
               stack'[k].fun = "net_dead", stack'[n].ip = stack'[k].ip
        PROVE  n = k
    BY <1>1, <1>3, <1>6, <1>7, <2>2 DEF Calls, Closings
  <2>3. ASSUME NEW d \in Conns, ip'[d] # Null, ip'[d].CLOSING
        PROVE  \E n \in DOMAIN stack' : stack'[n].fun = "net_dead" /\ stack'[n].ip = d
    <3>1. CASE d = c
      BY <1>1, <1>3, <3>1
    <3>2. CASE d # c
      <4>1. PICK n \in DOMAIN stack : stack[n].fun = "net_dead" /\ stack[n].ip = d
        BY <2>3, <3>2 DEF Calls, Closings, Marked
      <4> QED
        BY <1>7, <4>1
    <3> QED
      BY <3>1, <3>2
  <2> QED
    BY <2>1, <2>2, <2>3 DEF Closings
<1>9. ASSUME NEW o \in Objects, interactive[o] # Null
      PROVE  ip[interactive[o]].CLOSING \/ interactive[o] = c => ip'[interactive[o]].CLOSING
  <2>1. interactive[o] \in Conns
    BY <1>9 DEF Shape
  <2> QED
    BY <2>1 DEF Marked
<1>10. \A o \in destructed' : interactive'[o] # Null => ip'[interactive'[o]].CLOSING
  BY <1>9 DEF Calls, CallsNested, Shape
<1>11. ASSUME NEW n \in DOMAIN stack', n > 1 PROVE stack'[n].fun = "net_dead"
  <2>1. CASE n = n0
    BY <1>1, <1>3, <2>1
  <2>2. CASE n # n0
    <3>1. n \in DOMAIN frames /\ stack'[n] = frames[n]
      BY <1>3, <2>2
    <3>2. frames = stack
      BY <3>1
    <3> QED
      BY <1>11, <3>1, <3>2 DEF Calls, CallsNested
  <2> QED
    BY <2>1, <2>2
<1>12. ASSUME NEW m \in Masters, interactive'[m] # Null
       PROVE  ip'[interactive'[m]].CLOSING \/ (LpcRuns' /\ stack'[1].fun = "connect")
  <2>1. m \in Objects
    BY DEF Objects
  <2>2. CASE frames = stack
    <3>1. CASE ip[interactive[m]].CLOSING
      BY <1>9, <1>12, <2>1, <3>1
    <3>2. CASE ~ip[interactive[m]].CLOSING
      <4>1. LpcRuns /\ stack[1].fun = "connect"
        BY <1>12, <3>2 DEF Calls, CallsNested
      <4>2. 1 \in DOMAIN stack
        BY <4>1, StackFacts DEF Shape, LpcRuns
      <4> QED
        BY <1>3, <2>2, <4>1, <4>2
    <3> QED
      BY <3>1, <3>2
  <2>3. CASE interactive[m] \in {c, Null}
    BY <1>9, <1>12, <2>1, <2>3
  <2> QED
    BY <2>2, <2>3
<1>13. CallsNested'
  BY <1>10, <1>11, <1>12 DEF Calls, CallsNested
<1>14. FreshMasters'
  BY DEF Calls, FreshMasters
<1> QED
  BY <1>8, <1>13, <1>14 DEF Calls

(* net_dead() returns, and its connection goes.                            *)
LEMMA CallsEnded ==
  ASSUME Shape, Shape', Links, Links', Calls, NetDeadReturns
  PROVE  Calls' /\ Freed(Top.ip) /\ Top.ip \in Conns /\ Top.ob \in Objects /\ interactive[Top.ob] = Top.ip
<1> DEFINE o == Top.ob  c == Top.ip  n0 == Len(stack)
<1>1. /\ LpcRuns /\ Top.fun = "net_dead" /\ FinishRemove(o, c) /\ stack' = Pop
      /\ UNCHANGED <<destructed, master_ob>>
  BY DEF NetDeadReturns
<1>2. /\ DOMAIN stack' = 1..(n0 - 1) /\ DOMAIN stack = 1..n0 /\ n0 \in Nat /\ n0 >= 1
      /\ \A n \in 1..(n0 - 1) : stack'[n] = stack[n]
      /\ stack[n0] = Top /\ n0 \in DOMAIN stack
  BY <1>1, Popped DEF Top
<1>3. /\ \A n \in DOMAIN stack' : n \in DOMAIN stack /\ n # n0 /\ stack'[n] = stack[n]
      /\ \A n \in DOMAIN stack : n # n0 => n \in DOMAIN stack' /\ stack'[n] = stack[n]
  BY <1>2
<1>4. c \in Conns /\ ip[c] # Null /\ ip[c].CLOSING /\ ip[c].ob = o
  BY <1>1, <1>2 DEF Calls, Closings
<1>5. o \in Objects /\ interactive[o] = c /\ c # Null
  BY <1>4, StructFacts, ConnectionsAssumption DEF Links
<1>6. Freed(c)
  BY <1>1, <1>4, FinishRemoveFrees
<1>7. interactive'[o] = Null /\ \A p \in Objects : p # o => interactive'[p] = interactive[p]
  BY <1>1, <1>5 DEF FinishRemove, Shape
<1> HIDE DEF o, c, n0
<1>8. ASSUME NEW n \in DOMAIN stack', stack'[n].fun = "net_dead" PROVE stack'[n].ip # c
  <2>1. n \in DOMAIN stack /\ n # n0 /\ stack'[n] = stack[n] /\ stack[n0].fun = "net_dead" /\ stack[n0].ip = c
    BY <1>1, <1>2, <1>3 DEF c
  <2> QED
    BY <1>2, <1>8, <2>1 DEF Calls, Closings
<1>9. Closings'
  <2>1. ASSUME NEW n \in DOMAIN stack', stack'[n].fun = "net_dead"
        PROVE  /\ stack'[n].ip \in Conns /\ ip'[stack'[n].ip] # Null
               /\ ip'[stack'[n].ip].CLOSING /\ ip'[stack'[n].ip].ob = stack'[n].ob
    <3>1. /\ stack'[n] = stack[n] /\ stack[n].ip \in Conns /\ ip[stack[n].ip] # Null
          /\ ip[stack[n].ip].CLOSING /\ ip[stack[n].ip].ob = stack[n].ob /\ stack[n].ip # c
      BY <1>3, <1>8, <2>1 DEF Calls, Closings
    <3> QED
      BY <1>6, <3>1 DEF Freed
  <2>2. ASSUME NEW n \in DOMAIN stack', NEW k \in DOMAIN stack', stack'[n].fun = "net_dead",
               stack'[k].fun = "net_dead", stack'[n].ip = stack'[k].ip
        PROVE  n = k
    BY <1>3, <2>2 DEF Calls, Closings
  <2>3. ASSUME NEW d \in Conns, ip'[d] # Null, ip'[d].CLOSING
        PROVE  \E n \in DOMAIN stack' : stack'[n].fun = "net_dead" /\ stack'[n].ip = d
    <3>1. d # c /\ ip[d] # Null /\ ip[d].CLOSING
      BY <1>6, <2>3 DEF Freed
    <3>2. PICK n \in DOMAIN stack : stack[n].fun = "net_dead" /\ stack[n].ip = d
      BY <3>1 DEF Calls, Closings
    <3>3. n # n0
      BY <1>2, <3>1, <3>2 DEF c
    <3> QED
      BY <1>3, <3>2, <3>3
  <2> QED
    BY <2>1, <2>2, <2>3 DEF Closings
<1>10. ASSUME NEW p \in Objects, interactive'[p] # Null
       PROVE  interactive'[p] = interactive[p] /\ ip'[interactive[p]].CLOSING = ip[interactive[p]].CLOSING
  <2>1. p # o /\ interactive'[p] = interactive[p] /\ interactive[p] \in Conns
    BY <1>7, <1>10 DEF Shape
  <2>2. ip[interactive[p]] # Null /\ ip[interactive[p]].ob = p
    BY <1>10, <2>1 DEF Links
  <2>3. interactive[p] # c
    BY <1>4, <2>1, <2>2
  <2> QED
    BY <1>6, <2>1, <2>2, <2>3 DEF Freed
<1>11. \A p \in destructed' : interactive'[p] # Null => ip'[interactive'[p]].CLOSING
  BY <1>1, <1>10 DEF Calls, CallsNested, Shape
<1>12. \A n \in DOMAIN stack' : n > 1 => stack'[n].fun = "net_dead"
  BY <1>3 DEF Calls, CallsNested
<1>13. ASSUME NEW m \in Masters, interactive'[m] # Null
       PROVE  ip'[interactive'[m]].CLOSING \/ (LpcRuns' /\ stack'[1].fun = "connect")
  <2>1. m \in Objects
    BY DEF Objects
  <2>2. CASE ip[interactive[m]].CLOSING
    BY <1>10, <1>13, <2>1, <2>2
  <2>3. CASE ~ip[interactive[m]].CLOSING
    <3>1. stack[1].fun = "connect"
      BY <1>10, <1>13, <2>1, <2>3 DEF Calls, CallsNested
    <3>2. n0 # 1
      BY <1>1, <1>2, <3>1
    <3>3. 1 \in DOMAIN stack'
      BY <1>2, <3>2
    <3>4. LpcRuns'
      BY <3>3 DEF LpcRuns
    <3> QED
      BY <1>3, <3>1, <3>3, <3>4
  <2> QED
    BY <2>2, <2>3
<1>14. CallsNested'
  BY <1>1, <1>11, <1>12, <1>13 DEF Calls, CallsNested
<1>15. FreshMasters'
  BY <1>1, <1>7 DEF Calls, FreshMasters, Objects
<1> QED
  BY <1>4, <1>5, <1>6, <1>9, <1>14, <1>15 DEF Calls, o, c

(* A connection comes to the master object, and connect() is called.       *)
LEMMA CallsAdded ==
  ASSUME Shape, Shape', Links, Calls, NEW c \in Conns, NEW i \in Index, ip[c] = Null,
         Added(c, master_ob, i), stack = <<>>, UNCHANGED <<destructed, master_ob>>,
         Len(stack') = 1, stack'[1].fun = "connect"
  PROVE  Calls'
<1>1. Plain(stack) /\ Plain(stack') /\ stack' # <<>>
  <2>1. Len(<<>>) = 0
    OBVIOUS
  <2>2. stack' # <<>>
    BY <2>1, SMTT(30)
  <2> QED
    BY <2>2 DEF Plain
<1>2. \A n \in DOMAIN stack' : n = 1 /\ stack'[n].fun # "net_dead"
  BY <1>1, StackFacts DEF Shape
<1>3. /\ \A d \in Conns : ip[d] # Null => ~ip[d].CLOSING
      /\ \A o \in destructed : interactive[o] = Null
      /\ \A m \in Masters : interactive[m] = Null
  BY <1>1, PlainFacts DEF LpcRuns
<1>4. \A d \in Conns : ip'[d] # Null => ~ip'[d].CLOSING
  BY <1>3 DEF Added
<1>5. Closings'
  BY <1>2, <1>4 DEF Closings
<1>6. \A o \in Objects : o # master_ob => interactive'[o] = interactive[o]
  BY DEF Added
<1>7. \A o \in destructed' : interactive'[o] = Null
  BY <1>3, <1>6 DEF Shape
<1>8. CallsNested'
  BY <1>1, <1>2, <1>7 DEF Calls, CallsNested, LpcRuns
<1>9. FreshMasters'
  BY <1>3, <1>6 DEF FreshMasters, Objects
<1> QED
  BY <1>5, <1>8, <1>9 DEF Calls

(* An object is destructed; a connection being closed stays with it.       *)
LEMMA CallsDestruct ==
  ASSUME Shape, Shape', Links, Links', Calls, NEW o \in Objects, destruct_object(o)
  PROVE  Calls'
<1>1. /\ Alive(o) /\ destructed' = destructed \cup {o} /\ stack' = stack
      /\ IF o = master_ob THEN master_ob' \in Masters \ (destructed \cup {o}) ELSE master_ob' = master_ob
  BY DEF destruct_object, remove_interactive
<1>2. master_ob' \notin destructed'
  BY <1>1 DEF Calls, CallsNested
(* What both outcomes have in common.                                      *)
<1> DEFINE Same(p) == interactive'[p] = interactive[p]
                      /\ ip'[interactive[p]].CLOSING = ip[interactive[p]].CLOSING
<1>3. SUFFICES ASSUME /\ Closings'
                      /\ \A p \in Objects : p # o /\ interactive'[p] # Null => Same(p)
                      /\ \A p \in Objects : p # o => interactive'[p] = interactive[p]
                      /\ interactive'[o] # Null => Same(o) /\ ip[interactive[o]].CLOSING
               PROVE  Calls'
  <2>1. /\ Alive(o) /\ UNCHANGED stack
        /\ LET c == interactive[o]
           IN  IF c = Null \/ (c # Null /\ ip[c].CLOSING)
               THEN UNCHANGED <<ip, interactive>>
               ELSE FinishRemove(o, c)
    BY DEF destruct_object, remove_interactive
  <2>2. CASE interactive[o] = Null \/ ip[interactive[o]].CLOSING
    <3>1. UNCHANGED <<ip, interactive, stack>>
      BY <2>1, <2>2
    <3>2. Closings'
      BY <3>1 DEF Calls, Closings
    <3> QED
      BY <1>3, <2>2, <3>1, <3>2
  <2>3. CASE interactive[o] # Null /\ ~ip[interactive[o]].CLOSING
    <3> DEFINE c == interactive[o]
    <3>1. FinishRemove(o, c) /\ c \in Conns /\ ip[c] # Null /\ ip[c].ob = o /\ ~ip[c].CLOSING
      BY <2>1, <2>3 DEF Shape, Links
    <3>2. Freed(c)
      BY <3>1, FinishRemoveFrees
    <3>3. interactive'[o] = Null /\ \A p \in Objects : p # o => interactive'[p] = interactive[p]
      BY <3>1 DEF FinishRemove, Shape
    <3> HIDE DEF c
    <3>4. Closings'
      <4>1. \A n \in DOMAIN stack : stack[n].fun = "net_dead" =>
              stack[n].ip \in Conns /\ stack[n].ip # c
        BY <3>1 DEF Calls, Closings
      <4>2. ASSUME NEW n \in DOMAIN stack, stack[n].fun = "net_dead"
            PROVE  ip'[stack[n].ip] # Null /\ ip'[stack[n].ip].CLOSING /\ ip'[stack[n].ip].ob = stack[n].ob
        BY <3>2, <4>1, <4>2 DEF Freed, Calls, Closings
      <4>3. ASSUME NEW d \in Conns, ip'[d] # Null, ip'[d].CLOSING PROVE ip[d] # Null /\ ip[d].CLOSING
        BY <3>2, <4>3 DEF Freed
      <4> QED
        BY <2>1, <4>1, <4>2, <4>3 DEF Calls, Closings
    <3>5. ASSUME NEW p \in Objects, p # o, interactive'[p] # Null PROVE Same(p)
      <4>1. interactive'[p] = interactive[p] /\ interactive[p] \in Conns
        BY <3>3, <3>5 DEF Shape
      <4>2. ip[interactive[p]] # Null /\ ip[interactive[p]].ob = p
        BY <3>5, <4>1 DEF Links
      <4>3. interactive[p] # c
        BY <3>1, <3>5, <4>2
      <4> QED
        BY <3>2, <4>1, <4>2, <4>3 DEF Freed
    <3> QED
      BY <1>3, <3>3, <3>4, <3>5
  <2> QED
    BY <2>2, <2>3
<1>4. \A p \in destructed' : interactive'[p] # Null => ip'[interactive'[p]].CLOSING
  BY <1>1, <1>3 DEF Calls, CallsNested, Shape
<1>5. \A m \in Masters : interactive'[m] # Null =>
        ip'[interactive'[m]].CLOSING \/ (LpcRuns' /\ stack'[1].fun = "connect")
  BY <1>1, <1>3 DEF Calls, CallsNested, LpcRuns, Objects
<1>6. CallsNested'
  BY <1>1, <1>2, <1>4, <1>5 DEF Calls, CallsNested
<1>7. FreshMasters'
  BY <1>1, <1>3 DEF Calls, FreshMasters, Objects
<1> QED
  BY <1>3, <1>6, <1>7 DEF Calls
-----------------------------------------------------------------------------
(* The steps.                                                              *)

(* Flags and snoops change, or nothing but the calls.                      *)
LEMMA QuietStep ==
  ASSUME ConnectionsInv, Shape', SameLive, SameClosing, SameOwner, SnoopsSound',
         UNCHANGED <<all_users, interactive, destructed, master_ob, O_HIDDEN, num_user, num_hidden>>,
         stack' = stack \/ (Plain(stack) /\ Plain(stack') /\ \A m \in Masters : interactive[m] = Null)
  PROVE  Links' /\ Calls' /\ CountsAgree'
<1>1. Links'
  BY LinksKept DEF ConnectionsInv
<1>2. Calls'
  BY CallsQuiet DEF ConnectionsInv, Calls
<1>3. CountsAgree'
  BY CountsKept DEF ConnectionsInv
<1> QED
  BY <1>1, <1>2, <1>3

(* In the backend loop, and when LPC code other than connect() and         *)
(* net_dead() returns, no master object has a connection.                  *)
LEMMA NoMasterServed ==
  ASSUME ConnectionsInv, InBackend \/ (LpcRuns /\ Top.fun = "lpc")
  PROVE  Plain(stack) /\ \A m \in Masters : interactive[m] = Null
<1>1. CASE InBackend
  <2>1. Plain(stack) /\ ~LpcRuns
    BY <1>1 DEF InBackend, LpcRuns, Plain
  <2> QED
    BY <2>1, PlainFacts DEF ConnectionsInv, Calls
<1>2. CASE LpcRuns /\ Top.fun = "lpc"
  <2>1. Plain(stack) /\ Top = stack[1]
    BY <1>2, PlainTop DEF ConnectionsInv
  <2>2. stack[1].fun # "connect"
    BY <1>2, <2>1
  <2> QED
    BY <2>1, <2>2, PlainFacts DEF ConnectionsInv, Calls
<1> QED
  BY <1>1, <1>2

(* A stack with one call.                                                  *)
LEMMA OneCall ==
  ASSUME NEW f \in Frame
  PROVE  /\ <<f>> \in Seq(Frame) /\ Len(<<f>>) = 1 /\ <<f>>[1] = f
         /\ f.fun # "net_dead" => Plain(<<f>>)
BY DEF Plain

(* new_user_handler().                                                     *)
LEMMA NewUserStep ==
  ASSUME Sensible, ConnectionsInv, NEW c \in Conns, new_user_handler(c)
  PROVE  ConnectionsInv'
<1>1. /\ InBackend /\ stack' = <<Call("connect", master_ob, c)>> /\ num_user' = num_user + 1
      /\ interactive' = [interactive EXCEPT ![master_ob] = c]
      /\ UNCHANGED <<O_HIDDEN, destructed, master_ob, num_hidden, NextCmdGiver, passed>>
  BY DEF new_user_handler
<1>2. ip[c] = Null
  BY NewUserAdds DEF ConnectionsInv
<1>3. PICK i \in Index : all_users[i] = Null /\ Added(c, master_ob, i)
  BY NewUserAdds DEF ConnectionsInv
<1>4. master_ob \in Masters /\ master_ob \in Objects /\ master_ob \notin O_HIDDEN
  BY ConnectionsAssumption DEF ConnectionsInv, Shape, Objects, Sensible
<1>5. interactive[master_ob] = Null
  BY <1>1, <1>4, NoMasterServed
<1>6. Call("connect", master_ob, c) \in Frame /\ Call("connect", master_ob, c).fun = "connect"
  BY <1>4 DEF Call, Frame
<1>7. stack' \in Seq(Frame) /\ Len(stack') = 1 /\ stack'[1].fun = "connect"
  BY <1>1, <1>6, OneCall
<1>8. interactive' \in [Objects -> Conns \cup {Null}]
  BY <1>1, <1>4 DEF ConnectionsInv, Shape
<1>9. Shape'
  BY <1>1, <1>3, <1>7, <1>8 DEF ConnectionsInv, Shape, Added
<1>10. Links'
  BY <1>2, <1>3, <1>4, <1>5, LinksAdded DEF ConnectionsInv
<1>11. SnoopsSound'
  BY <1>2, <1>3, SnoopsAdded DEF ConnectionsInv
<1>12. CountsAgree'
  BY <1>1, <1>2, <1>3, <1>4, CountsAdded DEF ConnectionsInv
<1>13. ServedBehind'
  BY <1>1, <1>2, <1>3, <1>9, <1>10, TurnsAdded DEF ConnectionsInv
<1>14. Calls'
  <2>1. stack = <<>>
    BY <1>1 DEF InBackend
  <2> QED
    BY <1>1, <1>2, <1>3, <1>7, <1>9, <2>1, CallsAdded DEF ConnectionsInv, Calls
<1> QED
  BY <1>9, <1>10, <1>11, <1>12, <1>13, <1>14 DEF ConnectionsInv, Calls

(* get_user_data().                                                        *)
LEMMA TypedStep ==
  ASSUME ConnectionsInv, NEW c \in Conns, get_user_data(c)
  PROVE  ConnectionsInv'
<1> DEFINE e == [ip[c] EXCEPT !.CMD_IN_BUF = TRUE]
<1>1. /\ ip[c] # Null /\ ip' = [ip EXCEPT ![c] = e] /\ passed' = [passed EXCEPT ![c] = {}]
      /\ UNCHANGED <<all_users, interactive, O_HIDDEN, destructed, master_ob, num_user,
                     num_hidden, NextCmdGiver, stack>>
  BY DEF get_user_data, Live
<1>2. ip[c] \in Interactive
  BY <1>1, StructFacts DEF ConnectionsInv
<1>3. /\ e \in Interactive /\ e.ob = ip[c].ob /\ e.CLOSING = ip[c].CLOSING
      /\ e.snoop_on = ip[c].snoop_on /\ e.snoop_by = ip[c].snoop_by
  BY <1>2 DEF Interactive
<1> HIDE DEF e
<1>4. /\ ip' \in [Conns -> Interactive \cup {Null}] /\ ip'[c] = e
      /\ \A d \in Conns : d # c => ip'[d] = ip[d]
  BY <1>1, <1>3 DEF ConnectionsInv, Shape
<1>5. SameLive /\ SameOwner /\ SameSnoop /\ SameClosing
  BY <1>1, <1>3, <1>4, NullAssumption DEF SameLive, SameOwner, SameSnoop, SameClosing
<1>6. passed' \in [Conns -> SUBSET Conns]
  BY <1>1 DEF ConnectionsInv, Shape
<1>7. Shape'
  BY <1>1, <1>4, <1>6 DEF ConnectionsInv, Shape
<1>8. SnoopsSound'
  BY <1>5, <1>7, SnoopsKept DEF ConnectionsInv
<1>9. Links' /\ Calls' /\ CountsAgree'
  BY <1>1, <1>5, <1>7, <1>8, QuietStep
<1>10. ServedBehind'
  BY <1>5, <1>7, <1>9, TurnsTyped DEF ConnectionsInv
<1> QED
  BY <1>7, <1>8, <1>9, <1>10 DEF ConnectionsInv, Calls

(* get_user_command() and process_user_command().                          *)
LEMMA ServeStep ==
  ASSUME ConnectionsInv, NEW c \in Conns, NEW more \in BOOLEAN, process_user_command(c, more)
  PROVE  ConnectionsInv'
<1> DEFINE partial == {d \in Waiting : Turn(d) < Turn(c)}
           S == IF more THEN partial ELSE partial \cup {c}
<1>1. /\ InBackend /\ c \in Live /\ ip[c] # Null
      /\ stack' = <<Call("lpc", ip[c].ob, c)>> /\ NextCmdGiver' = After(c)
      /\ UNCHANGED <<all_users, interactive, O_HIDDEN, destructed, master_ob, num_user, num_hidden>>
  BY DEF process_user_command, Waiting, Live
<1>2. ip' = [d \in Conns |->
           IF d \in partial \/ (d = c /\ ~more) THEN [ip[d] EXCEPT !.CMD_IN_BUF = FALSE] ELSE ip[d]]
  BY DEF process_user_command
<1>3. passed' = [d \in Conns |-> IF d \in Waiting \ (partial \cup {c}) THEN passed[d] \cup {c} ELSE {}]
  BY DEF process_user_command
<1>4. S \in SUBSET Live
  BY <1>1 DEF Waiting
<1>5. Cleared(S)
  BY <1>2 DEF Cleared
<1>6. ip' = [d \in Conns |-> ip'[d]]
  BY <1>2
<1>7. passed' \in [Conns -> SUBSET Conns]
  BY <1>3 DEF ConnectionsInv, Shape
<1> HIDE DEF S, partial
<1>8. ip' \in [Conns -> Interactive \cup {Null}] /\ SameLive /\ SameOwner /\ SameSnoop /\ SameClosing
  BY <1>4, <1>5, <1>6, ClearedFacts DEF ConnectionsInv
<1>9. After(c) \in Index
  <2>1. SlotOf(c) \in 0..(Slots - 1) /\ Slots \in Nat \ {0}
    BY <1>1, TurnFacts, ConnectionsAssumption DEF ConnectionsInv
  <2>2. PICK k : k = IF SlotOf(c) = 0 THEN Slots - 1 ELSE SlotOf(c) - 1
    OBVIOUS
  <2>3. k \in 0..(Slots - 1) /\ k = ((SlotOf(c) - 1) % Slots)
    BY <2>1, <2>2, TurnGone
  <2> QED
    BY <2>3 DEF After, SlotOf, Index
<1>10. Call("lpc", ip[c].ob, c) \in Frame /\ Call("lpc", ip[c].ob, c).fun = "lpc"
  BY <1>1, StructFacts DEF Call, Frame, ConnectionsInv
<1>11. stack' \in Seq(Frame) /\ Plain(stack')
  BY <1>1, <1>10, OneCall
<1>12. Shape'
  BY <1>1, <1>7, <1>8, <1>9, <1>11 DEF ConnectionsInv, Shape
<1>13. SnoopsSound'
  BY <1>8, <1>12, SnoopsKept DEF ConnectionsInv
<1>14. Plain(stack) /\ \A m \in Masters : interactive[m] = Null
  BY <1>1, NoMasterServed
<1>15. Links' /\ Calls' /\ CountsAgree'
  BY <1>1, <1>8, <1>11, <1>12, <1>13, <1>14, QuietStep
<1>16. ServedBehind'
  BY <1>8, <1>12, <1>15, TurnsServed DEF ConnectionsInv
<1> QED
  BY <1>12, <1>13, <1>15, <1>16 DEF ConnectionsInv, Calls

(* get_user_command() that finds none.                                     *)
LEMMA NoCommandStep ==
  ASSUME ConnectionsInv, NoCommand
  PROVE  ConnectionsInv'
<1>1. /\ ip' = [d \in Conns |-> IF d \in Waiting THEN [ip[d] EXCEPT !.CMD_IN_BUF = FALSE] ELSE ip[d]]
      /\ passed' = [d \in Conns |-> {}]
      /\ UNCHANGED <<all_users, interactive, O_HIDDEN, destructed, master_ob, num_user, num_hidden,
                     NextCmdGiver, stack>>
  BY DEF NoCommand
<1>2. Waiting \in SUBSET Live /\ Cleared(Waiting) /\ ip' = [d \in Conns |-> ip'[d]]
  BY <1>1 DEF Waiting, Cleared
<1>3. ip' \in [Conns -> Interactive \cup {Null}] /\ SameLive /\ SameOwner /\ SameSnoop /\ SameClosing
  BY <1>2, ClearedFacts DEF ConnectionsInv
<1>4. Shape'
  BY <1>1, <1>3 DEF ConnectionsInv, Shape
<1>5. SnoopsSound'
  BY <1>3, <1>4, SnoopsKept DEF ConnectionsInv
<1>6. Links' /\ Calls' /\ CountsAgree'
  BY <1>1, <1>3, <1>4, <1>5, QuietStep
<1>7. ServedBehind'
  BY <1>1 DEF ServedBehind
<1> QED
  BY <1>4, <1>5, <1>6, <1>7 DEF ConnectionsInv, Calls

(* remove_interactive() for an object that is not destructed.              *)
LEMMA RemoveStep ==
  ASSUME ConnectionsInv, NEW o \in Objects, NEW frames \in Seq(Frame), remove_interactive(o, FALSE, frames),
         UNCHANGED <<O_HIDDEN, destructed, master_ob, NextCmdGiver>>,
         frames = stack \/ (Plain(stack) /\ frames = <<>>
                            /\ \A m \in Masters : interactive[m] \in {interactive[o], Null})
  PROVE  ConnectionsInv'
<1> DEFINE c == interactive[o]
<1>0. UNCHANGED <<num_hidden, num_user, interactive, all_users, passed>>
  BY DEF remove_interactive
<1>1. CASE c = Null \/ ip[c].CLOSING
  <2>1. ip' = ip /\ stack' = frames
    BY <1>1 DEF remove_interactive
  <2>2. SameLive /\ SameOwner /\ SameSnoop /\ SameClosing /\ SameWaiting
    BY <2>1 DEF SameLive, SameOwner, SameSnoop, SameClosing, SameWaiting
  <2>3. Shape'
    BY <1>0, <2>1 DEF ConnectionsInv, Shape
  <2>4. SnoopsSound'
    BY <2>2, <2>3, SnoopsKept DEF ConnectionsInv
  <2>5. stack' = stack \/ (Plain(stack) /\ Plain(stack') /\ \A m \in Masters : interactive[m] = Null)
    <3>1. CASE frames = stack
      BY <2>1, <3>1
    <3>2. CASE Plain(stack) /\ frames = <<>> /\ \A m \in Masters : interactive[m] \in {interactive[o], Null}
      <4>1. c = Null
        BY <1>1, <3>2, PlainFacts DEF ConnectionsInv, Calls, Links, Shape
      <4> QED
        BY <2>1, <3>2, <4>1 DEF Plain
    <3> QED
      BY <3>1, <3>2
  <2>6. Links' /\ Calls' /\ CountsAgree'
    BY <1>0, <2>2, <2>3, <2>4, <2>5, QuietStep
  <2>7. ServedBehind'
    BY <1>0, <2>2, <2>3, <2>6, TurnsKept DEF ConnectionsInv
  <2> QED
    BY <2>3, <2>4, <2>6, <2>7 DEF ConnectionsInv, Calls
<1>2. CASE c # Null /\ ~ip[c].CLOSING
  <2>1. c \in Conns /\ ip[c] # Null /\ ip[c].ob = o
    BY <1>2 DEF ConnectionsInv, Shape, Links
  <2>2. ip' = [ip EXCEPT ![c].CLOSING = TRUE] /\ stack' = Append(frames, Call("net_dead", o, c))
    BY <1>2 DEF remove_interactive
  <2>3. Marked(c)
    BY <2>1, <2>2, MarkedFacts DEF ConnectionsInv
  <2>4. stack' \in Seq(Frame)
    <3>1. Call("net_dead", o, c) \in Frame
      BY <2>1 DEF Call, Frame
    <3> QED
      BY <2>2, <3>1, Pushed
  <2>5. Shape'
    BY <1>0, <2>3, <2>4 DEF ConnectionsInv, Shape, Marked
  <2>6. SnoopsSound'
    BY <2>3, <2>5, SnoopsKept DEF ConnectionsInv, Marked
  <2>7. Links'
    BY <1>0, <2>3, LinksKept DEF ConnectionsInv, Marked
  <2>8. CountsAgree'
    BY <1>0, <2>3, CountsKept DEF ConnectionsInv, Marked
  <2>9. ServedBehind'
    BY <1>0, <2>3, <2>5, <2>7, TurnsKept DEF ConnectionsInv, Marked
  <2>10. Calls'
    BY <1>0, <1>2, <2>1, <2>2, <2>3, <2>5, CallsBegun DEF ConnectionsInv, Calls
  <2> QED
    BY <2>5, <2>6, <2>7, <2>8, <2>9, <2>10 DEF ConnectionsInv, Calls
<1> QED
  BY <1>1, <1>2

(* The client hangs up.                                                    *)
LEMMA HangupStep ==
  ASSUME ConnectionsInv, NEW c \in Conns, Hangup(c)
  PROVE  ConnectionsInv'
<1>1. /\ ip[c] # Null /\ remove_interactive(ip[c].ob, FALSE, stack)
      /\ UNCHANGED <<O_HIDDEN, destructed, master_ob, NextCmdGiver>>
  BY DEF Hangup, Live
<1>2. ip[c].ob \in Objects /\ stack \in Seq(Frame)
  BY <1>1, StructFacts DEF ConnectionsInv, Shape
<1> QED
  BY <1>1, <1>2, RemoveStep

(* The structures and objects once c has gone from one object to another.  *)
LEMMA MovedFacts ==
  ASSUME Shape, NEW c \in Conns, ip[c] # Null, NEW o \in Objects, NEW from \in Objects, o # from,
         interactive' = [interactive EXCEPT ![o] = c, ![from] = Null],
         ip' = [ip EXCEPT ![c].ob = o]
  PROVE  /\ Moved(c, from, o)
         /\ ip' \in [Conns -> Interactive \cup {Null}]
         /\ interactive' \in [Objects -> Conns \cup {Null}]
         /\ SameLive /\ SameSnoop /\ SameClosing /\ SameWaiting
<1> DEFINE e == [ip[c] EXCEPT !.ob = o]
<1>1. ip[c] \in Interactive
  BY StructFacts
<1>2. /\ e \in Interactive /\ e.ob = o /\ e.CLOSING = ip[c].CLOSING /\ e.CMD_IN_BUF = ip[c].CMD_IN_BUF
      /\ e.snoop_on = ip[c].snoop_on /\ e.snoop_by = ip[c].snoop_by
  BY <1>1 DEF Interactive
<1>3. ip' = [ip EXCEPT ![c] = e]
  OBVIOUS
<1> HIDE DEF e
<1>4. /\ ip' \in [Conns -> Interactive \cup {Null}] /\ ip'[c] = e
      /\ \A d \in Conns : d # c => ip'[d] = ip[d]
  BY <1>2, <1>3 DEF Shape
<1>5. /\ interactive' \in [Objects -> Conns \cup {Null}]
      /\ interactive'[o] = c /\ interactive'[from] = Null
      /\ \A p \in Objects : p \notin {o, from} => interactive'[p] = interactive[p]
  BY DEF Shape
<1>6. SameLive /\ SameSnoop /\ SameClosing /\ SameWaiting
  BY <1>2, <1>4, NullAssumption DEF SameLive, SameSnoop, SameClosing, SameWaiting
<1> QED
  BY <1>2, <1>4, <1>5, <1>6 DEF Moved

(* A connection goes to another object, by exec() or after connect().      *)
LEMMA MoveStep ==
  ASSUME ConnectionsInv, NEW c \in Conns, NEW o \in Users, NEW from \in Objects, o # from,
         interactive[from] = c, interactive[o] = Null, ~ip[c].CLOSING, o \notin destructed,
         interactive' = [interactive EXCEPT ![o] = c, ![from] = Null],
         ip' = [ip EXCEPT ![c].ob = o],
         num_hidden' = num_hidden + (IF o \in O_HIDDEN THEN 1 ELSE 0)
                                  - (IF from \in O_HIDDEN THEN 1 ELSE 0),
         UNCHANGED <<all_users, O_HIDDEN, destructed, master_ob, num_user, NextCmdGiver, passed>>,
         stack' \in Seq(Frame),
         stack' = stack \/ (Plain(stack) /\ Plain(stack') /\ \A m \in Masters : m # from => interactive[m] = Null)
  PROVE  ConnectionsInv'
<1>1. Shape /\ Links /\ o \in Objects /\ ip[c] # Null /\ ip[c].ob = from
  BY ConnectionsAssumption DEF ConnectionsInv, Links, Objects
<1>2. /\ Moved(c, from, o)
      /\ ip' \in [Conns -> Interactive \cup {Null}]
      /\ interactive' \in [Objects -> Conns \cup {Null}]
      /\ SameLive /\ SameSnoop /\ SameClosing /\ SameWaiting
  BY <1>1, MovedFacts
<1>3. Shape'
  BY <1>1, <1>2 DEF Shape
<1>4. Links'
  BY <1>1, <1>2, LinksMoved
<1>5. SnoopsSound'
  BY <1>2, <1>3, SnoopsKept DEF ConnectionsInv
<1>6. CountsAgree'
  BY <1>1, <1>2, CountsMoved DEF ConnectionsInv
<1>7. ServedBehind'
  BY <1>2, <1>3, <1>4, TurnsKept DEF ConnectionsInv
<1>8. Calls'
  BY <1>2, <1>3, CallsMoved DEF ConnectionsInv, Calls
<1> QED
  BY <1>3, <1>4, <1>5, <1>6, <1>7, <1>8 DEF ConnectionsInv, Calls

(* exec().                                                                 *)
LEMMA ExecStep ==
  ASSUME Sensible, ConnectionsInv, NEW o \in Objects, NEW from \in Objects, replace_interactive(o, from)
  PROVE  ConnectionsInv'
<1> DEFINE c == interactive[from]
<1>1. /\ Alive(o) /\ interactive[o] = Null /\ c # Null /\ o \notin Masters /\ ~ip[c].CLOSING
      /\ num_hidden' = num_hidden + (IF o \in O_HIDDEN THEN 1 ELSE 0)
                                  - (IF from \in O_HIDDEN THEN 1 ELSE 0)
      /\ interactive' = [interactive EXCEPT ![o] = c, ![from] = Null]
      /\ ip' = [ip EXCEPT ![c].ob = o]
      /\ UNCHANGED <<all_users, O_HIDDEN, destructed, master_ob, num_user, NextCmdGiver, stack, passed>>
  BY DEF replace_interactive, Sensible
<1>2. c \in Conns /\ o \in Users /\ o \notin destructed /\ o # from /\ stack' \in Seq(Frame)
  BY <1>1 DEF ConnectionsInv, Shape, Alive, Objects
<1> QED
  BY <1>1, <1>2, MoveStep

(* connect() returns.                                                      *)
LEMMA ConnectStep ==
  ASSUME Sensible, ConnectionsInv, NEW o \in Objects \cup {Null, Failed}, ConnectReturns(o)
  PROVE  ConnectionsInv'
<1>1. /\ LpcRuns /\ Top.fun = "connect" /\ MayAnswer(o)
      /\ UNCHANGED <<O_HIDDEN, destructed, master_ob, NextCmdGiver>>
  BY DEF ConnectReturns
<1>2. Plain(stack) /\ Pop = <<>>
  BY <1>1, PlainTop DEF ConnectionsInv
<1>3. /\ \A d \in Conns : ip[d] # Null => ~ip[d].CLOSING
      /\ \A m \in Masters : m # master_ob => interactive[m] = Null
  BY <1>2, PlainFacts DEF ConnectionsInv, Calls
<1>4. master_ob \in Masters /\ master_ob \in Objects /\ master_ob \notin O_HIDDEN
  BY ConnectionsAssumption DEF ConnectionsInv, Shape, Objects, Sensible
<1>5. o # Failed
  BY <1>1, ConnectionsAssumption DEF MayAnswer, Sensible, Objects
<1>6. CASE o = Null \/ (o \in Objects /\ interactive[master_ob] = Null)
  <2>1. remove_interactive(master_ob, FALSE, Pop)
    BY <1>5, <1>6, ConnectionsAssumption DEF ConnectReturns, Objects
  <2>2. <<>> \in Seq(Frame) /\ \A m \in Masters : interactive[m] \in {interactive[master_ob], Null}
    BY <1>3
  <2> QED
    BY <1>1, <1>2, <1>4, <2>1, <2>2, RemoveStep
<1>7. CASE o \in Objects /\ interactive[master_ob] # Null
  <2> DEFINE c == interactive[master_ob]
  <2>0. o # Null
    BY <1>7, ConnectionsAssumption DEF Objects
  <2>1. Handover(o)
    BY <1>5, <1>7, <2>0 DEF ConnectReturns
  <2>2. Alive(o) /\ o # master_ob /\ interactive[o] = Null
    BY <1>1, <1>5, <1>7, <2>0 DEF MayAnswer, Sensible
  <2>3. o \in Users /\ o \notin destructed
    BY <2>2 DEF Alive
  <2>4. c \in Conns /\ ip[c] # Null /\ ~ip[c].CLOSING
    BY <1>3, <1>4, <1>7 DEF ConnectionsInv, Shape, Links
  <2>5. /\ num_hidden' = num_hidden + (IF o \in O_HIDDEN THEN 1 ELSE 0)
        /\ interactive' = [interactive EXCEPT ![o] = c, ![master_ob] = Null]
        /\ ip' = [ip EXCEPT ![c].ob = o]
        /\ stack' = Append(Pop, Call("lpc", o, c))
        /\ UNCHANGED <<num_user, all_users, passed>>
    BY <2>1 DEF Handover
  <2>6. Call("lpc", o, c) \in Frame /\ Call("lpc", o, c).fun = "lpc"
    BY <1>7, <2>4 DEF Call, Frame
  <2>7. stack' = <<Call("lpc", o, c)>>
    BY <1>2, <2>5
  <2>8. stack' \in Seq(Frame) /\ Plain(stack')
    BY <2>6, <2>7, OneCall
  <2>9. num_hidden' = num_hidden + (IF o \in O_HIDDEN THEN 1 ELSE 0)
                                 - (IF master_ob \in O_HIDDEN THEN 1 ELSE 0)
    <3>1. num_hidden \in Nat
      BY CountFacts DEF ConnectionsInv
    <3> QED
      BY <1>4, <2>5, <3>1
  <2> HIDE DEF c
  <2>10. interactive[master_ob] = c
    BY DEF c
  <2> QED
    BY <1>1, <1>2, <1>3, <1>4, <2>2, <2>3, <2>4, <2>5, <2>8, <2>9, <2>10, MoveStep
<1> QED
  BY <1>1, <1>5, <1>6, <1>7 DEF MayAnswer

(* Steps that change only the calls under way.                             *)
LEMMA CallStep ==
  ASSUME ConnectionsInv, LpcReturns \/ OtherLpc
  PROVE  ConnectionsInv'
<1>1. UNCHANGED <<all_users, interactive, ip, O_HIDDEN, destructed, master_ob, num_user,
                  num_hidden, NextCmdGiver, passed>>
  BY DEF LpcReturns, OtherLpc
<1>2. Plain(stack) /\ \A m \in Masters : interactive[m] = Null
  BY NoMasterServed DEF LpcReturns, OtherLpc
<1>3. stack' \in Seq(Frame) /\ Plain(stack')
  <2>1. CASE LpcReturns
    <3>1. LpcRuns /\ Top.fun = "lpc" /\ stack' = Pop
      BY <2>1 DEF LpcReturns
    <3>2. Pop = <<>>
      BY <3>1, PlainTop DEF ConnectionsInv
    <3> QED
      BY <3>1, <3>2 DEF Plain
  <2>2. CASE OtherLpc
    <3>1. Call("lpc", Null, Null) \in Frame /\ Call("lpc", Null, Null).fun = "lpc"
      BY DEF Call, Frame
    <3> QED
      BY <2>2, <3>1, OneCall DEF OtherLpc
  <2> QED
    BY <2>1, <2>2
<1>4. SameLive /\ SameOwner /\ SameSnoop /\ SameClosing /\ SameWaiting
  BY <1>1 DEF SameLive, SameOwner, SameSnoop, SameClosing, SameWaiting
<1>5. Shape'
  BY <1>1, <1>3 DEF ConnectionsInv, Shape
<1>6. SnoopsSound'
  BY <1>4, <1>5, SnoopsKept DEF ConnectionsInv
<1>7. Links' /\ Calls' /\ CountsAgree'
  BY <1>1, <1>2, <1>3, <1>4, <1>5, <1>6, QuietStep
<1>8. ServedBehind'
  BY <1>1, <1>4, <1>5, <1>7, TurnsKept DEF ConnectionsInv
<1> QED
  BY <1>5, <1>6, <1>7, <1>8 DEF ConnectionsInv, Calls

(* snoop(), both forms.                                                    *)
LEMMA SnoopStep ==
  ASSUME ConnectionsInv, NEW me \in Objects, NEW you \in Objects, new_set_snoop(me, you) \/ StopSnoop(me)
  PROVE  ConnectionsInv'
<1>1. /\ UNCHANGED <<all_users, interactive, O_HIDDEN, destructed, master_ob, num_user,
                     num_hidden, NextCmdGiver, stack, passed>>
      /\ interactive[me] # Null
  BY DEF new_set_snoop, StopSnoop
<1>2. \A o \in Objects : interactive[o] # Null => interactive[o] \in Live /\ interactive[o] \in Conns
  BY DEF ConnectionsInv, Links, Live, Shape
<1>3. CASE new_set_snoop(me, you)
  <2> DEFINE by == interactive[me]  on == interactive[you]
  <2>1. by \in Live /\ on \in Live /\ by \in Conns /\ on \in Conns
    BY <1>2, <1>3 DEF new_set_snoop
  <2>2. by \notin Snooped(on) /\ ip' = Linked(ip, by, on)
    BY <1>3 DEF new_set_snoop
  <2> HIDE DEF by, on
  <2>3. Snooping(by, on)
    BY <2>1, <2>2, LinkedSnooping DEF ConnectionsInv
  <2>4. SnoopsSound'
    BY <2>1, <2>2, <2>3, SnoopsLinked DEF ConnectionsInv
  <2>5. Shape'
    BY <1>1, <2>3 DEF ConnectionsInv, Shape, Snooping
  <2>6. Links' /\ Calls' /\ CountsAgree'
    BY <1>1, <2>3, <2>4, <2>5, QuietStep DEF Snooping
  <2>7. ServedBehind'
    BY <1>1, <2>3, <2>5, <2>6, TurnsKept DEF ConnectionsInv, Snooping
  <2> QED
    BY <2>4, <2>5, <2>6, <2>7 DEF ConnectionsInv, Calls
<1>4. CASE StopSnoop(me)
  <2> DEFINE by == interactive[me]  on == ip[by].snoop_on
  <2>1. by \in Live /\ by \in Conns
    BY <1>1, <1>2
  <2>2. on # Null /\ ip' = [ip EXCEPT ![on].snoop_by = Null, ![by].snoop_on = Null]
    BY <1>4 DEF StopSnoop
  <2>3. on \in Conns
    BY <2>1, <2>2, StructFacts DEF ConnectionsInv, Live
  <2>4. /\ ip' \in [Conns -> Interactive \cup {Null}]
        /\ SameLive /\ SameOwner /\ SameClosing /\ SameWaiting
        /\ Shape' => SnoopsSound'
    <3> HIDE DEF by
    <3> QED
      BY <2>1, <2>2, <2>3, SnoopsStopped DEF ConnectionsInv
  <2> HIDE DEF by, on
  <2>5. Shape'
    BY <1>1, <2>4 DEF ConnectionsInv, Shape
  <2>6. Links' /\ Calls' /\ CountsAgree'
    BY <1>1, <2>4, <2>5, QuietStep
  <2>7. ServedBehind'
    BY <1>1, <2>4, <2>5, <2>6, TurnsKept DEF ConnectionsInv
  <2> QED
    BY <2>4, <2>5, <2>6, <2>7 DEF ConnectionsInv, Calls
<1> QED
  BY <1>3, <1>4

(* set_hide().                                                             *)
LEMMA HideStep ==
  ASSUME ConnectionsInv, NEW o \in Hiders, NEW hide \in BOOLEAN, f_set_hide(o, hide)
  PROVE  ConnectionsInv'
<1>1. /\ O_HIDDEN' = IF hide THEN O_HIDDEN \cup {o} ELSE O_HIDDEN \ {o}
      /\ UNCHANGED <<all_users, interactive, ip, destructed, master_ob, num_user, NextCmdGiver, stack, passed>>
  BY DEF f_set_hide
<1>2. o \in Objects
  BY ConnectionsAssumption DEF Objects
<1>3. CountsAgree'
  BY <1>2, CountsHide DEF ConnectionsInv
<1>4. Shape'
  BY <1>1 DEF ConnectionsInv, Shape
<1>5. SameLive /\ SameOwner /\ SameSnoop /\ SameClosing /\ SameWaiting
  BY <1>1 DEF SameLive, SameOwner, SameSnoop, SameClosing, SameWaiting
<1>6. Links'
  BY <1>1, <1>5, LinksKept DEF ConnectionsInv
<1>7. SnoopsSound'
  BY <1>4, <1>5, SnoopsKept DEF ConnectionsInv
<1>8. Calls'
  BY <1>1, <1>4, <1>5, CallsQuiet DEF ConnectionsInv, Calls
<1>9. ServedBehind'
  BY <1>1, <1>4, <1>5, <1>6, TurnsKept DEF ConnectionsInv
<1> QED
  BY <1>3, <1>4, <1>6, <1>7, <1>8, <1>9 DEF ConnectionsInv, Calls

(* What freeing a connection means for all but the calls.                  *)
LEMMA FreeStep ==
  ASSUME ConnectionsInv, NEW o \in Objects, NEW c \in Conns, FinishRemove(o, c), interactive[o] = c,
         UNCHANGED <<O_HIDDEN, NextCmdGiver>>, stack' \in Seq(Frame),
         destructed' \subseteq Objects, master_ob' \in Masters \ destructed'
  PROVE  Shape' /\ Links' /\ SnoopsSound' /\ CountsAgree' /\ ServedBehind'
<1>1. Shape /\ Links /\ Freed(c)
  BY FinishRemoveFrees DEF ConnectionsInv
<1>2. ip[c] # Null /\ ip[c].ob = o
  BY ConnectionsAssumption DEF ConnectionsInv, Links
<1>3. /\ interactive' = [interactive EXCEPT ![o] = Null]
      /\ all_users' = [i \in Index |-> IF all_users[i] = c THEN Null ELSE all_users[i]]
      /\ passed' = [d \in Conns |-> IF d = c THEN {} ELSE passed[d] \ {c}]
      /\ num_user' = num_user - 1 /\ num_hidden' = num_hidden - (IF o \in O_HIDDEN THEN 1 ELSE 0)
  BY DEF FinishRemove
<1>4. interactive' \in [Objects -> Conns \cup {Null}]
  BY <1>1, <1>3 DEF Shape
<1>5. all_users' \in [Index -> Conns \cup {Null}]
  BY <1>1, <1>3 DEF Shape
<1>6. passed' \in [Conns -> SUBSET Conns]
  BY <1>1, <1>3 DEF Shape
<1>7. Shape'
  BY <1>1, <1>4, <1>5, <1>6 DEF Shape, Freed
<1>8. Links'
  BY <1>1, LinksFreed
<1>9. SnoopsSound'
  BY <1>1, <1>7, SnoopsFreed DEF ConnectionsInv
<1>10. CountsAgree'
  BY <1>1, <1>2, <1>3, CountsFreed DEF ConnectionsInv
<1>11. ServedBehind'
  BY <1>1, <1>7, <1>8, TurnsFreed DEF ConnectionsInv
<1> QED
  BY <1>7, <1>8, <1>9, <1>10, <1>11

(* net_dead() returns.                                                     *)
LEMMA NetDeadStep ==
  ASSUME ConnectionsInv, NetDeadReturns
  PROVE  ConnectionsInv'
<1>1. /\ LpcRuns /\ Top.fun = "net_dead" /\ FinishRemove(Top.ob, Top.ip) /\ stack' = Pop
      /\ UNCHANGED <<O_HIDDEN, destructed, master_ob, NextCmdGiver>>
  BY DEF NetDeadReturns
<1>2. stack' \in Seq(Frame) /\ Len(stack) \in DOMAIN stack
  BY <1>1, Popped DEF ConnectionsInv
<1>3. Top.ip \in Conns /\ ip[Top.ip] # Null /\ ip[Top.ip].ob = Top.ob
  BY <1>1, <1>2 DEF ConnectionsInv, Closings, Top
<1>4. Top.ob \in Objects /\ interactive[Top.ob] = Top.ip
  BY <1>3, StructFacts DEF ConnectionsInv, Links
<1>5. destructed' \subseteq Objects /\ master_ob' \in Masters \ destructed'
  BY <1>1 DEF ConnectionsInv, Shape
<1>6. Shape' /\ Links' /\ SnoopsSound' /\ CountsAgree' /\ ServedBehind'
  BY <1>1, <1>2, <1>3, <1>4, <1>5, FreeStep
<1>7. Calls'
  BY <1>6, CallsEnded DEF ConnectionsInv, Calls
<1> QED
  BY <1>6, <1>7 DEF ConnectionsInv, Calls

(* destruct_object().                                                      *)
LEMMA DestructStep ==
  ASSUME ConnectionsInv, NEW o \in Objects, destruct_object(o)
  PROVE  ConnectionsInv'
<1> DEFINE c == interactive[o]
<1>1. /\ Alive(o) /\ destructed' = destructed \cup {o} /\ UNCHANGED <<O_HIDDEN, NextCmdGiver, stack>>
      /\ IF o = master_ob THEN master_ob' \in Masters \ (destructed \cup {o}) ELSE master_ob' = master_ob
  BY DEF destruct_object, remove_interactive
<1>2. destructed' \subseteq Objects /\ master_ob' \in Masters \ destructed' /\ stack' \in Seq(Frame)
  BY <1>1 DEF ConnectionsInv, Shape
<1>3. Shape' /\ Links' /\ SnoopsSound' /\ CountsAgree' /\ ServedBehind'
  <2>1. CASE c = Null \/ ip[c].CLOSING
    <3>1. UNCHANGED <<ip, num_hidden, num_user, interactive, all_users, passed>>
      BY <2>1 DEF destruct_object, remove_interactive
    <3>2. SameLive /\ SameOwner /\ SameSnoop /\ SameWaiting
      BY <3>1 DEF SameLive, SameOwner, SameSnoop, SameWaiting
    <3>3. Shape'
      BY <1>1, <1>2, <3>1 DEF ConnectionsInv, Shape
    <3>4. Links'
      BY <3>1, <3>2, LinksKept DEF ConnectionsInv
    <3>5. SnoopsSound'
      BY <3>2, <3>3, SnoopsKept DEF ConnectionsInv
    <3>6. CountsAgree'
      BY <1>1, <3>1, <3>2, CountsKept DEF ConnectionsInv
    <3>7. ServedBehind'
      BY <1>1, <3>1, <3>2, <3>3, <3>4, TurnsKept DEF ConnectionsInv
    <3> QED
      BY <3>3, <3>4, <3>5, <3>6, <3>7
  <2>2. CASE c # Null /\ ~ip[c].CLOSING
    <3>1. FinishRemove(o, c) /\ c \in Conns
      BY <2>2 DEF destruct_object, remove_interactive, ConnectionsInv, Shape
    <3> QED
      BY <1>1, <1>2, <3>1, FreeStep
  <2> QED
    BY <2>1, <2>2
<1>4. Calls'
  BY <1>3, CallsDestruct DEF ConnectionsInv, Calls
<1> QED
  BY <1>3, <1>4 DEF ConnectionsInv, Calls
-----------------------------------------------------------------------------
(* The invariant, and what follows from it.                                *)

(* The driver starts without connections.                                  *)
LEMMA ConnectionsInit == Init => ConnectionsInv
<1> SUFFICES ASSUME Init PROVE ConnectionsInv
  OBVIOUS
<1>1. stack \in Seq(Frame) /\ DOMAIN stack = {}
  BY DEF Init
<1>2. 0 \in Index
  BY ConnectionsAssumption DEF Index
<1>3. Shape
  BY <1>1, <1>2 DEF Init, Shape
<1>4. Links
  BY DEF Init, Links
<1>5. Live = {}
  BY DEF Init, Live
<1>6. SnoopsSound
  BY <1>5 DEF SnoopsSound
<1>7. Closings
  BY <1>1 DEF Init, Closings
<1>8. CallsNested
  <2>1. \A m \in Masters : interactive[m] = Null
    BY DEF Init, Objects
  <2> QED
    BY <1>1, <2>1 DEF Init, CallsNested
<1>9. FreshMasters
  BY DEF Init, FreshMasters, Objects
<1>10. CountsAgree
  <2>1. {c \in Live : ip[c].ob \in O_HIDDEN} = {}
    BY <1>5
  <2> QED
    BY <1>5, <2>1, FS_EmptySet DEF Init, CountsAgree
<1>11. ServedBehind
  BY DEF Init, ServedBehind
<1> QED
  BY <1>3, <1>4, <1>6, <1>7, <1>8, <1>9, <1>10, <1>11 DEF ConnectionsInv

(* Every step of a sensible mud keeps the invariant.                       *)
LEMMA ConnectionsStep == Sensible /\ ConnectionsInv /\ [Next]_vars => ConnectionsInv'
<1> SUFFICES ASSUME Sensible, ConnectionsInv, [Next]_vars PROVE ConnectionsInv'
  OBVIOUS
<1>1. ASSUME NEW c \in Conns, new_user_handler(c) PROVE ConnectionsInv'
  BY <1>1, NewUserStep
<1>2. ASSUME NEW c \in Conns, get_user_data(c) PROVE ConnectionsInv'
  BY <1>2, TypedStep
<1>3. ASSUME NEW c \in Conns, Hangup(c) PROVE ConnectionsInv'
  BY <1>3, HangupStep
<1>4. ASSUME NEW c \in Conns, NEW more \in BOOLEAN, process_user_command(c, more) PROVE ConnectionsInv'
  BY <1>4, ServeStep
<1>5. ASSUME NEW o \in Objects \cup {Null, Failed}, ConnectReturns(o) PROVE ConnectionsInv'
  BY <1>5, ConnectStep
<1>6. ASSUME NEW o \in Objects, f_remove_interactive(o) PROVE ConnectionsInv'
  <2>1. stack \in Seq(Frame)
    BY DEF ConnectionsInv, Shape
  <2> QED
    BY <1>6, <2>1, RemoveStep DEF f_remove_interactive
<1>7. ASSUME NEW o \in Objects, destruct_object(o) PROVE ConnectionsInv'
  BY <1>7, DestructStep
<1>8. ASSUME NEW o \in Objects, StopSnoop(o) PROVE ConnectionsInv'
  BY <1>8, SnoopStep
<1>9. ASSUME NEW o \in Objects, NEW other \in Objects, replace_interactive(o, other) PROVE ConnectionsInv'
  BY <1>9, ExecStep
<1>10. ASSUME NEW o \in Objects, NEW other \in Objects, new_set_snoop(o, other) PROVE ConnectionsInv'
  BY <1>10, SnoopStep
<1>11. ASSUME NEW o \in Hiders, NEW hide \in BOOLEAN, f_set_hide(o, hide) PROVE ConnectionsInv'
  BY <1>11, HideStep
<1>12. CASE NetDeadReturns
  BY <1>12, NetDeadStep
<1>13. CASE LpcReturns \/ OtherLpc
  BY <1>13, CallStep
<1>14. CASE NoCommand
  BY <1>14, NoCommandStep
<1>15. CASE UNCHANGED vars
  <2>1. UNCHANGED <<all_users, interactive, ip, O_HIDDEN, destructed, master_ob, num_user,
                    num_hidden, NextCmdGiver, stack, passed>>
    BY <1>15 DEF vars
  <2>2. SameLive /\ SameOwner /\ SameSnoop /\ SameClosing /\ SameWaiting
    BY <2>1 DEF SameLive, SameOwner, SameSnoop, SameClosing, SameWaiting
  <2>3. Shape'
    BY <2>1 DEF ConnectionsInv, Shape
  <2>4. SnoopsSound'
    BY <2>2, <2>3, SnoopsKept DEF ConnectionsInv
  <2>5. Links' /\ Calls' /\ CountsAgree'
    BY <2>1, <2>2, <2>3, <2>4, QuietStep
  <2>6. ServedBehind'
    BY <2>1, <2>2, <2>3, <2>5, TurnsKept DEF ConnectionsInv
  <2> QED
    BY <2>3, <2>4, <2>5, <2>6 DEF ConnectionsInv, Calls
<1> QED
  BY <1>1, <1>2, <1>3, <1>4, <1>5, <1>6, <1>7, <1>8, <1>9, <1>10, <1>11, <1>12, <1>13, <1>14, <1>15
     DEF Next

(* A set that maps into another one to one has no more members.            *)
LEMMA NoMore ==
  ASSUME NEW S, NEW T, IsFiniteSet(T), NEW f \in [S -> T], \A a, b \in S : f[a] = f[b] => a = b
  PROVE  Cardinality(S) <= Cardinality(T)
<1>1. f \in Injection(S, T)
  BY Fun_IsInj
<1> QED
  BY <1>1, FS_Injection

(* One slot each: all_users[] is not too small.                            *)
LEMMA UsersFit ==
  ASSUME ConnectionsInv
  PROVE  num_user <= Slots
<1>1. Index = 0..(Slots - 1) /\ Slots \in Nat \ {0}
  BY ConnectionsAssumption DEF Index
<1>2. IsFiniteSet(Index) /\ Cardinality(Index) = Slots
  BY <1>1, FS_Interval
<1> DEFINE f == [c \in Live |-> SlotOf(c)]
<1>3. \A c \in Live : SlotOf(c) \in Index /\ all_users[SlotOf(c)] = c
  BY TurnFacts DEF ConnectionsInv, Live
<1>4. f \in [Live -> Index] /\ \A a, b \in Live : f[a] = f[b] => a = b
  BY <1>3
<1> HIDE DEF f
<1>5. Cardinality(Live) <= Cardinality(Index)
  BY <1>2, <1>4, NoMore
<1> QED
  BY <1>2, <1>5 DEF ConnectionsInv, CountsAgree

(* One call of net_dead() each: the calls do not nest deeper than that.    *)
LEMMA CallsFit ==
  ASSUME ConnectionsInv
  PROVE  Len(stack) <= 1 + Cardinality(Conns)
<1> DEFINE n == Len(stack)  f == [k \in 2..n |-> stack[k].ip]
<1>1. n \in Nat /\ DOMAIN stack = 1..n
  BY StackFacts DEF ConnectionsInv, Shape
<1>2. IsFiniteSet(Conns) /\ Cardinality(Conns) \in Nat
  BY ConnectionsAssumption, FS_CardinalityType
<1>3. ASSUME NEW k \in 2..n PROVE k \in DOMAIN stack /\ stack[k].fun = "net_dead"
  <2>1. k \in DOMAIN stack /\ k > 1
    BY <1>1
  <2> QED
    BY <2>1 DEF ConnectionsInv, CallsNested
<1>4. \A k \in 2..n : stack[k].ip \in Conns
  BY <1>3 DEF ConnectionsInv, Closings
<1>5. \A j, k \in 2..n : stack[j].ip = stack[k].ip => j = k
  BY <1>3 DEF ConnectionsInv, Closings
<1>6. f \in [2..n -> Conns] /\ \A j, k \in 2..n : f[j] = f[k] => j = k
  BY <1>4, <1>5
<1> HIDE DEF f
<1>7. Cardinality(2..n) <= Cardinality(Conns)
  BY <1>2, <1>6, NoMore
<1>8. Cardinality(2..n) = IF 2 > n THEN 0 ELSE n - 2 + 1
  BY <1>1, FS_Interval, SMTT(30)
<1> QED
  BY <1>1, <1>2, <1>7, <1>8

(* The invariant says what LinksSound does, counts for existence.          *)
LEMMA InvLinksSound == ConnectionsInv => LinksSound
<1> SUFFICES ASSUME ConnectionsInv PROVE LinksSound
  OBVIOUS
<1>1. TypeOK
  <2>1. num_user \in Nat /\ num_hidden \in Nat /\ num_hidden <= num_user
    BY CountFacts DEF ConnectionsInv
  <2>2. Slots \in Nat
    BY ConnectionsAssumption
  <2>3. num_user \in 0..Slots /\ num_hidden \in 0..num_user
    BY <2>1, <2>2, UsersFit
  <2>4. O_HIDDEN \subseteq Objects
    BY ConnectionsAssumption DEF ConnectionsInv, Shape, Objects
  <2> QED
    BY <2>3, <2>4, CallsFit DEF ConnectionsInv, Shape, TypeOK
<1>2. LinksAgree
  <2>1. \A o \in Objects : interactive[o] # Null => interactive[o] \in Live /\ ip[interactive[o]].ob = o
    BY DEF ConnectionsInv, Links, Shape, Live
  <2>2. ASSUME NEW c \in Live
        PROVE  interactive[ip[c].ob] = c /\ Cardinality({i \in Index : all_users[i] = c}) = 1
    <3>1. c \in Conns /\ ip[c] # Null
      BY DEF Live
    <3>2. SlotOf(c) \in Index /\ all_users[SlotOf(c)] = c /\ \A i \in Index : all_users[i] = c => i = SlotOf(c)
      BY <3>1, TurnFacts DEF ConnectionsInv
    <3>3. {i \in Index : all_users[i] = c} = {SlotOf(c)}
      BY <3>2
    <3>4. Cardinality({SlotOf(c)}) = 1
      BY FS_Singleton
    <3> QED
      BY <3>1, <3>3, <3>4 DEF ConnectionsInv, Links
  <2>3. \A i \in Index : all_users[i] \in Live \cup {Null}
    BY DEF ConnectionsInv, Links, Shape, Live
  <2> QED
    BY <2>1, <2>2, <2>3 DEF LinksAgree
<1> QED
  BY <1>1, <1>2 DEF ConnectionsInv, LinksSound

(* The invariant says what ClosedProperly does.                            *)
LEMMA InvClosedProperly == ConnectionsInv => ClosedProperly
<1> SUFFICES ASSUME ConnectionsInv PROVE ClosedProperly
  OBVIOUS
<1>1. ASSUME NEW c \in Conns
      PROVE  Cardinality({n \in DOMAIN stack : stack[n].fun = "net_dead" /\ stack[n].ip = c})
               = (IF c \in Live /\ ip[c].CLOSING THEN 1 ELSE 0)
  <2> DEFINE S == {n \in DOMAIN stack : stack[n].fun = "net_dead" /\ stack[n].ip = c}
  <2>1. CASE c \in Live /\ ip[c].CLOSING
    <3>1. PICK n \in DOMAIN stack : stack[n].fun = "net_dead" /\ stack[n].ip = c
      BY <2>1 DEF ConnectionsInv, Closings, Live
    <3>2. S = {n}
      BY <3>1 DEF ConnectionsInv, Closings
    <3>3. Cardinality({n}) = 1
      BY FS_Singleton
    <3> QED
      BY <2>1, <3>2, <3>3
  <2>2. CASE ~(c \in Live /\ ip[c].CLOSING)
    <3>1. S = {}
      BY <2>2 DEF ConnectionsInv, Closings, Live
    <3> QED
      BY <2>2, <3>1, FS_EmptySet
  <2> QED
    BY <2>1, <2>2
<1>2. ClosedOnce
  BY <1>1 DEF ClosedOnce, ConnectionsInv, Closings
<1>3. NoneLeftBehind
  <2>1. InBackend => Plain(stack)
    BY DEF InBackend, Plain
  <2> QED
    BY <2>1, PlainFacts DEF NoneLeftBehind, ConnectionsInv, Calls
<1> QED
  BY <1>2, <1>3 DEF ClosedProperly, ConnectionsInv

(* The invariant holds in every state of a sensible mud.                   *)
LEMMA InvAlways == Sensible => (Spec => []ConnectionsInv)
<1> SUFFICES ASSUME Sensible PROVE Spec => []ConnectionsInv
  OBVIOUS
<1>1. ConnectionsInv /\ [Next]_vars => ConnectionsInv'
  BY ConnectionsStep
<1> QED
  BY <1>1, ConnectionsInit, PTL DEF Spec

(* For any number of users, connections and slots, objects, structures,    *)
(* slots, snoops, turns and counters of comm.c stay consistent, whatever   *)
(* connect(), net_dead() and commands do in the middle of a change: the    *)
(* pointers agree, num_user and num_hidden count right, no snoops lead to  *)
(* a freed structure or in a circle.                                       *)
THEOREM LinksAlwaysSound == Sensible => (Spec => []LinksSound)
<1> SUFFICES ASSUME Sensible PROVE Spec => []LinksSound
  OBVIOUS
<1>1. Spec => []ConnectionsInv
  BY InvAlways
<1> QED
  BY <1>1, InvLinksSound, PTL

(* Every connection is closed once and by its own object, however deeply   *)
(* calls of net_dead() are nested, and none stays with a destructed object *)
(* (remove_interactive(), destruct_object()).                              *)
THEOREM AlwaysClosedProperly == Sensible => (Spec => []ClosedProperly)
<1> SUFFICES ASSUME Sensible PROVE Spec => []ClosedProperly
  OBVIOUS
<1>1. Spec => []ConnectionsInv
  BY InvAlways
<1> QED
  BY <1>1, InvClosedProperly, PTL

(* get_user_command() serves nobody twice while somebody waits, and users  *)
(* in ed neither, whatever its comment says (comm.c:1437-1438).            *)
THEOREM TurnsAreFair == Sensible => (Spec => NoneServedTwice)
<1> SUFFICES ASSUME Sensible PROVE Spec => NoneServedTwice
  OBVIOUS
<1> DEFINE Fair == \A c \in Conns, more \in BOOLEAN :
                     process_user_command(c, more) =>
                       \A d \in Waiting \ {c} : ip'[d].CMD_IN_BUF => c \notin passed[d]
<1>1. Spec => []ConnectionsInv
  BY InvAlways
<1>2. ConnectionsInv => Fair
  <2> SUFFICES ASSUME ConnectionsInv, NEW c \in Conns, NEW more \in BOOLEAN,
                      process_user_command(c, more), NEW d \in Waiting \ {c}, ip'[d].CMD_IN_BUF,
                      c \in passed[d]
               PROVE  FALSE
    OBVIOUS
  <2>1. d \in Conns /\ ip[d] # Null /\ ip[d] \in Interactive
    BY StructFacts DEF Waiting, Live, ConnectionsInv
  <2>2. Turn(d) < Turn(c)
    BY <2>1 DEF ConnectionsInv, ServedBehind
  <2>3. ip'[d] = [ip[d] EXCEPT !.CMD_IN_BUF = FALSE]
    BY <2>1, <2>2 DEF process_user_command
  <2>4. ip'[d].CMD_IN_BUF = FALSE
    BY <2>1, <2>3 DEF Interactive
  <2> QED
    BY <2>4
<1>3. Spec => [][Fair]_vars
  BY <1>1, <1>2, PTL
<1> QED
  BY <1>3 DEF NoneServedTwice
=============================================================================
