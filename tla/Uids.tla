-------------------------------- MODULE Uids --------------------------------
(***************************************************************************)
(* User ids (packages/uids.c, give_uid_to_object() and set_master() of     *)
(* simulate.c) and the balanced tree they are kept in (avltree.c).         *)
(*                                                                         *)
(* A tree is Nil or a node; the functions that may change its height give  *)
(* the tree and whether they did (pi_balance).  The data of a node is a    *)
(* user id, a pair <<name, number>>; uidcmp() compares the names, shared   *)
(* strings, by their addresses.                                            *)
(***************************************************************************)
EXTENDS Integers, Sequences, FiniteSets, FiniteSetsExt

CONSTANTS Obs, Names, MaxLoads     \* objects, names of users; how deep loads nest

VARIABLES
    uids,        \* the tree
    made,        \* how many user ids were allocated for a name
    master, backbone, uid, euid,
    loaded,      \* the objects there are
    loads        \* stack of loads waiting for creator_file(): [by, ob]

uvars == <<uids, made, master, backbone, uid, euid, loaded, loads>>

Nil == <<>>
Node(l, p, r, b) == [l |-> l, p |-> p, r |-> r, b |-> b]

-----------------------------------------------------------------------------
RECURSIVE tree_srch(_, _)
tree_srch(t, name) ==
    IF t = Nil THEN Nil
    ELSE IF name > t.p[1] THEN tree_srch(t.r, name)
    ELSE IF name < t.p[1] THEN tree_srch(t.l, name) ELSE t.p

\* Two rotations about the left branch, and about the right one.  p's branch was
\* already the longer one.
DoubleLR(t) ==
    LET p1 == t.l  p2 == p1.r
    IN Node([p1 EXCEPT !.r = p2.l, !.b = IF p2.b = 1 THEN -1 ELSE 0], p2.p,
            [t EXCEPT !.l = p2.r, !.b = IF p2.b = -1 THEN 1 ELSE 0], 0)

DoubleRL(t) ==
    LET p1 == t.r  p2 == p1.l
    IN Node([t EXCEPT !.r = p2.l, !.b = IF p2.b = 1 THEN -1 ELSE 0], p2.p,
            [p1 EXCEPT !.l = p2.r, !.b = IF p2.b = -1 THEN 1 ELSE 0], 0)

\* Wrong on purpose: the node that goes down keeps its balance.
LeavesBalance(t) ==
    CASE t.b = 1  -> <<[t EXCEPT !.b = 0], FALSE>>
      [] t.b = 0  -> <<[t EXCEPT !.b = -1], TRUE>>
      [] t.b = -1 /\ t.l.b = -1 -> <<[t.l EXCEPT !.r = [t EXCEPT !.l = t.l.r], !.b = 0], FALSE>>
      [] OTHER -> <<DoubleLR(t), FALSE>>

\* The left, the right branch of t has grown.
GrownL(t) ==
    CASE t.b = 1  -> <<[t EXCEPT !.b = 0], FALSE>>
      [] t.b = 0  -> <<[t EXCEPT !.b = -1], TRUE>>
      [] t.b = -1 /\ t.l.b = -1 -> <<[t.l EXCEPT !.r = [t EXCEPT !.l = t.l.r, !.b = 0], !.b = 0], FALSE>>
      [] OTHER -> <<DoubleLR(t), FALSE>>

GrownR(t) ==
    CASE t.b = -1 -> <<[t EXCEPT !.b = 0], FALSE>>
      [] t.b = 0  -> <<[t EXCEPT !.b = 1], TRUE>>
      [] t.b = 1 /\ t.r.b = 1 -> <<[t.r EXCEPT !.l = [t EXCEPT !.r = t.r.l, !.b = 0], !.b = 0], FALSE>>
      [] OTHER -> <<DoubleRL(t), FALSE>>

\* Data with the same key is replaced.
RECURSIVE sprout(_, _)
sprout(t, data) ==
    IF t = Nil THEN <<Node(Nil, data, Nil, 0), TRUE>>
    ELSE IF data[1] < t.p[1] THEN LET s == sprout(t.l, data)  u == [t EXCEPT !.l = s[1]]
                                  IN IF s[2] THEN GrownL(u) ELSE <<u, FALSE>>
    ELSE IF data[1] > t.p[1] THEN LET s == sprout(t.r, data)  u == [t EXCEPT !.r = s[1]]
                                  IN IF s[2] THEN GrownR(u) ELSE <<u, FALSE>>
    ELSE <<[t EXCEPT !.p = data], FALSE>>

\* The left, the right branch of t has become shorter.
balanceL(t) ==
    CASE t.b = -1 -> <<[t EXCEPT !.b = 0], TRUE>>
      [] t.b = 0  -> <<[t EXCEPT !.b = 1], FALSE>>
      [] t.b = 1 /\ t.r.b >= 0 ->
             LET even == t.r.b = 0
             IN <<[t.r EXCEPT !.l = [t EXCEPT !.r = t.r.l, !.b = IF even THEN 1 ELSE 0],
                              !.b = IF even THEN -1 ELSE 0], ~even>>
      [] OTHER -> <<DoubleRL(t), TRUE>>

balanceR(t) ==
    CASE t.b = 1  -> <<[t EXCEPT !.b = 0], TRUE>>
      [] t.b = 0  -> <<[t EXCEPT !.b = -1], FALSE>>
      [] t.b = -1 /\ t.l.b <= 0 ->
             LET even == t.l.b = 0
             IN <<[t.l EXCEPT !.r = [t EXCEPT !.l = t.l.r, !.b = IF even THEN -1 ELSE 0],
                              !.b = IF even THEN 1 ELSE 0], ~even>>
      [] OTHER -> <<DoubleLR(t), TRUE>>

Shorter(t, left, s) ==
    LET u == IF left THEN [t EXCEPT !.l = s[1]] ELSE [t EXCEPT !.r = s[1]]
    IN IF ~s[2] THEN <<u, FALSE>> ELSE IF left THEN balanceL(u) ELSE balanceR(u)

\* del(): the greatest of the branch goes, its data is the third part.
RECURSIVE del(_)
del(t) ==
    IF t.r # Nil THEN LET s == del(t.r) IN Append(Shorter(t, FALSE, s), s[3])
    ELSE <<t.l, TRUE, t.p>>

RECURSIVE delete(_, _)
delete(t, name) ==
    IF t = Nil THEN <<Nil, FALSE>>
    ELSE IF t.p[1] > name THEN Shorter(t, TRUE, delete(t.l, name))
    ELSE IF t.p[1] < name THEN Shorter(t, FALSE, delete(t.r, name))
    ELSE IF t.r = Nil THEN <<t.l, TRUE>>
    ELSE IF t.l = Nil THEN <<t.r, TRUE>>
    ELSE LET s == del(t.l) IN Shorter([t EXCEPT !.p = s[3]], TRUE, s)

RECURSIVE tree_trav(_)
tree_trav(t) == IF t = Nil THEN <<>> ELSE tree_trav(t.l) \o <<t.p>> \o tree_trav(t.r)

-----------------------------------------------------------------------------
(* add_uid() gives the user id of a name, a new one if there is none.      *)
Found(t, n, name) == IF tree_srch(t, name) # Nil THEN tree_srch(t, name) ELSE <<name, n[name] + 1>>
Grow(t, name, id) == IF tree_srch(t, name) # Nil THEN t ELSE sprout(t, id)[1]

\* To objects, 0 stands for no user id.
add_uid(name, id) ==
    /\ id = Found(uids, made, name)
    /\ uids' = Grow(uids, name, id)
    /\ made' = [made EXCEPT ![name] = Max({@, id[2]})]

NoUid == <<0, 0>>

\* set_master() when the first master object, loaded without one ("NONAME", the
\* least of the names), answers get_root_uid() and get_backbone_uid().
set_master(ob, r, b) ==
    /\ master = 0
    /\ LET noname == <<Min(Names), 1>>
           t1 == sprout(Nil, noname)[1]
           root == Found(t1, made, r)
           t2 == Grow(t1, r, root)
           back == Found(t2, made, b)
       IN /\ uids' = Grow(t2, b, back)
          /\ made' = [name \in Names |-> IF name \in {noname[1], r, b} THEN 1 ELSE 0]
          /\ backbone' = back
          /\ uid' = [uid EXCEPT ![ob] = root]
          /\ euid' = [euid EXCEPT ![ob] = root]
    /\ master' = ob /\ loaded' = {ob}
    /\ UNCHANGED loads

\* A master object loaded again: its user id is looked up.
SetMasterAgain(r) ==
    /\ master # 0 /\ loads = <<>>
    /\ \E id \in {Found(uids, made, r)} :
          /\ add_uid(r, id)
          /\ uid' = [uid EXCEPT ![master] = id]
          /\ euid' = [euid EXCEPT ![master] = id]
    /\ UNCHANGED <<master, backbone, loaded, loads>>

\* load_object() and clone_object() up to give_uid_to_object(), which asks the
\* master for the creator.
LoadObject(by, ob) ==
    /\ master # 0 /\ Len(loads) < MaxLoads
    /\ by \in loaded /\ ob \notin loaded
    /\ \A i \in DOMAIN loads : ob # loads[i].ob
    /\ euid[by] # NoUid
    /\ loads' = Append(loads, [by |-> by, ob |-> ob])
    /\ UNCHANGED <<uids, made, master, backbone, uid, euid, loaded>>

\* creator_file() returns.  The loader's ids are those it has now.
give_uid_to_object(creator) ==
    /\ loads # <<>>
    /\ LET by == loads[Len(loads)].by
           ob == loads[Len(loads)].ob
       IN IF uid[by][1] = creator
          THEN /\ uid' = [uid EXCEPT ![ob] = uid[by]]
               /\ euid' = [euid EXCEPT ![ob] = euid[by]]
               /\ UNCHANGED <<uids, made>>
          ELSE IF backbone[1] = creator
          THEN /\ uid' = [uid EXCEPT ![ob] = euid[by]]
               /\ euid' = [euid EXCEPT ![ob] = euid[by]]
               /\ UNCHANGED <<uids, made>>
          ELSE \E id \in {Found(uids, made, creator)} :
               /\ add_uid(creator, id)
               /\ uid' = [uid EXCEPT ![ob] = id]
               /\ euid' = [euid EXCEPT ![ob] = NoUid]
    /\ loaded' = loaded \cup {loads[Len(loads)].ob}
    /\ loads' = SubSeq(loads, 1, Len(loads) - 1)
    /\ UNCHANGED <<master, backbone>>

\* It gave no string: the object is destructed, the load is an error.
CreatorRefuses ==
    /\ loads # <<>>
    /\ loads' = SubSeq(loads, 1, Len(loads) - 1)
    /\ UNCHANGED <<uids, made, master, backbone, uid, euid, loaded>>

\* The efuns, called by objects that are loaded.  f_seteuid() after valid_seteuid().
f_seteuid(ob, name) ==
    /\ ob \in loaded
    /\ \E id \in {IF name = 0 THEN NoUid ELSE Found(uids, made, name)} :
          /\ euid' = [euid EXCEPT ![ob] = id]
          /\ IF name = 0 THEN UNCHANGED <<uids, made>> ELSE add_uid(name, id)
    /\ UNCHANGED <<master, backbone, uid, loaded, loads>>

f_export_uid(by, ob) ==
    /\ by \in loaded /\ ob \in loaded
    /\ euid[by] # NoUid /\ euid[ob] = NoUid
    /\ uid' = [uid EXCEPT ![ob] = euid[by]]
    /\ UNCHANGED <<uids, made, master, backbone, euid, loaded, loads>>

UidsInit ==
    /\ uids = Nil /\ made = [name \in Names |-> 0] /\ master = 0 /\ backbone = NoUid
    /\ uid = [ob \in Obs |-> NoUid] /\ euid = [ob \in Obs |-> NoUid]
    /\ loaded = {} /\ loads = <<>>

UidsNext ==
    \/ \E ob \in Obs, r, b \in Names : set_master(ob, r, b)
    \/ \E r \in Names : SetMasterAgain(r)
    \/ \E by, ob \in Obs : LoadObject(by, ob)
    \/ \E creator \in Names : give_uid_to_object(creator)
    \/ CreatorRefuses
    \/ \E ob \in Obs, name \in Names \cup {0} : f_seteuid(ob, name)
    \/ \E by, ob \in Obs : f_export_uid(by, ob)

UidsSpec == UidsInit /\ [][UidsNext]_uvars

-----------------------------------------------------------------------------
RECURSIVE Height(_)
Height(t) == IF t = Nil THEN 0 ELSE 1 + Max({Height(t.l), Height(t.r)})

RECURSIVE Balanced(_)
Balanced(t) == t = Nil \/ (t.b = Height(t.r) - Height(t.l) /\ t.b \in -1 .. 1 /\ Balanced(t.l) /\ Balanced(t.r))

Sorted(s) == \A i, j \in DOMAIN s : i < j => s[i][1] < s[j][1]

\* One user id per name (uids are compared by address): the tree is in order, its
\* balances are true, and every user id an object holds, or held when it was
\* made, is the one add_uid() finds for its name.  Any name could be deleted with
\* the tree still sound and nothing else gone.
UidsSound ==
    /\ Sorted(tree_trav(uids)) /\ Balanced(uids)
    /\ \A name \in Names : made[name] = IF tree_srch(uids, name) = Nil THEN 0 ELSE 1
    /\ \A ob \in Obs : /\ uid[ob] # NoUid => tree_srch(uids, uid[ob][1]) = uid[ob]
                       /\ euid[ob] # NoUid => tree_srch(uids, euid[ob][1]) = euid[ob]
    /\ \A name \in Names :
          LET t == delete(uids, name)[1]
          IN Balanced(t) /\ tree_trav(t) = SelectSeq(tree_trav(uids), LAMBDA p : p[1] # name)

\* "UID is a null pointer" (the assertion in f_getuid()): an object that was
\* loaded has a user id.
\* Refuted; see the README, section 6.
UidNotNull == \A ob \in loaded : uid[ob] # NoUid
=============================================================================
