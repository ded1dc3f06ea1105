------------------------------ MODULE MCWorld ------------------------------
(***************************************************************************)
(* The objects of the world, with the user ids they get and the memory     *)
(* they are allocated in.  The three share no state and are checked side   *)
(* by side: part says which one a behaviour is about; user ids and memory  *)
(* share v1..v8, which are 0 elsewhere.                                    *)
(***************************************************************************)
EXTENDS Objects, TLC

VARIABLES part, v1, v2, v3, v4, v5, v6, v7, v8

AnyOrder == Permutations(Objects \ Beings)

\* Five names are enough for every rotation of the tree.
Users == INSTANCE Uids WITH
  Obs <- {1, 2}, Names <- 1..5, MaxLoads <- 1,
  uids <- v1, made <- v2, master <- v3, backbone <- v4, uid <- v5, euid <- v6, loaded <- v7, loads <- v8

\* Blocks of both kinds, small chunks of three small blocks, and memory for two
\* chunks and a little.
Heap == INSTANCE Allocator WITH
  SMALL_BLOCK_MAX <- 2, SMALL_CHUNK_SIZE <- 6, CHUNK_SIZE <- 10, Memory <- 27,
  Requests <- {1, 2, 3, 6}, Reserve <- 4, MaxLive <- 3,
  mem <- v1, brk <- v2, free_tree <- v3, sfltable <- v4, unused <- v5, reserved_area <- v6,
  live <- v7, exited <- v8
-----------------------------------------------------------------------------
others == <<v1, v2, v3, v4, v5, v6, v7, v8>>

MCInit ==
  /\ Init
  /\ \/ part = "objects" /\ v1 = 0 /\ v2 = 0 /\ v3 = 0 /\ v4 = 0 /\ v5 = 0 /\ v6 = 0 /\ v7 = 0 /\ v8 = 0
     \/ part = "uids" /\ Users!UidsInit
     \/ part = "heap" /\ Heap!AllocInit

MCNext ==
  \/ part = "objects" /\ Next /\ UNCHANGED <<part, others>>
  \/ part = "uids" /\ Users!UidsNext /\ UNCHANGED <<part, vars>>
  \/ part = "heap" /\ Heap!AllocNext /\ UNCHANGED <<part, vars>>

MCSpec == MCInit /\ [][MCNext]_<<part, vars, others>>
-----------------------------------------------------------------------------
\* One user id per name, in a tree that is in order and in balance; any of them
\* could be deleted without the others.
UidsSound == part = "uids" => Users!UidsSound

\* Tags, free tree, small blocks and what the driver holds describe the same
\* heap, also when memory runs out and the reserve is freed.
HeapSound == part = "heap" => Heap!HeapSound
=============================================================================
