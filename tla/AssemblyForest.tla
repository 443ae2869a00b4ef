---------------------------- MODULE AssemblyForest ----------------------------
(***************************************************************************)
(* What the forest driver needs of a schedule of n supernodes (parents,    *)
(* NONE at a root, and the set of updaters of every supernode): children   *)
(* come before their parent, and what a supernode updates besides its      *)
(* parent its parent updates too.  LlSchedule promises it, ForestSchedule  *)
(* assumes it.                                                             *)
(***************************************************************************)
EXTENDS Integers

NONE == 0      \* usize::MAX in the code, whose supernodes count from 0

IsSchedule(n, parent, updaters) ==
  /\ n \in Nat
  /\ parent \in [1..n -> 1..n \cup {NONE}]
  /\ \A c \in 1..n : parent[c] # NONE => c < parent[c]
  /\ updaters \in [1..n -> SUBSET (1..n)]
  /\ \A s \in 1..n : \A k \in updaters[s] : k < s /\ parent[k] \in updaters[s] \cup {s}
=============================================================================
