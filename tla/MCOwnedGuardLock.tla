-------------------------- MODULE MCOwnedGuardLock --------------------------
(* OwnedGuardLock on a small instance: the constants are those of the cfg. *)
EXTENDS OwnedGuardLock, TLC

CONSTANTS t1, t2, t3, o1, o2, o3

\* Threads and objects are interchangeable.
Sym == Permutations(Threads) \cup Permutations(Objects)
=============================================================================
