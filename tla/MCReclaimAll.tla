---------------------------- MODULE MCReclaimAll ----------------------------
(* ReclaimAll on small instances: the constants are model values of the cfg. *)
EXTENDS ReclaimAll, TLC

CONSTANTS s1, s2, o1, o2, o3, c1, b1, b2, b3

\* Slots, objects and batches are interchangeable.
Sym == Permutations(Slots) \cup Permutations(Objects) \cup Permutations(Batches)
=============================================================================
