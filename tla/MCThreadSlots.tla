--------------------------- MODULE MCThreadSlots ---------------------------
(* ThreadSlots on small instances: the constants are model values of the cfg. *)
EXTENDS ThreadSlots, TLC

CONSTANTS t1, t2, t3, g1, g2

\* Threads and OwnedGuards are interchangeable.
Sym == Permutations(Threads) \cup Permutations(OwnedGuards)
=============================================================================
