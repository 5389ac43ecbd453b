---------------------------- MODULE MCMembarrier ----------------------------
(* Membarrier on a small instance: the constants are those of the cfg. *)
EXTENDS Membarrier, TLC

CONSTANTS t1, t2, t3

\* Threads are interchangeable.
Sym == Permutations(Threads)
=============================================================================
