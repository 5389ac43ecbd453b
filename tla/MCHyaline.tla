----------------------------- MODULE MCHyaline -----------------------------
(* Hyaline on small instances: the constants are model values of the cfg. *)
EXTENDS HyalineInv, TLC

CONSTANTS s1, s2, s3, o1, o2, o3, o4, c1, c2, b1, b2, b3

\* Slots, objects and batches are interchangeable in every run that checks
\* safety only.
Sym == Permutations(Slots) \cup Permutations(Objects) \cup Permutations(Batches)
=============================================================================
