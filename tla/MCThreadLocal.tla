--------------------------- MODULE MCThreadLocal ---------------------------
(* ThreadLocal on a small instance, and Thread::new for every id of a usize of *)
(* nine bits with the code's ZERO_ENTRY.                                       *)
EXTENDS ThreadLocal, TLC

CONSTANTS t1, t2, t3, p1, p2, p3, p4

\* Threads and addresses are interchangeable.
Sym == Permutations(Threads) \cup Permutations(Ptrs)

Nine == INSTANCE ThreadIndex WITH Bits <- 9, ZERO_ENTRY <- 31

\* The layout of the code's ZERO_ENTRY, in which the buckets start at 32 entries:
\* Thread::new fills them in order, up to the last entry of the last one.
NineBits == phase = "building" => Nine!Ordered /\ Nine!Filled
=============================================================================
