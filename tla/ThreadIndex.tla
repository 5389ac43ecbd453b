---------------------------- MODULE ThreadIndex ----------------------------
(***************************************************************************)
(* Where the slot of a thread id is: Thread::new of                         *)
(* src/src/raw/tls/thread_id.rs, which maps an id to a bucket and an entry  *)
(* of it.  The buckets double in size, the first has ZERO_ENTRY + 1 entries. *)
(***************************************************************************)
EXTENDS Integers, FiniteSets

CONSTANTS Bits,       \* usize::BITS
          ZERO_ENTRY  \* the number of entries that are skipped

\* One less than a power of two, and not the largest usize.
ASSUME IndexAssumption ==
  /\ Bits \in Nat \ {0}
  /\ \E k \in 0 .. Bits - 1 : ZERO_ENTRY = 2^k - 1

\* What 2^n is: the one fact of arithmetic that the provers have to be told.
ASSUME PowerAssumption == \A n \in 0 .. Bits - 1 : 2^(n + 1) = 2 * 2^n

UsizeMax == 2^Bits - 1

\* usize::leading_zeros.
LeadingZeros(x) ==
  CHOOSE n \in 0 .. Bits : x < 2^(Bits - n) /\ (n < Bits => x >= 2^(Bits - n - 1))

ZERO_BUCKET == Bits - LeadingZeros(ZERO_ENTRY)
BUCKETS == Bits - ZERO_BUCKET

\* Mutant: one id too many.
MaxIndexOver == UsizeMax - ZERO_ENTRY

\* Thread::new panics above it.
MAX_INDEX == UsizeMax - ZERO_ENTRY - 1

BucketCapacity(bucket) == 2^(bucket + ZERO_BUCKET)

\* Mutant: the leading zeros are those of the index itself.
NewOffByOne(id) ==
  LET index  == id + ZERO_ENTRY
      bucket == BUCKETS - LeadingZeros(index) - 1
  IN  [id |-> id, bucket |-> bucket, entry |-> index - (BucketCapacity(bucket) - 1)]

\* Mutant: the entry is counted from the index after the bucket's first.
NewEntryAfter(id) ==
  LET index  == id + ZERO_ENTRY
      bucket == BUCKETS - LeadingZeros(index + 1) - 1
  IN  [id |-> id, bucket |-> bucket, entry |-> index - BucketCapacity(bucket)]

\* Thread::new.  The sum index + 1 does not overflow, by the bound on the id.
New(id) ==
  LET index  == id + ZERO_ENTRY
      bucket == BUCKETS - LeadingZeros(index + 1) - 1
  IN  [id |-> id, bucket |-> bucket, entry |-> index - (BucketCapacity(bucket) - 1)]

-----------------------------------------------------------------------------
(* How the ids are laid out. *)

\* The entry of an id, and all entries that buckets have.
Place(i) == <<New(i).bucket, New(i).entry>>
AllPlaces == UNION {{b} \X (0 .. BucketCapacity(b) - 1) : b \in 0 .. BUCKETS - 1}

\* The entry after entry e of bucket b, in the order of the buckets.
After(b, e) == IF e + 1 < BucketCapacity(b) THEN <<b, e + 1>> ELSE <<b + 1, 0>>

\* The first id is in the first entry; the id after i is in the next entry.
Ordered ==
  /\ Place(0) = <<0, 0>>
  /\ \A i \in 0 .. MAX_INDEX - 1 : Place(i + 1) = After(Place(i)[1], Place(i)[2])

\* There are as many ids as entries, and the last id is in the last entry.
Filled ==
  /\ Cardinality(AllPlaces) = MAX_INDEX + 1
  /\ Place(MAX_INDEX) = <<BUCKETS - 1, BucketCapacity(BUCKETS - 1) - 1>>
=============================================================================
