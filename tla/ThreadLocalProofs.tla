------------------------- MODULE ThreadLocalProofs -------------------------
(***************************************************************************)
(* Thread::new and the tables of ThreadLocal, for every word size, every    *)
(* size of the first bucket and any number of threads, ids and addresses.   *)
(***************************************************************************)
EXTENDS ThreadLocal, FiniteSetTheorems, FunctionTheorems, TLAPS

-----------------------------------------------------------------------------
(* Powers of two. *)

\* Induction, for the proofs below: a set of naturals has a least element.
LEMMA LeastNat ==
  ASSUME NEW T, T \subseteq Nat, T # {}
  PROVE  \E m \in T : \A k \in T : m <= k
<1> DEFINE R == OpToRel(<, Nat)
<1>1. IsWellFoundedOn(R, Nat)  BY NatLessThanWellFounded
<1>2. \A x, y \in Nat : x < y => <<x, y>> \in R  BY DEF OpToRel
<1> HIDE DEF R
<1>3. PICK m \in T : \A y \in T : ~(<<y, m>> \in R)  BY <1>1, WFMin
<1>4. ASSUME NEW k \in T PROVE m <= k
  <2>1. k \in Nat /\ m \in Nat  OBVIOUS
  <2>2. ~(<<k, m>> \in R)  BY <1>3
  <2>3. ~(k < m)  BY <1>2, <2>1, <2>2
  <2> QED  BY <2>1, <2>3
<1> QED  BY <1>4

\* A power of two is a positive number.
LEMMA PowPositive == \A n \in 0 .. Bits : 2^n \in Nat \ {0}
<1> DEFINE T == {n \in 0 .. Bits : 2^n \notin Nat \ {0}}
<1>1. ASSUME T # {} PROVE FALSE
  <2>1. T \subseteq Nat  OBVIOUS
  <2>2. PICK n \in T : \A k \in T : n <= k  BY <1>1, <2>1, LeastNat
  <2>3. ASSUME n = 0 PROVE FALSE
    <3>1. 2^n = 1  BY <2>3
    <3> QED  BY <2>2, <3>1
  <2>4. n - 1 \in 0 .. Bits - 1 /\ n - 1 \in 0 .. Bits /\ n - 1 \notin T  BY <2>2, <2>3, IndexAssumption
  <2>5. 2^(n - 1) \in Nat \ {0} /\ 2^(n - 1 + 1) = 2 * 2^(n - 1)  BY <2>4, PowerAssumption
  <2>6. n - 1 + 1 = n  BY <2>2
  <2> QED  BY <2>2, <2>5, <2>6
<1> QED  BY <1>1

\* The powers of two at least double.
LEMMA PowMonotone == \A m, n \in 0 .. Bits : m < n => 2 * 2^m <= 2^n
<1> SUFFICES ASSUME NEW m \in 0 .. Bits PROVE \A n \in 0 .. Bits : m < n => 2 * 2^m <= 2^n
  OBVIOUS
<1> DEFINE T == {n \in 0 .. Bits : m < n /\ ~(2 * 2^m <= 2^n)}
<1>1. ASSUME T # {} PROVE FALSE
  <2>1. T \subseteq Nat  OBVIOUS
  <2>2. PICK n \in T : \A k \in T : n <= k  BY <1>1, <2>1, LeastNat
  <2>3. n - 1 \in 0 .. Bits - 1 /\ n - 1 \in 0 .. Bits /\ n - 1 \notin T /\ n - 1 + 1 = n
    BY <2>2, IndexAssumption
  <2>4. 2^n = 2 * 2^(n - 1) /\ 2^m \in Nat \ {0} /\ 2^(n - 1) \in Nat \ {0} /\ 2^n \in Nat
    BY <2>2, <2>3, PowerAssumption, PowPositive
  <2>5. CASE m = n - 1  BY <2>2, <2>4, <2>5
  <2>6. CASE m < n - 1
    <3>1. 2 * 2^m <= 2^(n - 1)  BY <2>3, <2>6
    <3> QED  BY <2>2, <2>4, <3>1
  <2> QED  BY <2>2, <2>5, <2>6
<1> QED  BY <1>1

\* The leading zeros of x: x has Bits - n digits.
LEMMA LeadingZerosIs ==
  ASSUME NEW x \in Nat, NEW m \in 0 .. Bits, x < 2^m, m > 0 => x >= 2^(m - 1)
  PROVE  LeadingZeros(x) = Bits - m
<1> DEFINE Fits(n) == x < 2^(Bits - n) /\ (n < Bits => x >= 2^(Bits - n - 1))
<1>1. Bits \in Nat /\ Bits - m \in 0 .. Bits /\ Bits - (Bits - m) = m  BY IndexAssumption
<1>2. Fits(Bits - m)  BY <1>1
<1>3. ASSUME NEW n \in 0 .. Bits, Fits(n) PROVE n = Bits - m
  <2> DEFINE k == Bits - n
  <2>1. k \in 0 .. Bits /\ x < 2^k /\ (k > 0 => x >= 2^(k - 1))  BY <1>1, <1>3
  <2> HIDE DEF k
  <2>2. ASSUME k < m PROVE FALSE
    <3>0. m > 0 /\ m - 1 \in 0 .. Bits  BY <1>1, <2>1, <2>2
    <3>1. m - 1 \in 0 .. Bits /\ x >= 2^(m - 1)  BY <3>0
    <3>2. 2^k <= 2^(m - 1)
      <4>1. CASE k = m - 1  BY <4>1, <3>1, PowPositive
      <4>2. CASE k < m - 1  BY <4>2, <2>1, <3>1, PowMonotone, PowPositive
      <4> QED  BY <2>1, <2>2, <4>1, <4>2
    <3> QED  BY <2>1, <3>1, <3>2, PowPositive
  <2>3. ASSUME m < k PROVE FALSE
    <3>0. k > 0 /\ k - 1 \in 0 .. Bits  BY <1>1, <2>1, <2>3
    <3>1. k - 1 \in 0 .. Bits /\ x >= 2^(k - 1)  BY <2>1, <3>0
    <3>2. 2^m <= 2^(k - 1)
      <4>1. CASE m = k - 1  BY <4>1, <3>1, PowPositive
      <4>2. CASE m < k - 1  BY <4>2, <2>1, <3>1, PowMonotone, PowPositive
      <4> QED  BY <2>1, <2>3, <4>1, <4>2
    <3> QED  BY <2>1, <3>1, <3>2, PowPositive
  <2>4. k = m  BY <2>1, <2>2, <2>3
  <2> QED  BY <1>1, <2>4 DEF k
<1> QED  BY <1>1, <1>2, <1>3 DEF LeadingZeros

\* Every usize has leading zeros.
LEMMA Digits ==
  ASSUME NEW x \in Nat, x < 2^Bits
  PROVE  \E m \in 0 .. Bits : x < 2^m /\ (m > 0 => x >= 2^(m - 1))
<1> DEFINE T == {n \in 0 .. Bits : x < 2^n}
<1>1. Bits \in T  BY IndexAssumption
<1>2. T \subseteq Nat  OBVIOUS
<1>3. PICK m \in T : \A k \in T : m <= k  BY <1>1, <1>2, LeastNat
<1>4. ASSUME m > 0 PROVE x >= 2^(m - 1)
  <2>0. m - 1 \in 0 .. Bits /\ ~(m <= m - 1)  BY <1>3, <1>4, IndexAssumption
  <2>1. m - 1 \in 0 .. Bits /\ m - 1 \notin T  BY <1>3, <2>0
  <2> QED  BY <2>1, PowPositive
<1> QED  BY <1>3, <1>4

-----------------------------------------------------------------------------
(* Thread::new. *)

\* The constants of the layout.
LEMMA Layout ==
  /\ ZERO_BUCKET \in 0 .. Bits - 1 /\ ZERO_ENTRY = 2^ZERO_BUCKET - 1 /\ ZERO_ENTRY \in Nat
  /\ BUCKETS \in 1 .. Bits /\ BUCKETS = Bits - ZERO_BUCKET
<1>1. PICK k \in 0 .. Bits - 1 : ZERO_ENTRY = 2^k - 1  BY IndexAssumption
<1>2. k \in 0 .. Bits /\ 2^k \in Nat \ {0} /\ Bits \in Nat \ {0}  BY IndexAssumption, PowPositive
<1>3. ZERO_ENTRY \in Nat /\ ZERO_ENTRY < 2^k  BY <1>1, <1>2
<1>4. ASSUME k > 0 PROVE ZERO_ENTRY >= 2^(k - 1)
  <2>1. k - 1 \in 0 .. Bits /\ k - 1 < k  BY <1>2, <1>4
  <2>2. 2 * 2^(k - 1) <= 2^k /\ 2^(k - 1) \in Nat \ {0}  BY <1>2, <2>1, PowMonotone, PowPositive
  <2> QED  BY <1>1, <1>2, <2>2
<1>5. LeadingZeros(ZERO_ENTRY) = Bits - k  BY <1>2, <1>3, <1>4, LeadingZerosIs
<1>6. ZERO_BUCKET = k  BY <1>2, <1>5 DEF ZERO_BUCKET
<1> QED  BY <1>1, <1>2, <1>3, <1>6 DEF BUCKETS

\* The capacities double, up to the word size.
LEMMA Capacity ==
  ASSUME NEW b \in 0 .. BUCKETS - 1
  PROVE  /\ b + ZERO_BUCKET \in 0 .. Bits - 1
         /\ BucketCapacity(b) = 2^(b + ZERO_BUCKET) /\ BucketCapacity(b) \in Nat \ {0}
         /\ 2^(b + ZERO_BUCKET + 1) = 2 * BucketCapacity(b)
         /\ BucketCapacity(b) > ZERO_ENTRY
         /\ BucketCapacity(b) <= BucketCapacity(BUCKETS - 1)
         /\ 2 * BucketCapacity(b) <= 2^Bits
<1> DEFINE m == b + ZERO_BUCKET
<1>1. m \in 0 .. Bits - 1 /\ m \in 0 .. Bits /\ m + 1 \in 0 .. Bits /\ Bits \in Nat /\ m >= ZERO_BUCKET
      /\ ZERO_BUCKET \in 0 .. Bits /\ BUCKETS - 1 + ZERO_BUCKET = Bits - 1 /\ Bits - 1 \in 0 .. Bits
  BY Layout, IndexAssumption
<1>2. BucketCapacity(b) = 2^m  BY DEF BucketCapacity
<1> HIDE DEF m
<1>3. 2^m \in Nat \ {0} /\ 2^(m + 1) = 2 * 2^m  BY <1>1, PowPositive, PowerAssumption
<1>4. 2^m > ZERO_ENTRY
  <2>1. CASE m = ZERO_BUCKET  BY <2>1, <1>3, Layout
  <2>2. CASE m > ZERO_BUCKET
    <3>1. 2 * 2^ZERO_BUCKET <= 2^m /\ 2^ZERO_BUCKET \in Nat \ {0}  BY <2>2, <1>1, PowMonotone, PowPositive
    <3> QED  BY <3>1, <1>3, Layout
  <2> QED  BY <2>1, <2>2, <1>1
<1>5. BucketCapacity(BUCKETS - 1) = 2^(Bits - 1)  BY <1>1 DEF BucketCapacity
<1>6. 2^m <= 2^(Bits - 1)
  <2>1. CASE m = Bits - 1  BY <2>1, <1>3
  <2>2. CASE m < Bits - 1  BY <2>2, <1>1, <1>3, PowMonotone, PowPositive
  <2> QED  BY <1>1, <2>1, <2>2
<1>7. 2 * 2^m <= 2^Bits
  BY <1>1, PowMonotone
<1> QED  BY <1>1, <1>2, <1>3, <1>4, <1>5, <1>6, <1>7 DEF m

\* The id whose entry is entry e of bucket b.
IdAt(b, e) == BucketCapacity(b) + e - 1 - ZERO_ENTRY

\* Thread::new, given the bucket its leading zeros select.
LEMMA NewIs ==
  ASSUME NEW i, NEW b, BUCKETS - LeadingZeros(i + ZERO_ENTRY + 1) - 1 = b
  PROVE  New(i).bucket = b /\ New(i).entry = (i + ZERO_ENTRY) - (BucketCapacity(b) - 1)
BY Zenon DEF New

\* Thread::new takes the id of an entry back to that entry.
LEMMA NewAt ==
  ASSUME NEW b \in 0 .. BUCKETS - 1, NEW e \in 0 .. BucketCapacity(b) - 1
  PROVE  IdAt(b, e) \in 0 .. MAX_INDEX /\ New(IdAt(b, e)).bucket = b /\ New(IdAt(b, e)).entry = e
<1> DEFINE c == BucketCapacity(b)
           m == b + ZERO_BUCKET + 1
           i == IdAt(b, e)
<1>1. c \in Nat \ {0} /\ c = 2^(b + ZERO_BUCKET) /\ 2^m = 2 * c /\ c > ZERO_ENTRY /\ 2 * c <= 2^Bits
      /\ 2^Bits \in Nat /\ ZERO_ENTRY \in Nat
  BY Capacity, Layout, PowPositive, IndexAssumption
<1>2. m \in 1 .. Bits /\ m \in 0 .. Bits /\ m - 1 = b + ZERO_BUCKET /\ Bits \in Nat
  BY Capacity, Layout, IndexAssumption
<1>3. BUCKETS - (Bits - m) - 1 = b  BY Layout, IndexAssumption
<1>4. i = c + e - 1 - ZERO_ENTRY  BY DEF IdAt
<1>5. e \in Nat /\ e < c  BY <1>1
<1> HIDE DEF c, m, i
<1>6. i \in 0 .. MAX_INDEX  BY <1>1, <1>4, <1>5 DEF MAX_INDEX, UsizeMax
<1>7. i + ZERO_ENTRY + 1 = c + e /\ (i + ZERO_ENTRY) - (c - 1) = e  BY <1>1, <1>4, <1>5
<1>8. LeadingZeros(i + ZERO_ENTRY + 1) = Bits - m
  <2>1. c + e \in Nat /\ c + e < 2^m /\ c + e >= 2^(m - 1)  BY <1>1, <1>2, <1>5
  <2> QED  BY <1>2, <1>7, <2>1, LeadingZerosIs
<1>9. BUCKETS - LeadingZeros(i + ZERO_ENTRY + 1) - 1 = b  BY <1>3, <1>8
<1>10. New(i).bucket = b /\ New(i).entry = e  BY <1>7, <1>9, NewIs DEF c
<1> QED  BY <1>6, <1>10 DEF i

\* Every id has an entry, which is within its bucket.
LEMMA NewBounds ==
  ASSUME NEW i \in 0 .. MAX_INDEX
  PROVE  /\ New(i).bucket \in 0 .. BUCKETS - 1
         /\ New(i).entry \in 0 .. BucketCapacity(New(i).bucket) - 1
         /\ i = IdAt(New(i).bucket, New(i).entry)
<1> DEFINE x == i + ZERO_ENTRY + 1
<1>1. 2^Bits \in Nat /\ ZERO_ENTRY \in Nat /\ i \in Nat /\ x \in Nat /\ x < 2^Bits /\ x >= 2^ZERO_BUCKET
      /\ Bits \in Nat /\ ZERO_BUCKET \in 0 .. Bits /\ ZERO_ENTRY = 2^ZERO_BUCKET - 1 /\ 2^ZERO_BUCKET \in Nat
  BY Layout, PowPositive, IndexAssumption DEF MAX_INDEX, UsizeMax
<1>2. PICK m \in 0 .. Bits : x < 2^m /\ (m > 0 => x >= 2^(m - 1))  BY <1>1, Digits
<1>3. m > ZERO_BUCKET
  <2>1. ASSUME m <= ZERO_BUCKET PROVE FALSE
    <3>1. 2^m <= 2^ZERO_BUCKET
      <4>1. CASE m = ZERO_BUCKET  BY <4>1, <1>1
      <4>2. CASE m < ZERO_BUCKET  BY <4>2, <1>1, <1>2, PowMonotone, PowPositive
      <4> QED  BY <1>1, <2>1, <4>1, <4>2
    <3>2. 2^m \in Nat  BY PowPositive
    <3> QED  BY <1>1, <1>2, <3>1, <3>2
  <2> QED  BY <2>1, <1>1
<1> DEFINE b == m - 1 - ZERO_BUCKET
           e == x - BucketCapacity(b)
<1>4. b \in 0 .. BUCKETS - 1 /\ b + ZERO_BUCKET = m - 1 /\ b + ZERO_BUCKET + 1 = m
  BY <1>1, <1>3, Layout
<1> HIDE DEF b
<1>5. BucketCapacity(b) = 2^(m - 1) /\ BucketCapacity(b) \in Nat /\ 2^m = 2 * BucketCapacity(b)
  BY <1>4, Capacity
<1>6. e \in 0 .. BucketCapacity(b) - 1  BY <1>1, <1>2, <1>3, <1>5
<1>7. IdAt(b, e) = i  BY <1>1, <1>5 DEF IdAt
<1> HIDE DEF e
<1>8. New(i).bucket = b /\ New(i).entry = e  BY <1>4, <1>6, <1>7, NewAt
<1> QED  BY <1>4, <1>6, <1>7, <1>8

\* An entry and the id it belongs to.
LEMMA PlaceOfIdAt ==
  ASSUME NEW b \in 0 .. BUCKETS - 1, NEW e \in 0 .. BucketCapacity(b) - 1
  PROVE  IdAt(b, e) \in 0 .. MAX_INDEX /\ Place(IdAt(b, e)) = <<b, e>>
BY NewAt DEF Place

\* The id is that of its entry.
LEMMA IdAtPlace ==
  ASSUME NEW i \in 0 .. MAX_INDEX
  PROVE  /\ Place(i)[1] \in 0 .. BUCKETS - 1
         /\ Place(i)[2] \in 0 .. BucketCapacity(Place(i)[1]) - 1
         /\ IdAt(Place(i)[1], Place(i)[2]) = i
         /\ Place(i) = <<Place(i)[1], Place(i)[2]>>
BY NewBounds DEF Place

\* Thread::new lays out the ids in order, bucket after bucket, for every word
\* size and every size of the first bucket: no two share an entry, none is skipped.
THEOREM IdsAreInOrder == Ordered
<1>1. Place(0) = <<0, 0>>
  <2>1. 0 \in 0 .. BUCKETS - 1 /\ BucketCapacity(0) \in Nat \ {0} /\ BucketCapacity(0) = 2^ZERO_BUCKET
    BY Layout, Capacity
  <2>2. 0 \in 0 .. BucketCapacity(0) - 1 /\ IdAt(0, 0) = 0  BY <2>1, Layout DEF IdAt
  <2> QED  BY <2>1, <2>2, PlaceOfIdAt
<1>2. ASSUME NEW i \in 0 .. MAX_INDEX - 1
      PROVE  Place(i + 1) = After(Place(i)[1], Place(i)[2])
  <2> DEFINE b == Place(i)[1]
             e == Place(i)[2]
  <2>0. MAX_INDEX \in Int  BY PowPositive, Layout, IndexAssumption DEF MAX_INDEX, UsizeMax
  <2>1. i \in 0 .. MAX_INDEX /\ i + 1 <= MAX_INDEX /\ i \in Nat  BY <2>0
  <2>2. b \in 0 .. BUCKETS - 1 /\ e \in 0 .. BucketCapacity(b) - 1 /\ IdAt(b, e) = i
    BY <2>1, IdAtPlace
  <2> HIDE DEF b, e
  <2>3. b \in Nat /\ e \in Nat /\ BucketCapacity(b) \in Nat \ {0} /\ ZERO_ENTRY \in Nat
        /\ 2^(b + ZERO_BUCKET + 1) = 2 * BucketCapacity(b) /\ BUCKETS \in 1 .. Bits
        /\ BUCKETS = Bits - ZERO_BUCKET /\ Bits \in Nat /\ ZERO_BUCKET \in Nat /\ e < BucketCapacity(b)
    BY <2>2, Capacity, Layout, IndexAssumption
  <2>4. CASE e + 1 < BucketCapacity(b)
    <3>1. e + 1 \in 0 .. BucketCapacity(b) - 1 /\ IdAt(b, e + 1) = i + 1  BY <2>2, <2>3, <2>4 DEF IdAt
    <3>2. Place(i + 1) = <<b, e + 1>>  BY <2>2, <3>1, PlaceOfIdAt
    <3> QED  BY <2>4, <3>2 DEF After, b, e
  <2>5. CASE ~(e + 1 < BucketCapacity(b))
    <3>1. e = BucketCapacity(b) - 1  BY <2>3, <2>5
    <3>2. i + 1 = 2 * BucketCapacity(b) - 1 - ZERO_ENTRY  BY <2>2, <2>3, <3>1 DEF IdAt
    <3>3. ASSUME b = BUCKETS - 1 PROVE FALSE
      <4>1. b + ZERO_BUCKET + 1 = Bits  BY <2>3, <3>3
      <4>2. 2^Bits = 2 * BucketCapacity(b)  BY <2>3, <4>1
      <4> QED  BY <2>1, <2>3, <3>2, <4>2 DEF MAX_INDEX, UsizeMax
    <3>4. b + 1 \in 0 .. BUCKETS - 1  BY <2>2, <2>3, <3>3
    <3>5. BucketCapacity(b + 1) = 2 * BucketCapacity(b)
      <4>1. b + 1 + ZERO_BUCKET = b + ZERO_BUCKET + 1  BY <2>3
      <4> QED  BY <2>3, <4>1 DEF BucketCapacity
    <3>6. 0 \in 0 .. BucketCapacity(b + 1) - 1 /\ IdAt(b + 1, 0) = i + 1  BY <2>3, <3>2, <3>5 DEF IdAt
    <3>7. Place(i + 1) = <<b + 1, 0>>  BY <3>4, <3>6, PlaceOfIdAt
    <3> QED  BY <2>5, <3>7 DEF After, b, e
  <2> QED  BY <2>4, <2>5
<1> QED  BY <1>1, <1>2 DEF Ordered

\* Every entry belongs to an id: the buckets hold MAX_INDEX + 1 entries.
THEOREM IdsFillTheBuckets == Filled
<1>0. MAX_INDEX \in Int /\ 2^Bits \in Nat /\ ZERO_ENTRY \in Nat /\ Bits \in Nat
  BY PowPositive, Layout, IndexAssumption DEF MAX_INDEX, UsizeMax
<1>1. Place(MAX_INDEX) = <<BUCKETS - 1, BucketCapacity(BUCKETS - 1) - 1>> /\ MAX_INDEX \in Nat
  <2> DEFINE b == BUCKETS - 1
             e == BucketCapacity(b) - 1
  <2>1. b \in 0 .. BUCKETS - 1 /\ b + ZERO_BUCKET + 1 = Bits  BY Layout, IndexAssumption
  <2> HIDE DEF b
  <2>2. BucketCapacity(b) \in Nat \ {0} /\ 2^Bits = 2 * BucketCapacity(b)  BY <2>1, Capacity
  <2>3. e \in 0 .. BucketCapacity(b) - 1  BY <2>2
  <2>4. IdAt(b, e) = MAX_INDEX  BY <1>0, <2>2 DEF IdAt, MAX_INDEX, UsizeMax
  <2> HIDE DEF e
  <2>5. Place(MAX_INDEX) = <<b, e>> /\ MAX_INDEX \in 0 .. MAX_INDEX  BY <2>1, <2>3, <2>4, PlaceOfIdAt
  <2> QED  BY <1>0, <2>5 DEF b, e
<1>2. Cardinality(AllPlaces) = MAX_INDEX + 1
  <2> DEFINE S == 0 .. MAX_INDEX
             f == [i \in S |-> Place(i)]
  <2>1. \A i \in S : Place(i) \in AllPlaces
    <3>1. SUFFICES ASSUME NEW i \in S PROVE Place(i) \in AllPlaces  OBVIOUS
    <3>2. Place(i) \in {Place(i)[1]} \X (0 .. BucketCapacity(Place(i)[1]) - 1)  BY IdAtPlace
    <3> QED  BY <3>2, IdAtPlace DEF AllPlaces
  <2>2. \A i, j \in S : Place(i) = Place(j) => i = j  BY IdAtPlace
  <2>3. \A p \in AllPlaces : \E i \in S : Place(i) = p
    <3>1. SUFFICES ASSUME NEW p \in AllPlaces PROVE \E i \in S : Place(i) = p  OBVIOUS
    <3>2. PICK b \in 0 .. BUCKETS - 1 : p \in {b} \X (0 .. BucketCapacity(b) - 1)  BY DEF AllPlaces
    <3>3. PICK e \in 0 .. BucketCapacity(b) - 1 : p = <<b, e>>  BY <3>2
    <3> QED  BY <3>3, PlaceOfIdAt
  <2>4. f \in Bijection(S, AllPlaces)
    <3>1. f \in [S -> AllPlaces]  BY <2>1
    <3>2. \A i, j \in S : f[i] = f[j] => i = j  BY <2>2
    <3>3. \A p \in AllPlaces : \E i \in S : f[i] = p  BY <2>3
    <3> HIDE DEF f
    <3> QED  BY <3>1, <3>2, <3>3, Fun_IsBij
  <2>5. IsFiniteSet(S) /\ Cardinality(S) = MAX_INDEX + 1
    <3>1. Cardinality(S) = IF 0 > MAX_INDEX THEN 0 ELSE MAX_INDEX - 0 + 1 BY <1>0, FS_Interval
    <3>2. IsFiniteSet(S)  BY <1>0, FS_Interval
    <3> QED  BY <1>1, <3>1, <3>2
  <2> HIDE DEF f, S
  <2>6. Cardinality(S) = Cardinality(AllPlaces)  BY <2>4, <2>5, FS_Bijection DEF ExistsBijection
  <2> QED  BY <2>5, <2>6
<1> QED  BY <1>1, <1>2 DEF Filled

-----------------------------------------------------------------------------
(* The inductive invariant of the table. *)

Bs == 0 .. BUCKETS - 1

\* A thread is inside an operation only while the table is ready, and the
\* operations on a slot have one.
UserInv ==
  /\ phase # "ready" => \A t \in Threads : pc[t] = "idle"
  /\ \A t \in Threads :
       pc[t] \in {"load", "init", "cas", "entry", "publish", "get"} => id[t] \in Ids

\* A bucket is in one place: at one index of the table, or on its way into it.
BucketInv ==
  /\ \A b, c \in Bs : buckets[b] # NULL /\ buckets[b] = buckets[c] => b = c
  /\ \A t \in Threads : pc[t] = "cas" =>
       ptr[t] \in heap /\ ptr[t] \notin Installed /\ present[ptr[t]] = {}
  /\ \A t, u \in Threads : pc[t] = "cas" /\ pc[u] = "cas" /\ ptr[t] = ptr[u] => t = u

\* What is present is written and belongs to the bucket; what is to be published
\* is written.
EntryInv ==
  /\ \A p \in Ptrs : present[p] \subseteq value[p]
  /\ \A t \in Threads : pc[t] = "publish" => New(id[t]).entry \in value[ptr[t]]
  /\ \A b \in Bs : buckets[b] # NULL => present[buckets[b]] \subseteq 0 .. BucketCapacity(b) - 1

\* The order in which iterators pass the places.
Before(p, q) == p[1] < q[1] \/ (p[1] = q[1] /\ p[2] < q[2])

\* An iterator has yielded the places behind it that were due, and only places
\* behind it, none twice; what is due stays initialised.
Passed(t) ==
  /\ due[t] \subseteq Present
  /\ \A p \in due[t] : Before(p, at[t]) => \E i \in 1 .. Len(seen[t]) : seen[t][i] = p
  /\ \A i \in 1 .. Len(seen[t]) : Before(seen[t][i], at[t])
  /\ \A i, j \in 1 .. Len(seen[t]) : seen[t][i] = seen[t][j] => i = j
  /\ at[t][1] < BUCKETS => at[t][2] < BucketCapacity(at[t][1])

IterInv ==
  \A t \in Threads :
    /\ pc[t] \notin {"iter", "done"} => seen[t] = <<>>
    /\ pc[t] \in {"iter", "done"} => Passed(t)
    /\ pc[t] = "done" => at[t][1] = BUCKETS

TableInv == TypeOK /\ UserInv /\ OneBucket /\ NoBucketLeak /\ BucketInv /\ EntryInv /\ IterInv

-----------------------------------------------------------------------------
(* Facts about the table that the steps need. *)

\* The entry of an id in use is within its bucket, and so within the last one.
LEMMA SlotBounds ==
  ASSUME NEW i \in Ids
  PROVE  /\ New(i).bucket \in Bs
         /\ New(i).entry \in 0 .. BucketCapacity(New(i).bucket) - 1
         /\ New(i).entry \in 0 .. BucketCapacity(BUCKETS - 1) - 1
<1>1. i \in 0 .. MAX_INDEX  BY TableAssumption
<1>2. New(i).bucket \in Bs /\ New(i).entry \in 0 .. BucketCapacity(New(i).bucket) - 1
  BY <1>1, NewBounds DEF Bs
<1>3. BucketCapacity(New(i).bucket) <= BucketCapacity(BUCKETS - 1)
      /\ BucketCapacity(New(i).bucket) \in Nat /\ BucketCapacity(BUCKETS - 1) \in Nat
  <2>1. BUCKETS - 1 \in 0 .. BUCKETS - 1  BY Layout, IndexAssumption
  <2> QED  BY <1>2, <2>1, Capacity DEF Bs
<1> QED  BY <1>2, <1>3

\* The table has a bucket, and no bucket is larger than the last.
LEMMA Sizes ==
  /\ BUCKETS \in Nat \ {0} /\ BucketCapacity(BUCKETS - 1) \in Nat \ {0}
  /\ \A b \in Bs : BucketCapacity(b) \in Nat \ {0} /\ BucketCapacity(b) <= BucketCapacity(BUCKETS - 1)
<1>1. BUCKETS \in Nat \ {0} /\ BUCKETS - 1 \in 0 .. BUCKETS - 1  BY Layout, IndexAssumption
<1> QED  BY <1>1, Capacity DEF Bs

\* The buckets of the table are allocated.
LEMMA InstalledBuckets ==
  ASSUME TypeOK, NoBucketLeak, NEW b \in Bs, buckets[b] # NULL
  PROVE  buckets[b] \in Installed /\ buckets[b] \in heap /\ buckets[b] \in Ptrs
BY DEF TypeOK, NoBucketLeak, Installed, Bs

\* Initialised entries stay, if buckets do and the flags in them.
LEMMA PresentGrows ==
  ASSUME TypeOK, \A b \in Bs : buckets[b] # NULL =>
           buckets'[b] = buckets[b] /\ present[buckets[b]] \subseteq present'[buckets[b]]
  PROVE  Present \subseteq Present'
<1> SUFFICES ASSUME NEW p \in Present PROVE p \in Present'  OBVIOUS
<1>1. p \in Places /\ p[1] \in Bs /\ buckets[p[1]] # NULL /\ p[2] \in present[buckets[p[1]]]
  BY DEF Present, Places, Bs
<1> QED  BY <1>1 DEF Present, Places

\* A step that leaves iterators alone preserves what is known of them, if
\* initialised entries stay.
LEMMA IterStays ==
  ASSUME IterInv, Present \subseteq Present', UNCHANGED iterVars,
         \A t \in Threads : pc'[t] # pc[t] => pc[t] \notin {"iter", "done"} /\ pc'[t] \notin {"iter", "done"}
  PROVE  IterInv'
<1> SUFFICES ASSUME NEW t \in Threads
             PROVE  /\ pc'[t] \notin {"iter", "done"} => seen'[t] = <<>>
                    /\ pc'[t] \in {"iter", "done"} => Passed(t)'
                    /\ pc'[t] = "done" => at'[t][1] = BUCKETS
  BY DEF IterInv
<1>1. at' = at /\ seen' = seen /\ due' = due  BY DEF iterVars
<1>2. pc'[t] \notin {"iter", "done"} => seen'[t] = <<>>  BY <1>1 DEF IterInv
<1>3. pc'[t] \in {"iter", "done"} => Passed(t)'
  <2>1. SUFFICES ASSUME pc'[t] \in {"iter", "done"} PROVE Passed(t)'  OBVIOUS
  <2>2. Passed(t)  BY <2>1 DEF IterInv
  <2> QED  BY <1>1, <2>2 DEF Passed
<1>4. pc'[t] = "done" => at'[t][1] = BUCKETS  BY <1>1 DEF IterInv
<1> QED  BY <1>2, <1>3, <1>4

\* While the table is not ready, no iterator is under way.
LEMMA IterQuiet ==
  ASSUME IterInv, UserInv, phase # "ready" \/ \A t \in Threads : pc[t] = "idle",
         UNCHANGED <<pc, iterVars>>
  PROVE  IterInv'
BY DEF IterInv, UserInv, iterVars

-----------------------------------------------------------------------------
(* The steps of load_or and get. *)

\* load_or starts with an id of its own.
LEMMA BeginStep ==
  ASSUME TableInv, NEW t \in Threads, NEW i \in Ids, Begin(t, i)
  PROVE  TableInv'
<1>1. TypeOK'  BY SlotBounds DEF TableInv, TypeOK, UserInv, Entries, Bs, Begin, tableVars, iterVars
<1>2. UserInv'  BY DEF TableInv, TypeOK, UserInv, Begin, tableVars, iterVars
<1>3. OneBucket'  BY SlotBounds, InstalledBuckets DEF TableInv, TypeOK, UserInv, OneBucket, Bs, Begin, tableVars, iterVars
<1>4. NoBucketLeak'  BY SlotBounds DEF TableInv, TypeOK, UserInv, BucketInv, NoBucketLeak, Installed, Bs, Begin, tableVars, iterVars
<1>5. BucketInv'  BY SlotBounds, InstalledBuckets DEF TableInv, TypeOK, UserInv, OneBucket, BucketInv, Installed, Bs, Begin, tableVars, iterVars
<1>6. EntryInv'  BY SlotBounds, InstalledBuckets DEF TableInv, TypeOK, UserInv, OneBucket, BucketInv, EntryInv, Installed, Bs, Begin, tableVars, iterVars
<1>7. IterInv'  
  <2>1. Present \subseteq Present'  BY PresentGrows, InstalledBuckets, PtrAssumption DEF TableInv, TypeOK, Begin, tableVars
  <2>2. \A u \in Threads : pc'[u] # pc[u] => pc[u] \notin {"iter", "done"} /\ pc'[u] \notin {"iter", "done"}
    BY DEF TableInv, TypeOK, Begin
  <2> QED  BY <2>1, <2>2, IterStays DEF TableInv, Begin, tableVars, iterVars
<1> QED  BY <1>1, <1>2, <1>3, <1>4, <1>5, <1>6, <1>7 DEF TableInv

\* get loads the pointer of the bucket.
LEMMA GetStep ==
  ASSUME TableInv, NEW t \in Threads, NEW i \in Ids, Get(t, i)
  PROVE  TableInv'
<1>1. TypeOK'  BY SlotBounds DEF TableInv, TypeOK, UserInv, Entries, Bs, Get, tableVars, iterVars
<1>2. UserInv'  BY DEF TableInv, TypeOK, UserInv, Get, tableVars, iterVars
<1>3. OneBucket'  BY SlotBounds, InstalledBuckets DEF TableInv, TypeOK, UserInv, OneBucket, Bs, Get, tableVars, iterVars
<1>4. NoBucketLeak'  BY SlotBounds DEF TableInv, TypeOK, UserInv, BucketInv, NoBucketLeak, Installed, Bs, Get, tableVars, iterVars
<1>5. BucketInv'  BY SlotBounds, InstalledBuckets DEF TableInv, TypeOK, UserInv, OneBucket, BucketInv, Installed, Bs, Get, tableVars, iterVars
<1>6. EntryInv'  BY SlotBounds, InstalledBuckets DEF TableInv, TypeOK, UserInv, OneBucket, BucketInv, EntryInv, Installed, Bs, Get, tableVars, iterVars
<1>7. IterInv'  
  <2>1. Present \subseteq Present'  BY PresentGrows, InstalledBuckets, PtrAssumption DEF TableInv, TypeOK, Get, tableVars
  <2>2. \A u \in Threads : pc'[u] # pc[u] => pc[u] \notin {"iter", "done"} /\ pc'[u] \notin {"iter", "done"}
    BY DEF TableInv, TypeOK, Get
  <2> QED  BY <2>1, <2>2, IterStays DEF TableInv, Get, tableVars, iterVars
<1> QED  BY <1>1, <1>2, <1>3, <1>4, <1>5, <1>6, <1>7 DEF TableInv

\* load_or loads the pointer of the bucket.
LEMMA LoadStep ==
  ASSUME TableInv, NEW t \in Threads, Load(t)
  PROVE  TableInv'
<1>1. TypeOK'  BY SlotBounds DEF TableInv, TypeOK, UserInv, Entries, Bs, Load, tableVars, iterVars
<1>2. UserInv'  BY DEF TableInv, TypeOK, UserInv, Load, tableVars, iterVars
<1>3. OneBucket'  BY SlotBounds, InstalledBuckets DEF TableInv, TypeOK, UserInv, OneBucket, Bs, Load, tableVars, iterVars
<1>4. NoBucketLeak'  BY SlotBounds DEF TableInv, TypeOK, UserInv, BucketInv, NoBucketLeak, Installed, Bs, Load, tableVars, iterVars
<1>5. BucketInv'  BY SlotBounds, InstalledBuckets DEF TableInv, TypeOK, UserInv, OneBucket, BucketInv, Installed, Bs, Load, tableVars, iterVars
<1>6. EntryInv'  BY SlotBounds, InstalledBuckets DEF TableInv, TypeOK, UserInv, OneBucket, BucketInv, EntryInv, Installed, Bs, Load, tableVars, iterVars
<1>7. IterInv'  
  <2>1. Present \subseteq Present'  BY PresentGrows, InstalledBuckets, PtrAssumption DEF TableInv, TypeOK, Load, tableVars
  <2>2. \A u \in Threads : pc'[u] # pc[u] => pc[u] \notin {"iter", "done"} /\ pc'[u] \notin {"iter", "done"}
    BY DEF TableInv, TypeOK, Load
  <2> QED  BY <2>1, <2>2, IterStays DEF TableInv, Load, tableVars, iterVars
<1> QED  BY <1>1, <1>2, <1>3, <1>4, <1>5, <1>6, <1>7 DEF TableInv

\* The bucket that initialize allocates is in no table yet.
LEMMA InitializeStep ==
  ASSUME TableInv, NEW t \in Threads, Initialize(t)
  PROVE  TableInv'
<1>1. TypeOK'  BY SlotBounds DEF TableInv, TypeOK, UserInv, Entries, Bs, Initialize, AllocateBucket, iterVars
<1>2. UserInv'  BY DEF TableInv, TypeOK, UserInv, Initialize, AllocateBucket, iterVars
<1>3. OneBucket'  BY SlotBounds, InstalledBuckets DEF TableInv, TypeOK, UserInv, OneBucket, Bs, Initialize, AllocateBucket, iterVars
<1>4. NoBucketLeak'  BY SlotBounds DEF TableInv, TypeOK, UserInv, BucketInv, NoBucketLeak, Installed, Bs, Initialize, AllocateBucket, iterVars
<1>5. BucketInv'  BY SlotBounds, InstalledBuckets DEF TableInv, TypeOK, UserInv, OneBucket, BucketInv, Installed, Bs, Initialize, AllocateBucket, iterVars
<1>6. EntryInv'  BY SlotBounds, InstalledBuckets DEF TableInv, TypeOK, UserInv, OneBucket, BucketInv, EntryInv, Installed, Bs, Initialize, AllocateBucket, iterVars
<1>7. IterInv'  
  <2>1. Present \subseteq Present'  BY PresentGrows, InstalledBuckets, PtrAssumption DEF TableInv, TypeOK, Initialize, AllocateBucket
  <2>2. \A u \in Threads : pc'[u] # pc[u] => pc[u] \notin {"iter", "done"} /\ pc'[u] \notin {"iter", "done"}
    BY DEF TableInv, TypeOK, Initialize, AllocateBucket
  <2> QED  BY <2>1, <2>2, IterStays DEF TableInv, Initialize, AllocateBucket, iterVars
<1> QED  BY <1>1, <1>2, <1>3, <1>4, <1>5, <1>6, <1>7 DEF TableInv

\* A failed allocation leaves the table as it was.
LEMMA InitializeErrStep ==
  ASSUME TableInv, NEW t \in Threads, InitializeErr(t)
  PROVE  TableInv'
<1>1. TypeOK'  BY SlotBounds DEF TableInv, TypeOK, UserInv, Entries, Bs, InitializeErr, Return, tableVars, iterVars
<1>2. UserInv'  BY DEF TableInv, TypeOK, UserInv, InitializeErr, Return, tableVars, iterVars
<1>3. OneBucket'  BY SlotBounds, InstalledBuckets DEF TableInv, TypeOK, UserInv, OneBucket, Bs, InitializeErr, Return, tableVars, iterVars
<1>4. NoBucketLeak'  BY SlotBounds DEF TableInv, TypeOK, UserInv, BucketInv, NoBucketLeak, Installed, Bs, InitializeErr, Return, tableVars, iterVars
<1>5. BucketInv'  BY SlotBounds, InstalledBuckets DEF TableInv, TypeOK, UserInv, OneBucket, BucketInv, Installed, Bs, InitializeErr, Return, tableVars, iterVars
<1>6. EntryInv'  BY SlotBounds, InstalledBuckets DEF TableInv, TypeOK, UserInv, OneBucket, BucketInv, EntryInv, Installed, Bs, InitializeErr, Return, tableVars, iterVars
<1>7. IterInv'  
  <2>1. Present \subseteq Present'  BY PresentGrows, InstalledBuckets, PtrAssumption DEF TableInv, TypeOK, InitializeErr, Return, tableVars
  <2>2. \A u \in Threads : pc'[u] # pc[u] => pc[u] \notin {"iter", "done"} /\ pc'[u] \notin {"iter", "done"}
    BY DEF TableInv, TypeOK, InitializeErr, Return
  <2> QED  BY <2>1, <2>2, IterStays DEF TableInv, InitializeErr, Return, tableVars, iterVars
<1> QED  BY <1>1, <1>2, <1>3, <1>4, <1>5, <1>6, <1>7 DEF TableInv

\* The winner of the compare_exchange installs its bucket, empty.
LEMMA InstallStep ==
  ASSUME TableInv, NEW t \in Threads, Install(t)
  PROVE  TableInv'
<1>1. TypeOK'  BY SlotBounds DEF TableInv, TypeOK, UserInv, Entries, Bs, Install, iterVars
<1>2. UserInv'  BY DEF TableInv, TypeOK, UserInv, Install, iterVars
<1>3. OneBucket'
  <2>1. New(id[t]).bucket \in Bs /\ ptr[t] \in heap  BY SlotBounds DEF TableInv, UserInv, BucketInv, Install
  <2> SUFFICES ASSUME NEW u \in Threads, pc'[u] \in {"entry", "publish", "get"}
               PROVE  ptr'[u] = buckets'[New(id'[u]).bucket] /\ ptr'[u] \in heap'
    BY DEF OneBucket
  <2>2. CASE u = t  BY <2>1, <2>2 DEF TableInv, TypeOK, Bs, Install
  <2>3. CASE u # t
    <3>1. pc[u] \in {"entry", "publish", "get"}  BY <2>3 DEF TableInv, TypeOK, Install
    <3>2. ptr[u] = buckets[New(id[u]).bucket] /\ ptr[u] \in heap  BY <3>1 DEF TableInv, OneBucket
    <3>3. New(id[u]).bucket # New(id[t]).bucket
      BY <3>2, PtrAssumption DEF TableInv, TypeOK, Install
    <3> QED  BY <3>2, <3>3 DEF TableInv, TypeOK, Install
  <2> QED  BY <2>2, <2>3
<1>4. NoBucketLeak'
  <2>1. New(id[t]).bucket \in Bs /\ ptr[t] \in heap /\ ptr[t] # NULL
    BY SlotBounds, PtrAssumption DEF TableInv, TypeOK, UserInv, BucketInv, Install
  <2>2. Installed' = Installed \cup {ptr[t]}
    BY <2>1 DEF TableInv, TypeOK, Installed, Bs, Install
  <2>3. {u \in Threads : pc'[u] = "cas"} = {u \in Threads : pc[u] = "cas"} \ {t}
    BY DEF TableInv, TypeOK, Install
  <2> QED  BY <2>2, <2>3 DEF TableInv, NoBucketLeak, Install
<1>5. BucketInv'  BY SlotBounds, InstalledBuckets DEF TableInv, TypeOK, UserInv, OneBucket, BucketInv, Installed, Bs, Install, iterVars
<1>6. EntryInv'  BY SlotBounds, InstalledBuckets DEF TableInv, TypeOK, UserInv, OneBucket, BucketInv, EntryInv, Installed, Bs, Install, iterVars
<1>7. IterInv'  
  <2>1. Present \subseteq Present'  BY PresentGrows, InstalledBuckets, PtrAssumption DEF TableInv, TypeOK, Install
  <2>2. \A u \in Threads : pc'[u] # pc[u] => pc[u] \notin {"iter", "done"} /\ pc'[u] \notin {"iter", "done"}
    BY DEF TableInv, TypeOK, Install
  <2> QED  BY <2>1, <2>2, IterStays DEF TableInv, Install, iterVars
<1> QED  BY <1>1, <1>2, <1>3, <1>4, <1>5, <1>6, <1>7 DEF TableInv

\* The loser frees its bucket, which no one else has seen.
LEMMA DiscardStep ==
  ASSUME TableInv, NEW t \in Threads, Discard(t)
  PROVE  TableInv'
<1>1. TypeOK'  BY SlotBounds DEF TableInv, TypeOK, UserInv, Entries, Bs, Discard, FreeBuckets, iterVars
<1>2. UserInv'  BY DEF TableInv, TypeOK, UserInv, Discard, FreeBuckets, iterVars
<1>3. OneBucket'
  <2>1. New(id[t]).bucket \in Bs /\ ptr[t] \notin Installed  BY SlotBounds DEF TableInv, UserInv, BucketInv, Discard
  <2>2. \A b \in Bs : buckets[b] # NULL => buckets[b] \in heap'
    BY <2>1, InstalledBuckets DEF TableInv, Discard, FreeBuckets
  <2> SUFFICES ASSUME NEW u \in Threads, pc'[u] \in {"entry", "publish", "get"}
               PROVE  ptr'[u] = buckets'[New(id'[u]).bucket] /\ ptr'[u] \in heap'
    BY DEF OneBucket
  <2>3. CASE u = t  BY <2>1, <2>2, <2>3 DEF TableInv, TypeOK, Discard
  <2>4. CASE u # t
    <3>1. pc[u] \in {"entry", "publish", "get"}  BY <2>4 DEF TableInv, TypeOK, Discard
    <3>2. ptr[u] = buckets[New(id[u]).bucket] /\ ptr[u] \in heap  BY <3>1 DEF TableInv, OneBucket
    <3>3. New(id[u]).bucket \in Bs  BY <3>1, SlotBounds DEF TableInv, UserInv
    <3>4. ptr[u] # NULL  BY <3>2, PtrAssumption DEF TableInv, TypeOK
    <3> QED  BY <2>2, <2>4, <3>2, <3>3, <3>4 DEF TableInv, TypeOK, Discard
  <2> QED  BY <2>3, <2>4
<1>4. NoBucketLeak'  BY SlotBounds DEF TableInv, TypeOK, UserInv, BucketInv, NoBucketLeak, Installed, Bs, Discard, FreeBuckets, iterVars
<1>5. BucketInv'  BY SlotBounds, InstalledBuckets DEF TableInv, TypeOK, UserInv, OneBucket, BucketInv, Installed, Bs, Discard, FreeBuckets, iterVars
<1>6. EntryInv'  BY SlotBounds, InstalledBuckets DEF TableInv, TypeOK, UserInv, OneBucket, BucketInv, EntryInv, Installed, Bs, Discard, FreeBuckets, iterVars
<1>7. IterInv'  
  <2>1. Present \subseteq Present'  BY PresentGrows, InstalledBuckets, PtrAssumption DEF TableInv, TypeOK, Discard, FreeBuckets
  <2>2. \A u \in Threads : pc'[u] # pc[u] => pc[u] \notin {"iter", "done"} /\ pc'[u] \notin {"iter", "done"}
    BY DEF TableInv, TypeOK, Discard, FreeBuckets
  <2> QED  BY <2>1, <2>2, IterStays DEF TableInv, Discard, FreeBuckets, iterVars
<1> QED  BY <1>1, <1>2, <1>3, <1>4, <1>5, <1>6, <1>7 DEF TableInv

\* The value is written before the flag.
LEMMA WriteStep ==
  ASSUME TableInv, NEW t \in Threads, Write(t)
  PROVE  TableInv'
<1>1. TypeOK'
  <2>1. {New(id[t]).entry} \in Entries  BY SlotBounds DEF TableInv, UserInv, Entries, Write
  <2>2. value' \in [Ptrs -> Entries]  BY <2>1 DEF TableInv, TypeOK, Entries, Write
  <2> QED  BY <2>2 DEF TableInv, TypeOK, Write, iterVars
<1>2. UserInv'  BY DEF TableInv, TypeOK, UserInv, Write, iterVars
<1>3. OneBucket'  BY SlotBounds, InstalledBuckets DEF TableInv, TypeOK, UserInv, OneBucket, Bs, Write, iterVars
<1>4. NoBucketLeak'  BY SlotBounds DEF TableInv, TypeOK, UserInv, BucketInv, NoBucketLeak, Installed, Bs, Write, iterVars
<1>5. BucketInv'  BY SlotBounds, InstalledBuckets DEF TableInv, TypeOK, UserInv, OneBucket, BucketInv, Installed, Bs, Write, iterVars
<1>6. EntryInv'  BY SlotBounds, InstalledBuckets DEF TableInv, TypeOK, UserInv, OneBucket, BucketInv, EntryInv, Installed, Bs, Write, iterVars
<1>7. IterInv'  
  <2>1. Present \subseteq Present'  BY PresentGrows, InstalledBuckets, PtrAssumption DEF TableInv, TypeOK, Write
  <2>2. \A u \in Threads : pc'[u] # pc[u] => pc[u] \notin {"iter", "done"} /\ pc'[u] \notin {"iter", "done"}
    BY DEF TableInv, TypeOK, Write
  <2> QED  BY <2>1, <2>2, IterStays DEF TableInv, Write, iterVars
<1> QED  BY <1>1, <1>2, <1>3, <1>4, <1>5, <1>6, <1>7 DEF TableInv

\* An entry found present was initialised.
LEMMA FoundStep ==
  ASSUME TableInv, NEW t \in Threads, Found(t)
  PROVE  TableInv'
<1>1. TypeOK'  BY SlotBounds DEF TableInv, TypeOK, UserInv, Entries, Bs, Found, Return, tableVars, iterVars
<1>2. UserInv'  BY DEF TableInv, TypeOK, UserInv, Found, Return, tableVars, iterVars
<1>3. OneBucket'  BY SlotBounds, InstalledBuckets DEF TableInv, TypeOK, UserInv, OneBucket, Bs, Found, Return, tableVars, iterVars
<1>4. NoBucketLeak'  BY SlotBounds DEF TableInv, TypeOK, UserInv, BucketInv, NoBucketLeak, Installed, Bs, Found, Return, tableVars, iterVars
<1>5. BucketInv'  BY SlotBounds, InstalledBuckets DEF TableInv, TypeOK, UserInv, OneBucket, BucketInv, Installed, Bs, Found, Return, tableVars, iterVars
<1>6. EntryInv'  BY SlotBounds, InstalledBuckets DEF TableInv, TypeOK, UserInv, OneBucket, BucketInv, EntryInv, Installed, Bs, Found, Return, tableVars, iterVars
<1>7. IterInv'  
  <2>1. Present \subseteq Present'  BY PresentGrows, InstalledBuckets, PtrAssumption DEF TableInv, TypeOK, Found, Return, tableVars
  <2>2. \A u \in Threads : pc'[u] # pc[u] => pc[u] \notin {"iter", "done"} /\ pc'[u] \notin {"iter", "done"}
    BY DEF TableInv, TypeOK, Found, Return
  <2> QED  BY <2>1, <2>2, IterStays DEF TableInv, Found, Return, tableVars, iterVars
<1> QED  BY <1>1, <1>2, <1>3, <1>4, <1>5, <1>6, <1>7 DEF TableInv

\* The flag is set after the value is written.
LEMMA PublishStep ==
  ASSUME TableInv, NEW t \in Threads, Publish(t)
  PROVE  TableInv'
<1>1. TypeOK'
  <2>1. {New(id[t]).entry} \in Entries  BY SlotBounds DEF TableInv, UserInv, Entries, Publish
  <2>2. present' \in [Ptrs -> Entries]  BY <2>1 DEF TableInv, TypeOK, Entries, Publish
  <2> QED  BY <2>2 DEF TableInv, TypeOK, Publish, Return, iterVars
<1>2. UserInv'  BY DEF TableInv, TypeOK, UserInv, Publish, Return, iterVars
<1>3. OneBucket'  BY SlotBounds, InstalledBuckets DEF TableInv, TypeOK, UserInv, OneBucket, Bs, Publish, Return, iterVars
<1>4. NoBucketLeak'  BY SlotBounds DEF TableInv, TypeOK, UserInv, BucketInv, NoBucketLeak, Installed, Bs, Publish, Return, iterVars
<1>5. BucketInv'
  <2>1. ptr[t] \in Installed
    <3>1. ptr[t] = buckets[New(id[t]).bucket] /\ ptr[t] # NULL
      BY PtrAssumption DEF TableInv, TypeOK, OneBucket, Publish
    <3> QED  BY <3>1, SlotBounds DEF TableInv, UserInv, Installed, Bs, Publish
  <2>2. Installed' = Installed /\ heap' = heap  BY DEF Installed, Publish
  <2>3. \A u \in Threads : pc'[u] = "cas" => u # t /\ pc[u] = "cas" /\ ptr'[u] = ptr[u]
    BY DEF TableInv, TypeOK, Publish, Return
  <2>4. \A q \in Ptrs : q # ptr[t] => present'[q] = present[q]  BY DEF TableInv, TypeOK, Publish
  <2>5. \A b, c \in Bs : buckets'[b] # NULL /\ buckets'[b] = buckets'[c] => b = c
    BY DEF TableInv, BucketInv, Publish
  <2>6. \A u \in Threads : pc'[u] = "cas" =>
          ptr'[u] \in heap' /\ ptr'[u] \notin Installed' /\ present'[ptr'[u]] = {}
    BY <2>1, <2>2, <2>3, <2>4 DEF TableInv, TypeOK, BucketInv
  <2>7. \A u, v \in Threads : pc'[u] = "cas" /\ pc'[v] = "cas" /\ ptr'[u] = ptr'[v] => u = v
    BY <2>3 DEF TableInv, BucketInv
  <2> QED  BY <2>5, <2>6, <2>7 DEF BucketInv
<1>6. EntryInv'
  <2> DEFINE b0 == New(id[t]).bucket
             e0 == New(id[t]).entry
  <2>1. ptr[t] = buckets[b0] /\ ptr[t] # NULL /\ ptr[t] \in Ptrs
    BY PtrAssumption DEF TableInv, TypeOK, OneBucket, Publish
  <2>2. b0 \in Bs /\ e0 \in 0 .. BucketCapacity(b0) - 1 /\ e0 \in value[ptr[t]]
    BY SlotBounds DEF TableInv, UserInv, EntryInv, Publish
  <2>3. \A q \in Ptrs : present'[q] = IF q = ptr[t] THEN present[q] \cup {e0} ELSE present[q]
    BY <2>1 DEF TableInv, TypeOK, Publish
  <2>4. buckets' = buckets /\ value' = value  BY DEF Publish
  <2> HIDE DEF b0, e0
  <2>5. \A q \in Ptrs : present'[q] \subseteq value'[q]  BY <2>2, <2>3, <2>4 DEF TableInv, EntryInv
  <2>6. \A u \in Threads : pc'[u] = "publish" => New(id'[u]).entry \in value'[ptr'[u]]
    BY <2>4 DEF TableInv, TypeOK, EntryInv, Publish, Return
  <2>7. ASSUME NEW b \in Bs, buckets'[b] # NULL
        PROVE  present'[buckets'[b]] \subseteq 0 .. BucketCapacity(b) - 1
    <3>1. buckets[b] \in Ptrs /\ buckets[b] # NULL  BY <2>4, <2>7 DEF TableInv, TypeOK, Bs
    <3>2. present[buckets[b]] \subseteq 0 .. BucketCapacity(b) - 1  BY <3>1 DEF TableInv, EntryInv
    <3>3. CASE b = b0  BY <2>1, <2>2, <2>3, <2>4, <3>1, <3>2, <3>3
    <3>4. CASE b # b0
      <4>1. buckets[b] # ptr[t]  BY <2>1, <2>2, <3>1, <3>4 DEF TableInv, BucketInv
      <4> QED  BY <2>3, <2>4, <3>1, <3>2, <4>1
    <3> QED  BY <3>3, <3>4
  <2> QED  BY <2>5, <2>6, <2>7 DEF EntryInv
<1>7. IterInv'  
  <2>1. Present \subseteq Present'  BY PresentGrows, InstalledBuckets, PtrAssumption DEF TableInv, TypeOK, Publish, Return
  <2>2. \A u \in Threads : pc'[u] # pc[u] => pc[u] \notin {"iter", "done"} /\ pc'[u] \notin {"iter", "done"}
    BY DEF TableInv, TypeOK, Publish, Return
  <2> QED  BY <2>1, <2>2, IterStays DEF TableInv, Publish, Return, iterVars
<1> QED  BY <1>1, <1>2, <1>3, <1>4, <1>5, <1>6, <1>7 DEF TableInv

\* get reads a value only under the flag.
LEMMA GetEntryStep ==
  ASSUME TableInv, NEW t \in Threads, GetEntry(t)
  PROVE  TableInv'
<1>1. TypeOK'  BY SlotBounds DEF TableInv, TypeOK, UserInv, Entries, Bs, GetEntry, Return, tableVars, iterVars
<1>2. UserInv'  BY DEF TableInv, TypeOK, UserInv, GetEntry, Return, tableVars, iterVars
<1>3. OneBucket'  BY SlotBounds, InstalledBuckets DEF TableInv, TypeOK, UserInv, OneBucket, Bs, GetEntry, Return, tableVars, iterVars
<1>4. NoBucketLeak'  BY SlotBounds DEF TableInv, TypeOK, UserInv, BucketInv, NoBucketLeak, Installed, Bs, GetEntry, Return, tableVars, iterVars
<1>5. BucketInv'  BY SlotBounds, InstalledBuckets DEF TableInv, TypeOK, UserInv, OneBucket, BucketInv, Installed, Bs, GetEntry, Return, tableVars, iterVars
<1>6. EntryInv'  BY SlotBounds, InstalledBuckets DEF TableInv, TypeOK, UserInv, OneBucket, BucketInv, EntryInv, Installed, Bs, GetEntry, Return, tableVars, iterVars
<1>7. IterInv'  
  <2>1. Present \subseteq Present'  BY PresentGrows, InstalledBuckets, PtrAssumption DEF TableInv, TypeOK, GetEntry, Return, tableVars
  <2>2. \A u \in Threads : pc'[u] # pc[u] => pc[u] \notin {"iter", "done"} /\ pc'[u] \notin {"iter", "done"}
    BY DEF TableInv, TypeOK, GetEntry, Return
  <2> QED  BY <2>1, <2>2, IterStays DEF TableInv, GetEntry, Return, tableVars, iterVars
<1> QED  BY <1>1, <1>2, <1>3, <1>4, <1>5, <1>6, <1>7 DEF TableInv

-----------------------------------------------------------------------------
(* The steps of iterators. *)

\* An iterator has everything ahead of it.
LEMMA IterStartStep ==
  ASSUME TableInv, NEW t \in Threads, IterStart(t)
  PROVE  TableInv'
<1>1. TypeOK'  BY Sizes DEF TableInv, TypeOK, IterStart, tableVars, Present
<1>2. UserInv'  BY DEF TableInv, TypeOK, UserInv, IterStart, tableVars
<1>3. OneBucket'  BY DEF TableInv, TypeOK, OneBucket, IterStart, tableVars
<1>4. NoBucketLeak'  BY DEF TableInv, TypeOK, NoBucketLeak, Installed, IterStart, tableVars
<1>5. BucketInv'  BY DEF TableInv, TypeOK, BucketInv, Installed, IterStart, tableVars
<1>6. EntryInv'  BY DEF TableInv, TypeOK, EntryInv, IterStart, tableVars
<1>7. IterInv'
  <2>1. Present' = Present  BY DEF Present, IterStart, tableVars
  <2> SUFFICES ASSUME NEW u \in Threads
               PROVE  /\ pc'[u] \notin {"iter", "done"} => seen'[u] = <<>>
                      /\ pc'[u] \in {"iter", "done"} => Passed(u)'
                      /\ pc'[u] = "done" => at'[u][1] = BUCKETS
    BY DEF IterInv
  <2>2. CASE u # t
    <3>1. pc'[u] = pc[u] /\ at'[u] = at[u] /\ seen'[u] = seen[u] /\ due'[u] = due[u]
      BY <2>2 DEF TableInv, TypeOK, IterStart
    <3> QED  BY <2>1, <3>1 DEF TableInv, IterInv, Passed
  <2>3. CASE u = t
    <3>1. pc'[t] = "iter" /\ at'[t] = <<0, 0>> /\ seen'[t] = <<>> /\ due'[t] = Present
      BY DEF TableInv, TypeOK, IterInv, IterStart
    <3>2. \A p \in Places : ~Before(p, <<0, 0>>)  BY Sizes DEF Places, Before
    <3>3. Present \subseteq Places  BY DEF Present
    <3>4. Passed(t)'  BY <2>1, <3>1, <3>2, <3>3, Sizes DEF Passed, Bs
    <3> QED  BY <2>3, <3>1, <3>4
  <2> QED  BY <2>2, <2>3
<1> QED  BY <1>1, <1>2, <1>3, <1>4, <1>5, <1>6, <1>7 DEF TableInv

\* A bucket that is not allocated has nothing to yield.
LEMMA IterSkipStep ==
  ASSUME TableInv, NEW t \in Threads, IterSkip(t)
  PROVE  TableInv'
<1>1. TypeOK'
  <2>1. at[t][1] + 1 \in 0 .. BUCKETS /\ 0 \in 0 .. BucketCapacity(BUCKETS - 1) - 1
    BY Sizes DEF TableInv, TypeOK, IterSkip
  <2> QED  BY <2>1 DEF TableInv, TypeOK, IterSkip, tableVars
<1>2. UserInv'  BY DEF TableInv, TypeOK, UserInv, IterSkip, tableVars
<1>3. OneBucket'  BY DEF TableInv, TypeOK, OneBucket, IterSkip, tableVars
<1>4. NoBucketLeak'  BY DEF TableInv, TypeOK, NoBucketLeak, Installed, IterSkip, tableVars
<1>5. BucketInv'  BY DEF TableInv, TypeOK, BucketInv, Installed, IterSkip, tableVars
<1>6. EntryInv'  BY DEF TableInv, TypeOK, EntryInv, IterSkip, tableVars
<1>7. IterInv'
  <2>1. Present' = Present  BY DEF Present, IterSkip, tableVars
  <2> SUFFICES ASSUME NEW u \in Threads
               PROVE  /\ pc'[u] \notin {"iter", "done"} => seen'[u] = <<>>
                      /\ pc'[u] \in {"iter", "done"} => Passed(u)'
                      /\ pc'[u] = "done" => at'[u][1] = BUCKETS
    BY DEF IterInv
  <2>2. CASE u # t
    <3>1. pc'[u] = pc[u] /\ at'[u] = at[u] /\ seen'[u] = seen[u] /\ due'[u] = due[u]
      BY <2>2 DEF TableInv, TypeOK, IterSkip, iterVars
    <3> QED  BY <2>1, <3>1 DEF TableInv, IterInv, Passed
  <2>3. CASE u = t
    <3> DEFINE b == at[t][1]
    <3>1. pc[t] = "iter" /\ pc'[t] = "iter" /\ at'[t] = <<b + 1, 0>> /\ seen'[t] = seen[t] /\ due'[t] = due[t]
          /\ b < BUCKETS /\ buckets[b] = NULL /\ Passed(t)
      BY DEF TableInv, TypeOK, IterInv, IterSkip
    <3>2. at[t] \in Nat \X Nat /\ b \in Nat  BY DEF TableInv, TypeOK
    <3>3. \A p \in due[t] : Before(p, at'[t]) => Before(p, at[t])
      <4> SUFFICES ASSUME NEW p \in due[t], Before(p, at'[t]) PROVE Before(p, at[t])  OBVIOUS
      <4>1. p \in Places /\ buckets[p[1]] # NULL  BY <3>1 DEF Passed, Present
      <4>2. p[1] \in Nat /\ p[2] \in Nat /\ p[1] # b  BY <3>1, <4>1 DEF Places
      <4> QED  BY <3>1, <3>2, <4>2 DEF Before
    <3>4. \A p \in Places : Before(p, at[t]) => Before(p, at'[t])  BY <3>1, <3>2 DEF Before, Places
    <3>5. \A i \in 1 .. Len(seen[t]) : seen[t][i] \in Places  BY DEF TableInv, TypeOK
    <3>6. at'[t][1] < BUCKETS => at'[t][2] < BucketCapacity(at'[t][1])  BY <3>1, <3>2, Sizes DEF Bs
    <3> HIDE DEF b
    <3>7. Passed(t)'  BY <2>1, <3>1, <3>3, <3>4, <3>5, <3>6 DEF Passed
    <3> QED  BY <2>3, <3>1, <3>7
  <2> QED  BY <2>2, <2>3
<1> QED  BY <1>1, <1>2, <1>3, <1>4, <1>5, <1>6, <1>7 DEF TableInv

\* An iterator ends when it has passed every bucket.
LEMMA IterEndStep ==
  ASSUME TableInv, NEW t \in Threads, IterEnd(t)
  PROVE  TableInv'
<1>1. TypeOK'  BY DEF TableInv, TypeOK, IterEnd, tableVars, iterVars
<1>2. UserInv'  BY DEF TableInv, TypeOK, UserInv, IterEnd, tableVars
<1>3. OneBucket'  BY DEF TableInv, TypeOK, OneBucket, IterEnd, tableVars
<1>4. NoBucketLeak'  BY DEF TableInv, TypeOK, NoBucketLeak, Installed, IterEnd, tableVars
<1>5. BucketInv'  BY DEF TableInv, TypeOK, BucketInv, Installed, IterEnd, tableVars
<1>6. EntryInv'  BY DEF TableInv, TypeOK, EntryInv, IterEnd, tableVars
<1>7. IterInv'
  <2>1. Present' = Present  BY DEF Present, IterEnd, tableVars
  <2> SUFFICES ASSUME NEW u \in Threads
               PROVE  /\ pc'[u] \notin {"iter", "done"} => seen'[u] = <<>>
                      /\ pc'[u] \in {"iter", "done"} => Passed(u)'
                      /\ pc'[u] = "done" => at'[u][1] = BUCKETS
    BY DEF IterInv
  <2>2. CASE u # t
    <3>1. pc'[u] = pc[u] /\ at'[u] = at[u] /\ seen'[u] = seen[u] /\ due'[u] = due[u]
      BY <2>2 DEF TableInv, TypeOK, IterEnd, iterVars
    <3> QED  BY <2>1, <3>1 DEF TableInv, IterInv, Passed
  <2>3. CASE u = t  BY <2>1, <2>3 DEF TableInv, TypeOK, IterInv, Passed, IterEnd, iterVars
  <2> QED  BY <2>2, <2>3
<1> QED  BY <1>1, <1>2, <1>3, <1>4, <1>5, <1>6, <1>7 DEF TableInv

\* An iterator may be dropped anywhere.
LEMMA IterDropStep ==
  ASSUME TableInv, NEW t \in Threads, IterDrop(t)
  PROVE  TableInv'
<1>1. TypeOK'  BY Sizes DEF TableInv, TypeOK, IterDrop, tableVars
<1>2. UserInv'  BY DEF TableInv, TypeOK, UserInv, IterDrop, tableVars
<1>3. OneBucket'  BY DEF TableInv, TypeOK, OneBucket, IterDrop, tableVars
<1>4. NoBucketLeak'  BY DEF TableInv, TypeOK, NoBucketLeak, Installed, IterDrop, tableVars
<1>5. BucketInv'  BY DEF TableInv, TypeOK, BucketInv, Installed, IterDrop, tableVars
<1>6. EntryInv'  BY DEF TableInv, TypeOK, EntryInv, IterDrop, tableVars
<1>7. IterInv'
  <2>1. Present' = Present  BY DEF Present, IterDrop, tableVars
  <2> SUFFICES ASSUME NEW u \in Threads
               PROVE  /\ pc'[u] \notin {"iter", "done"} => seen'[u] = <<>>
                      /\ pc'[u] \in {"iter", "done"} => Passed(u)'
                      /\ pc'[u] = "done" => at'[u][1] = BUCKETS
    BY DEF IterInv
  <2>2. CASE u # t
    <3>1. pc'[u] = pc[u] /\ at'[u] = at[u] /\ seen'[u] = seen[u] /\ due'[u] = due[u]
      BY <2>2 DEF TableInv, TypeOK, IterDrop, iterVars
    <3> QED  BY <2>1, <3>1 DEF TableInv, IterInv, Passed
  <2>3. CASE u = t  BY <2>3 DEF TableInv, TypeOK, IterDrop
  <2> QED  BY <2>2, <2>3
<1> QED  BY <1>1, <1>2, <1>3, <1>4, <1>5, <1>6, <1>7 DEF TableInv

\* An iterator passes one entry, and yields it if it is present.
LEMMA IterEntryStep ==
  ASSUME TableInv, NEW t \in Threads, IterEntry(t)
  PROVE  TableInv'
<1>1. TypeOK'
  <2>1. at[t] \in (0 .. BUCKETS) \X (0 .. BucketCapacity(BUCKETS - 1) - 1) /\ at[t] = <<at[t][1], at[t][2]>>
    BY DEF TableInv, TypeOK
  <2>2. at[t][1] \in Bs /\ at[t][2] \in 0 .. BucketCapacity(BUCKETS - 1) - 1
    BY <2>1, Sizes DEF IterEntry, Bs
  <2>3. <<at[t][1], at[t][2]>> \in Places  BY <2>2 DEF Places, Bs
  <2>4. seen' \in [Threads -> Seq(Places)]
    <3>1. seen[t] \in Seq(Places)  BY DEF TableInv, TypeOK
    <3>2. Append(seen[t], <<at[t][1], at[t][2]>>) \in Seq(Places)  BY <2>3, <3>1
    <3> QED  BY <3>2 DEF TableInv, TypeOK, IterEntry
  <2>5. at' \in [Threads -> (0 .. BUCKETS) \X (0 .. BucketCapacity(BUCKETS - 1) - 1)]
    <3>1. at'[t] \in (0 .. BUCKETS) \X (0 .. BucketCapacity(BUCKETS - 1) - 1)
      BY <2>2, Sizes DEF TableInv, TypeOK, IterEntry, Bs
    <3> QED  BY <3>1 DEF TableInv, TypeOK, IterEntry
  <2> QED  BY <2>4, <2>5 DEF TableInv, TypeOK, IterEntry, tableVars
<1>2. UserInv'  BY DEF TableInv, TypeOK, UserInv, IterEntry, tableVars
<1>3. OneBucket'  BY DEF TableInv, TypeOK, OneBucket, IterEntry, tableVars
<1>4. NoBucketLeak'  BY DEF TableInv, TypeOK, NoBucketLeak, Installed, IterEntry, tableVars
<1>5. BucketInv'  BY DEF TableInv, TypeOK, BucketInv, Installed, IterEntry, tableVars
<1>6. EntryInv'  BY DEF TableInv, TypeOK, EntryInv, IterEntry, tableVars
<1>7. IterInv'
  <2>1. Present' = Present  BY DEF Present, IterEntry, tableVars
  <2> SUFFICES ASSUME NEW u \in Threads
               PROVE  /\ pc'[u] \notin {"iter", "done"} => seen'[u] = <<>>
                      /\ pc'[u] \in {"iter", "done"} => Passed(u)'
                      /\ pc'[u] = "done" => at'[u][1] = BUCKETS
    BY DEF IterInv
  <2>2. CASE u # t
    <3>1. pc'[u] = pc[u] /\ at'[u] = at[u] /\ seen'[u] = seen[u] /\ due'[u] = due[u]
      BY <2>2 DEF TableInv, TypeOK, IterEntry, iterVars
    <3> QED  BY <2>1, <3>1 DEF TableInv, IterInv, Passed
  <2>3. CASE u = t
    <3> DEFINE b == at[t][1]
               e == at[t][2]
               y == <<b, e>>
    <3>1. pc[t] = "iter" /\ pc'[t] = "iter" /\ due'[t] = due[t] /\ b < BUCKETS /\ buckets[b] # NULL /\ Passed(t)
          /\ at'[t] = (IF e + 1 < BucketCapacity(b) THEN <<b, e + 1>> ELSE <<b + 1, 0>>)
          /\ seen'[t] = (IF e \in present[buckets[b]] THEN Append(seen[t], y) ELSE seen[t])
      BY DEF TableInv, TypeOK, IterInv, IterEntry
    <3>2. b \in Bs /\ b \in Nat /\ e \in Nat /\ at[t] = y /\ e < BucketCapacity(b)
          /\ BucketCapacity(b) \in Nat
      BY <3>1, Sizes DEF TableInv, TypeOK, Bs, Passed
    <3>3. \A p \in due[t] : p \in Places /\ p[2] \in present[buckets[p[1]]]
            /\ (p[1] = b => p[2] < BucketCapacity(b))
      BY <3>1, <3>2 DEF TableInv, EntryInv, Passed, Present, Places
    <3> HIDE DEF b, e
    <3>4. ASSUME NEW p \in due[t], Before(p, at'[t]) PROVE Before(p, at[t]) \/ p = y
      <4>1. p \in Places /\ p = <<p[1], p[2]>> /\ p[1] \in Nat /\ p[2] \in Nat  BY <3>3 DEF Places
      <4>2. p[1] = b => p[2] < BucketCapacity(b)  BY <3>3
      <4>3. p[1] < b \/ (p[1] = b /\ p[2] < e) \/ (p[1] = b /\ p[2] = e)
        BY <3>1, <3>2, <3>4, <4>1, <4>2 DEF Before
      <4> QED  BY <3>2, <4>1, <4>3 DEF Before
    <3>5. \A p \in Places : Before(p, at[t]) => Before(p, at'[t])
      BY <3>1, <3>2 DEF Before, Places
    <3>6. Before(y, at'[t]) /\ ~Before(y, at[t])  BY <3>1, <3>2 DEF Before
    <3>7. seen[t] \in Seq(Places) /\ \A i \in 1 .. Len(seen[t]) : seen[t][i] \in Places
      BY DEF TableInv, TypeOK
    <3>8. at'[t][1] < BUCKETS => at'[t][2] < BucketCapacity(at'[t][1])  BY <3>1, <3>2, Sizes DEF Bs
    <3>9. CASE e \in present[buckets[b]]
      <4>1. seen'[t] = Append(seen[t], y)  BY <3>1, <3>9
      <4>2. Len(seen'[t]) = Len(seen[t]) + 1 /\ seen'[t][Len(seen[t]) + 1] = y /\ Len(seen[t]) \in Nat
            /\ \A i \in 1 .. Len(seen[t]) : seen'[t][i] = seen[t][i]
        BY <3>7, <4>1
      <4> HIDE DEF y
      <4>3. \A i \in 1 .. Len(seen'[t]) : i \in 1 .. Len(seen[t]) \/ i = Len(seen[t]) + 1
        BY <4>2
      <4>4. \A p \in due[t] : Before(p, at'[t]) => \E i \in 1 .. Len(seen'[t]) : seen'[t][i] = p
        <5> SUFFICES ASSUME NEW p \in due[t], Before(p, at'[t])
                     PROVE  \E i \in 1 .. Len(seen'[t]) : seen'[t][i] = p
          OBVIOUS
        <5>1. CASE p = y  BY <4>2, <5>1
        <5>2. CASE Before(p, at[t])
          <6>1. PICK i \in 1 .. Len(seen[t]) : seen[t][i] = p  BY <3>1, <5>2 DEF Passed
          <6>2. i \in 1 .. Len(seen'[t])  BY <4>2
          <6> QED  BY <4>2, <6>1, <6>2
        <5> QED  BY <3>4, <5>1, <5>2
      <4>5. \A i \in 1 .. Len(seen'[t]) : Before(seen'[t][i], at'[t])
        BY <3>1, <3>5, <3>6, <3>7, <4>2, <4>3 DEF Passed
      <4>6. \A i \in 1 .. Len(seen[t]) : seen[t][i] # y  BY <3>1, <3>6 DEF Passed
      <4>7. \A i, j \in 1 .. Len(seen'[t]) : seen'[t][i] = seen'[t][j] => i = j
        BY <3>1, <4>2, <4>3, <4>6 DEF Passed
      <4>8. Passed(t)'  BY <2>1, <3>1, <3>8, <4>4, <4>5, <4>7 DEF Passed
      <4> QED  BY <2>3, <3>1, <4>8
    <3>10. CASE e \notin present[buckets[b]]
      <4>1. seen'[t] = seen[t] /\ y \notin due[t]  BY <3>1, <3>3, <3>10
      <4>2. Passed(t)'  BY <2>1, <3>1, <3>4, <3>5, <3>7, <3>8, <4>1 DEF Passed
      <4> QED  BY <2>3, <3>1, <4>2
    <3> QED  BY <3>9, <3>10
  <2> QED  BY <2>2, <2>3
<1> QED  BY <1>1, <1>2, <1>3, <1>4, <1>5, <1>6, <1>7 DEF TableInv

-----------------------------------------------------------------------------
(* The constructor and the destructor. *)

\* with_capacity_in installs its buckets before anyone uses the table.
LEMMA BuildStep ==
  ASSUME TableInv, Build
  PROVE  TableInv'
<1>1. PICK b \in 0 .. init, p \in Ptrs :
        /\ buckets[b] = NULL /\ AllocateBucket(p) /\ buckets' = [buckets EXCEPT ![b] = p]
        /\ phase' = IF b = init THEN "ready" ELSE "building"
  BY DEF Build
<1>2. phase = "building" /\ b \in Bs /\ \A t \in Threads : pc[t] = "idle"
  <2>1. phase = "building" /\ phase # "ready"  BY DEF Build
  <2>2. b \in Bs  BY Sizes DEF TableInv, TypeOK, Bs
  <2> QED  BY <2>1, <2>2 DEF TableInv, UserInv
<1>3. init' = init /\ pc' = pc /\ id' = id /\ ptr' = ptr /\ UNCHANGED iterVars  BY DEF Build
<1>4. p \notin heap /\ heap' = heap \cup {p} /\ p # NULL
      /\ value' = [value EXCEPT ![p] = {}] /\ present' = [present EXCEPT ![p] = {}]
  BY <1>1, PtrAssumption DEF AllocateBucket
<1>5. TypeOK'  BY <1>1, <1>2, <1>3, <1>4 DEF TableInv, TypeOK, Entries, iterVars
<1>6. UserInv'  BY <1>2, <1>3 DEF UserInv
<1>7. OneBucket'  BY <1>2, <1>3 DEF OneBucket
<1>8. NoBucketLeak'
  <2>1. Installed' = Installed \cup {p}  BY <1>1, <1>2, <1>4 DEF TableInv, TypeOK, Installed, Bs
  <2> QED  BY <1>2, <1>3, <1>4, <2>1 DEF TableInv, NoBucketLeak
<1>9. BucketInv'
  <2>1. \A c \in Bs : buckets[c] # p
    BY <1>4, InstalledBuckets DEF TableInv
  <2> QED  BY <1>1, <1>2, <1>3, <2>1 DEF TableInv, TypeOK, BucketInv, Bs
<1>10. EntryInv'
  <2>1. \A c \in Bs : c # b => buckets'[c] = buckets[c] /\ buckets[c] # p
    BY <1>1, <1>4, InstalledBuckets DEF TableInv, TypeOK, Bs
  <2>2. \A q \in Ptrs : q # p => present'[q] = present[q] /\ value'[q] = value[q]
    BY <1>4 DEF TableInv, TypeOK
  <2>3. buckets'[b] = p /\ present'[p] = {}  BY <1>1, <1>2, <1>4 DEF TableInv, TypeOK, Bs
  <2>4. \A q \in Ptrs : present'[q] \subseteq value'[q]  BY <2>2, <2>3 DEF TableInv, EntryInv
  <2>5. ASSUME NEW c \in Bs, buckets'[c] # NULL
        PROVE  present'[buckets'[c]] \subseteq 0 .. BucketCapacity(c) - 1
    <3>1. CASE c = b  BY <2>3, <3>1
    <3>2. CASE c # b
      <4>1. buckets'[c] = buckets[c] /\ buckets[c] # p /\ buckets[c] # NULL  BY <2>1, <2>5, <3>2
      <4>2. buckets[c] \in Ptrs  BY <4>1, InstalledBuckets DEF TableInv
      <4> QED  BY <2>2, <4>1, <4>2 DEF TableInv, EntryInv
    <3> QED  BY <3>1, <3>2
  <2> QED  BY <1>2, <1>3, <2>4, <2>5 DEF EntryInv
<1>11. IterInv'  BY <1>2, <1>3, IterQuiet DEF TableInv
<1> QED  BY <1>5, <1>6, <1>7, <1>8, <1>9, <1>10, <1>11 DEF TableInv

\* Freeing all buckets, when no operation is under way.
LEMMA ClearStep ==
  ASSUME TableInv, \A t \in Threads : pc[t] = "idle",
         FreeBuckets(Installed), buckets' = [b \in 0 .. BUCKETS - 1 |-> NULL],
         phase' \in {"failed", "dropped"}, UNCHANGED <<init, pc, id, ptr, iterVars>>
  PROVE  TableInv'
<1>1. TypeOK'  BY DEF TableInv, TypeOK, FreeBuckets, iterVars
<1>2. UserInv'  BY DEF UserInv
<1>3. OneBucket'  BY DEF OneBucket
<1>4. NoBucketLeak'
  <2>1. heap' = {} /\ Installed' = {}  BY DEF TableInv, NoBucketLeak, FreeBuckets, Installed
  <2> QED  BY <2>1 DEF NoBucketLeak
<1>5. BucketInv'  BY DEF BucketInv, Bs
<1>6. EntryInv'  BY DEF TableInv, EntryInv, FreeBuckets, Bs
<1>7. IterInv'  BY IterQuiet DEF TableInv
<1> QED  BY <1>1, <1>2, <1>3, <1>4, <1>5, <1>6, <1>7 DEF TableInv

\* A failed with_capacity_in leaves nothing behind.
LEMMA BuildErrStep == TableInv /\ BuildErr => TableInv'
BY ClearStep DEF BuildErr, TableInv, UserInv

\* Dropping the table frees its buckets.
LEMMA DropStep == TableInv /\ Drop => TableInv'
BY ClearStep DEF Drop

-----------------------------------------------------------------------------
(* The theorems. *)

\* A new table has no bucket.
LEMMA TableInit == Init => TableInv
<1> SUFFICES ASSUME Init PROVE TableInv  OBVIOUS
<1>1. init \in Bs
  <2>1. PICK c \in Capacities : init = InitBucket(c)  BY DEF Init
  <2>2. c \in 0 .. MAX_INDEX  BY TableAssumption
  <2> QED  BY <2>1, <2>2, NewBounds, Sizes DEF InitBucket, Bs
<1>2. TypeOK  BY <1>1, Sizes DEF Init, TypeOK, Entries, Bs
<1>3. UserInv /\ OneBucket  BY DEF Init, UserInv, OneBucket
<1>4. NoBucketLeak /\ BucketInv  BY DEF Init, NoBucketLeak, Installed, BucketInv, Bs
<1>5. EntryInv /\ IterInv  BY DEF Init, EntryInv, IterInv, Bs
<1> QED  BY <1>2, <1>3, <1>4, <1>5 DEF TableInv

\* The same state keeps the invariant.
LEMMA TableStutters == TableInv /\ UNCHANGED vars => TableInv'
<1> SUFFICES ASSUME TableInv, UNCHANGED vars PROVE TableInv'  OBVIOUS
<1> USE DEF vars, tableVars, iterVars
<1>1. TypeOK' /\ UserInv' /\ OneBucket'  BY DEF TableInv, TypeOK, UserInv, OneBucket
<1>2. NoBucketLeak' /\ BucketInv' /\ EntryInv'  BY DEF TableInv, NoBucketLeak, Installed, BucketInv, EntryInv
<1>3. IterInv'  BY IterStays DEF TableInv, Present
<1> QED  BY <1>1, <1>2, <1>3 DEF TableInv

\* Every step of the table, of its users and of its iterators preserves the invariant.
LEMMA TableNext == TableInv /\ [Next]_vars => TableInv'
<1> SUFFICES ASSUME TableInv, [Next]_vars PROVE TableInv'  OBVIOUS
<1>1. CASE Build \/ BuildErr \/ Drop  BY <1>1, BuildStep, BuildErrStep, DropStep
<1>2. ASSUME NEW t \in Threads, Lookup(t) PROVE TableInv'
  BY <1>2, BeginStep, GetStep, LoadStep, InitializeStep, InitializeErrStep, InstallStep, DiscardStep,
     WriteStep, FoundStep, PublishStep, GetEntryStep DEF Lookup
<1>3. ASSUME NEW t \in Threads, Iterate(t) PROVE TableInv'
  BY <1>3, IterStartStep, IterSkipStep, IterEntryStep, IterEndStep, IterDropStep DEF Iterate
<1>4. CASE UNCHANGED vars  BY <1>4, TableStutters
<1> QED  BY <1>1, <1>2, <1>3, <1>4 DEF Next

\* The invariant holds in every reachable state of the table.
THEOREM TableInvariant == Spec => []TableInv
BY TableInit, TableNext, PTL DEF Spec

\* The table, the local variables of its users and the positions of its iterators
\* keep their types: no step leaves the buckets or the array of buckets.
THEOREM ThreadLocalTypeCorrect == Spec => []TypeOK
<1>1. TableInv => TypeOK  BY DEF TableInv
<1> QED  BY <1>1, TableInvariant, PTL

\* Every user of a slot works on the bucket that the table holds, however many
\* threads race to allocate it.
THEOREM UsersShareTheBucket == Spec => []OneBucket
<1>1. TableInv => OneBucket  BY DEF TableInv
<1> QED  BY <1>1, TableInvariant, PTL

\* Losing a race, an allocation failure and the destructor leave no bucket behind.
THEOREM BucketsAreFreed == Spec => []NoBucketLeak
<1>1. TableInv => NoBucketLeak  BY DEF TableInv
<1> QED  BY <1>1, TableInvariant, PTL

\* Iterators and users of a slot read only written values, in allocated buckets.
THEOREM ReadsAreInitialised == Spec => []ReadsInitialised
<1>1. ASSUME TableInv PROVE ReadsInitialised
  <2> SUFFICES ASSUME NEW t \in Threads, NEW p, p # NULL,
                      \/ pc[t] = "iter" /\ at[t][1] < BUCKETS /\ p = buckets[at[t][1]]
                      \/ pc[t] \in {"entry", "get"} /\ p = ptr[t]
               PROVE  p \in heap /\ present[p] \subseteq value[p]
    BY DEF ReadsInitialised
  <2>1. CASE pc[t] = "iter" /\ at[t][1] < BUCKETS /\ p = buckets[at[t][1]]
    <3>1. at[t][1] \in Bs  BY <1>1, <2>1, Sizes DEF TableInv, TypeOK, Bs
    <3> QED  BY <1>1, <2>1, <3>1, InstalledBuckets DEF TableInv, EntryInv
  <2>2. CASE pc[t] \in {"entry", "get"} /\ p = ptr[t]
    <3>1. p \in heap  BY <1>1, <2>2 DEF TableInv, OneBucket
    <3> QED  BY <1>1, <3>1 DEF TableInv, TypeOK, EntryInv
  <2> QED  BY <2>1, <2>2
<1> QED  BY <1>1, TableInvariant, PTL

\* An iterator yields every slot that was initialised when it started, and none
\* twice, whatever threads register meanwhile.
THEOREM IteratorsMissNothing == Spec => []IteratesAll
<1>1. ASSUME TableInv PROVE IteratesAll
  <2> SUFFICES ASSUME NEW t \in Threads, pc[t] = "done"
               PROVE  /\ due[t] \subseteq {seen[t][i] : i \in 1 .. Len(seen[t])}
                      /\ \A i, j \in 1 .. Len(seen[t]) : seen[t][i] = seen[t][j] => i = j
    BY DEF IteratesAll
  <2>1. Passed(t) /\ at[t][1] = BUCKETS  BY <1>1 DEF TableInv, IterInv
  <2>2. \A p \in Places : Before(p, at[t])  BY <2>1, Sizes DEF Places, Before
  <2>3. due[t] \subseteq Places  BY <1>1 DEF TableInv, TypeOK
  <2> QED  BY <2>1, <2>2, <2>3 DEF Passed
<1> QED  BY <1>1, TableInvariant, PTL

\* As long as the table lives, an initialised entry stays so and a bucket stays
\* where it is: a reservation is never replaced under its user.
THEOREM EntriesNeverLeave == Spec => EntriesStay
<1>1. ASSUME TableInv, [Next]_vars, phase' = "ready"
      PROVE  /\ Present \subseteq Present'
             /\ \A b \in Bs : buckets[b] # NULL => buckets'[b] = buckets[b]
  <2>1. \A b \in Bs : buckets[b] # NULL => buckets[b] \in Ptrs /\ buckets[b] \in heap
    BY <1>1, InstalledBuckets DEF TableInv
  <2>2. SUFFICES \A b \in Bs : buckets[b] # NULL =>
                   buckets'[b] = buckets[b] /\ present[buckets[b]] \subseteq present'[buckets[b]]
    BY <1>1, PresentGrows DEF TableInv
  <2>3. CASE Build
    <3>1. PICK b \in 0 .. init, p \in Ptrs :
            /\ buckets[b] = NULL /\ AllocateBucket(p) /\ buckets' = [buckets EXCEPT ![b] = p]
      BY <2>3 DEF Build
    <3> QED  BY <1>1, <2>1, <3>1 DEF TableInv, TypeOK, AllocateBucket, Bs
  <2>4. CASE BuildErr \/ Drop  BY <1>1, <2>4 DEF BuildErr, Drop
  <2>5. ASSUME NEW t \in Threads, Lookup(t)
        PROVE  \A b \in Bs : buckets[b] # NULL =>
                 buckets'[b] = buckets[b] /\ present[buckets[b]] \subseteq present'[buckets[b]]
    <3>1. CASE Initialize(t)
      BY <1>1, <2>1, <3>1 DEF TableInv, TypeOK, Initialize, AllocateBucket
    <3>2. CASE Install(t)  BY <1>1, <3>2 DEF TableInv, TypeOK, Install, Bs
    <3>3. CASE Discard(t) \/ Write(t)  BY <3>3 DEF Discard, FreeBuckets, Write
    <3>4. CASE Publish(t)  BY <1>1, <2>1, <3>4 DEF TableInv, TypeOK, Publish
    <3>5. CASE \E i \in Ids : Begin(t, i) \/ Get(t, i)  BY <3>5 DEF Begin, Get, tableVars
    <3>6. CASE Load(t) \/ InitializeErr(t) \/ Found(t) \/ GetEntry(t)
      BY <3>6 DEF Load, InitializeErr, Found, GetEntry, tableVars
    <3> QED  BY <2>5, <3>1, <3>2, <3>3, <3>4, <3>5, <3>6 DEF Lookup
  <2>6. ASSUME NEW t \in Threads, Iterate(t)
        PROVE  \A b \in Bs : buckets[b] # NULL =>
                 buckets'[b] = buckets[b] /\ present[buckets[b]] \subseteq present'[buckets[b]]
    BY <2>6 DEF Iterate, IterStart, IterSkip, IterEntry, IterEnd, IterDrop, tableVars
  <2>7. CASE UNCHANGED vars  BY <2>7 DEF vars, tableVars
  <2> QED  BY <1>1, <2>3, <2>4, <2>5, <2>6, <2>7 DEF Next
<1>2. TableInv /\ [Next]_vars =>
        [phase' = "ready" => /\ Present \subseteq Present'
                             /\ \A b \in 0 .. BUCKETS - 1 : buckets[b] # NULL =>
                                  buckets'[b] = buckets[b]]_vars
  BY <1>1 DEF Bs
<1> QED  BY <1>2, TableInvariant, PTL DEF Spec, EntriesStay

\* The layout of Thread::new, as the runs state it.
THEOREM IdsStayInOrder == Spec => []InOrder
<1>1. InOrder  BY IdsAreInOrder DEF InOrder
<1> QED  BY <1>1, PTL

\* There are as many ids as entries, and the largest id has the last one.
THEOREM LastIdFillsLastBucket == Spec => []FillsLastBucket
<1>1. FillsLastBucket  BY IdsFillTheBuckets DEF FillsLastBucket
<1> QED  BY <1>1, PTL

-----------------------------------------------------------------------------
(* ThreadLocal implements SlotTable. *)

\* load_or has a slot of its own; one that allocates or writes has not found the
\* slot there, and no one else can add it; a table that is not ready is empty.
SlotInv ==
  /\ \A t, u \in Threads : Loading(t) /\ Loading(u) /\ id[t] = id[u] => t = u
  /\ \A t \in Threads : pc[t] \in {"init", "cas", "publish"} => Place(id[t]) \notin Present
  /\ phase # "ready" => Present = {}

\* The place of an id, and when it is initialised.
LEMMA PlaceOf ==
  ASSUME NEW i \in Ids
  PROVE  /\ Place(i) \in Places
         /\ Place(i) \in Present <=>
              buckets[New(i).bucket] # NULL /\ New(i).entry \in present[buckets[New(i).bucket]]
         /\ \A j \in Ids : Place(i) = Place(j) => i = j
<1>1. Place(i) \in Places /\ Place(i)[1] = New(i).bucket /\ Place(i)[2] = New(i).entry
  BY SlotBounds DEF Place, Places, Bs
<1>2. \A j \in Ids : Place(i) = Place(j) => i = j  BY IdAtPlace, TableAssumption
<1> QED  BY <1>1, <1>2 DEF Present

\* Buckets that come or go empty change nothing.
LEMMA PresentSame ==
  ASSUME \A b \in Bs : IF buckets[b] # NULL
                       THEN buckets'[b] = buckets[b] /\ present'[buckets[b]] = present[buckets[b]]
                       ELSE buckets'[b] = NULL \/ present'[buckets'[b]] = {}
  PROVE  Present' = Present
<1>1. \A p \in Places : p[1] \in Bs  BY DEF Places, Bs
<1>2. \A p \in Places : (buckets'[p[1]] # NULL /\ p[2] \in present'[buckets'[p[1]]])
                          <=> (buckets[p[1]] # NULL /\ p[2] \in present[buckets[p[1]]])
  BY <1>1
<1>3. Places' = Places  BY DEF Places
<1> QED  BY <1>2, <1>3 DEF Present

\* Every step of load_or but the last, get and iterators leave the table as it is.
LEMMA QuietStep ==
  ASSUME TableInv, NEW t \in Threads, Lookup(t) \/ Iterate(t), ~Publish(t)
  PROVE  Present' = Present
<1>1. \A b \in Bs : buckets[b] # NULL => buckets[b] \in Ptrs /\ buckets[b] \in heap
  BY InstalledBuckets DEF TableInv
<1>2. CASE Initialize(t)
  BY <1>1, <1>2, PresentSame DEF TableInv, TypeOK, Initialize, AllocateBucket
<1>3. CASE Install(t)
  <2>1. New(id[t]).bucket \in Bs /\ present[ptr[t]] = {}
    BY <1>3, SlotBounds DEF TableInv, UserInv, BucketInv, Install
  <2>2. \A b \in Bs : buckets'[b] = IF b = New(id[t]).bucket THEN ptr[t] ELSE buckets[b]
    BY <1>3, <2>1 DEF TableInv, TypeOK, Install, Bs
  <2>3. UNCHANGED present /\ buckets[New(id[t]).bucket] = NULL  BY <1>3 DEF Install
  <2> QED  BY <2>1, <2>2, <2>3, PresentSame
<1>4. ASSUME UNCHANGED <<buckets, present>> PROVE Present' = Present
  BY <1>4, PresentSame
<1>5. CASE \E i \in Ids : Begin(t, i) \/ Get(t, i)  BY <1>4, <1>5 DEF Begin, Get, tableVars
<1>6. CASE Load(t) \/ InitializeErr(t) \/ Found(t) \/ GetEntry(t) \/ Discard(t) \/ Write(t)
  BY <1>4, <1>6 DEF Load, InitializeErr, Found, GetEntry, Discard, Write, FreeBuckets, tableVars
<1>7. CASE Iterate(t)
  BY <1>4, <1>7 DEF Iterate, IterStart, IterSkip, IterEntry, IterEnd, IterDrop, tableVars
<1> QED  BY <1>2, <1>3, <1>5, <1>6, <1>7 DEF Lookup

\* The last step adds the slot of its thread, and no other: two buckets of the
\* table are never the same memory.
LEMMA PublishAdds ==
  ASSUME TableInv, NEW t \in Threads, Publish(t)
  PROVE  Present' = Present \cup {Place(id[t])}
<1> DEFINE c == New(id[t]).bucket
           e == New(id[t]).entry
<1>1. id[t] \in Ids /\ c \in Bs /\ ptr[t] = buckets[c] /\ ptr[t] \in heap /\ ptr[t] \in Ptrs /\ ptr[t] # NULL
  BY SlotBounds, PtrAssumption DEF TableInv, TypeOK, UserInv, OneBucket, Publish
<1>2. UNCHANGED buckets /\ present' = [present EXCEPT ![ptr[t]] = @ \cup {e}]
  BY DEF Publish
<1>3. Place(id[t]) \in Places /\ Place(id[t]) = <<c, e>>  BY <1>1, PlaceOf DEF Place
<1> HIDE DEF c, e
<1>4. ASSUME NEW p \in Places
      PROVE  (buckets[p[1]] # NULL /\ p[2] \in present'[buckets[p[1]]])
               <=> (buckets[p[1]] # NULL /\ p[2] \in present[buckets[p[1]]]) \/ p = <<c, e>>
  <2>1. p[1] \in Bs /\ p = <<p[1], p[2]>>  BY DEF Places, Bs
  <2>2. CASE p[1] = c
    <3>1. present'[ptr[t]] = present[ptr[t]] \cup {e}  BY <1>1, <1>2 DEF TableInv, TypeOK
    <3> QED  BY <1>1, <2>1, <2>2, <3>1
  <2>3. CASE p[1] # c
    <3>1. buckets[p[1]] # NULL => buckets[p[1]] # ptr[t]
      BY <1>1, <2>1, <2>3 DEF TableInv, BucketInv
    <3>2. buckets[p[1]] # NULL => buckets[p[1]] \in Ptrs
      BY <2>1, InstalledBuckets DEF TableInv
    <3>3. buckets[p[1]] # NULL => present'[buckets[p[1]]] = present[buckets[p[1]]]
      BY <1>2, <3>1, <3>2 DEF TableInv, TypeOK
    <3> QED  BY <2>1, <2>3, <3>3
  <2> QED  BY <2>2, <2>3
<1>5. Places' = Places  BY DEF Places
<1> QED  BY <1>2, <1>3, <1>4, <1>5 DEF Present

\* The constructor allocates empty buckets.
LEMMA BuildEmpty ==
  ASSUME TableInv, Build
  PROVE  Present' = Present
<1>1. PICK b \in 0 .. init, p \in Ptrs :
        /\ buckets[b] = NULL /\ AllocateBucket(p) /\ buckets' = [buckets EXCEPT ![b] = p]
  BY DEF Build
<1>2. b \in Bs  BY Sizes DEF TableInv, TypeOK, Bs
<1>3. \A c \in Bs : buckets[c] # NULL => buckets[c] \in Ptrs /\ buckets[c] # p
  BY <1>1, InstalledBuckets DEF TableInv, AllocateBucket
<1>4. \A c \in Bs : buckets'[c] = IF c = b THEN p ELSE buckets[c]
  BY <1>1, <1>2 DEF TableInv, TypeOK, Bs
<1>5. \A q \in Ptrs : present'[q] = IF q = p THEN {} ELSE present[q]
  BY <1>1 DEF TableInv, TypeOK, AllocateBucket
<1> QED  BY <1>1, <1>3, <1>4, <1>5, PresentSame

\* A failed constructor and the destructor leave nothing.
LEMMA ClearEmpty == BuildErr \/ Drop => Present' = {}
<1> SUFFICES ASSUME buckets' = [b \in 0 .. BUCKETS - 1 |-> NULL] PROVE Present' = {}
  BY DEF BuildErr, Drop
<1>1. \A p \in Places' : buckets'[p[1]] = NULL  BY DEF Places
<1> QED  BY <1>1 DEF Present

\* A thread changes its own call only.
LEMMA OwnCall ==
  ASSUME TableInv, NEW t \in Threads, Lookup(t) \/ Iterate(t), NEW u \in Threads, u # t
  PROVE  /\ pc'[u] = pc[u] /\ id'[u] = id[u] /\ seen'[u] = seen[u] /\ due'[u] = due[u]
         /\ Loading(u)' <=> Loading(u)
<1> USE DEF TableInv, TypeOK, tableVars, iterVars, Loading
<1>1. CASE \E i \in Ids : Begin(t, i) \/ Get(t, i)  BY <1>1 DEF Begin, Get
<1>2. CASE Load(t) \/ Initialize(t) \/ Install(t) \/ Discard(t) \/ Write(t)
  BY <1>2 DEF Load, Initialize, Install, Discard, Write
<1>3. CASE InitializeErr(t) \/ Found(t) \/ Publish(t) \/ GetEntry(t)
  BY <1>3 DEF InitializeErr, Found, Publish, GetEntry, Return
<1>4. CASE Iterate(t)
  BY <1>4 DEF Iterate, IterStart, IterSkip, IterEntry, IterEnd, IterDrop
<1> QED  BY <1>1, <1>2, <1>3, <1>4 DEF Lookup

\* How a thread moves through load_or: it begins with an id that no one has, and
\* keeps it; it allocates only after it found no bucket, and writes only after it
\* found the flag of its entry clear.
LEMMA CallMoves ==
  ASSUME TableInv, SlotInv, NEW t \in Threads, Lookup(t) \/ Iterate(t)
  PROVE  /\ Loading(t)' => \/ Loading(t) /\ id'[t] = id[t]
                           \/ \A u \in Threads : id[u] # id'[t]
         /\ pc'[t] \in {"init", "cas", "publish"} => /\ ~Publish(t)
                                                     /\ id'[t] = id[t]
                                                     /\ Place(id[t]) \notin Present
<1> USE DEF TableInv, TypeOK, tableVars, iterVars, Loading
<1>1. CASE \E i \in Ids : Begin(t, i) \/ Get(t, i)  BY <1>1 DEF Begin, Get, Publish
<1>2. CASE Load(t)
  <2>1. id[t] \in Ids  BY <1>2 DEF UserInv, Load
  <2> QED  BY <1>2, <2>1, PlaceOf DEF Load, Publish
<1>3. CASE Write(t)
  <2>1. id[t] \in Ids /\ ptr[t] = buckets[New(id[t]).bucket]  BY <1>3 DEF UserInv, OneBucket, Write
  <2> QED  BY <1>3, <2>1, PlaceOf DEF Write, Publish
<1>4. CASE Initialize(t) \/ Install(t) \/ Discard(t)
  BY <1>4 DEF SlotInv, Initialize, Install, Discard, Publish
<1>5. CASE InitializeErr(t) \/ Found(t) \/ Publish(t) \/ GetEntry(t)
  BY <1>5 DEF InitializeErr, Found, Publish, GetEntry, Return
<1>6. CASE Iterate(t)
  BY <1>6 DEF Iterate, IterStart, IterSkip, IterEntry, IterEnd, IterDrop
<1> QED  BY <1>1, <1>2, <1>3, <1>4, <1>5, <1>6 DEF Lookup

\* The steps of a thread keep the slots apart: what one adds is not the slot
\* of another.
LEMMA ThreadSlotInv ==
  ASSUME TableInv, TableInv', SlotInv, NEW t \in Threads, Lookup(t) \/ Iterate(t)
  PROVE  SlotInv'
<1>1. ASSUME NEW u \in Threads, NEW v \in Threads, Loading(u)', Loading(v)', id'[u] = id'[v] PROVE u = v
  BY <1>1, OwnCall, CallMoves DEF SlotInv
<1>2. ASSUME NEW u \in Threads, pc'[u] \in {"init", "cas", "publish"} PROVE Place(id'[u]) \notin Present'
  <2>1. CASE u = t  BY <1>2, <2>1, CallMoves, QuietStep
  <2>2. CASE u # t
    <3>1. pc[u] \in {"init", "cas", "publish"} /\ id'[u] = id[u] /\ Place(id[u]) \notin Present /\ id[u] \in Ids
      BY <1>2, <2>2, OwnCall DEF SlotInv, TableInv, UserInv
    <3>2. CASE Publish(t)
      <4>1. id[t] \in Ids /\ id[t] # id[u]
        BY <2>2, <3>1, <3>2 DEF Publish, TableInv, UserInv, SlotInv, Loading
      <4> QED  BY <3>1, <3>2, <4>1, PublishAdds, PlaceOf
    <3> QED  BY <3>1, <3>2, QuietStep
  <2> QED  BY <2>1, <2>2
<1>3. phase' = phase
  BY DEF Lookup, Iterate, Begin, Get, Load, Initialize, InitializeErr, Install, Discard, Write, Found, Publish,
     GetEntry, IterStart, IterSkip, IterEntry, IterEnd, IterDrop, tableVars
<1>4. phase # "ready" => ~Publish(t)  BY DEF TableInv, UserInv, Publish
<1>5. phase' # "ready" => Present' = {}  BY <1>3, <1>4, QuietStep DEF SlotInv
<1> QED  BY <1>1, <1>2, <1>5 DEF SlotInv

\* A new table is empty.
LEMMA SlotInit == Init => SlotInv
<1> SUFFICES ASSUME Init PROVE SlotInv  OBVIOUS
<1>1. Present = {}  BY DEF Init, Present, Places
<1> QED  BY <1>1 DEF Init, SlotInv, Loading

\* Every step keeps the slots apart.
LEMMA SlotNext == TableInv /\ TableInv' /\ SlotInv /\ [Next]_vars => SlotInv'
<1> SUFFICES ASSUME TableInv, TableInv', SlotInv, [Next]_vars PROVE SlotInv'  OBVIOUS
<1>1. ASSUME \A t \in Threads : pc[t] = "idle", UNCHANGED pc, Present' = {} PROVE SlotInv'
  BY <1>1 DEF SlotInv, Loading
<1>2. CASE Build
  <2>1. (\A t \in Threads : pc[t] = "idle") /\ UNCHANGED pc /\ Present = {}
    BY <1>2 DEF Build, TableInv, UserInv, SlotInv
  <2> QED  BY <1>1, <1>2, <2>1, BuildEmpty
<1>3. CASE BuildErr \/ Drop  BY <1>1, <1>3, ClearEmpty DEF BuildErr, Drop, TableInv, UserInv
<1>4. CASE UNCHANGED vars
  <2>1. Present' = Present  BY <1>4, PresentSame DEF vars, tableVars
  <2> QED  BY <1>4, <2>1 DEF SlotInv, Loading, vars, tableVars
<1> QED  BY <1>2, <1>3, <1>4, ThreadSlotInv DEF Next

\* The invariant holds in every reachable state.
THEOREM SlotInvariant == Spec => []SlotInv
BY SlotInit, SlotNext, TableInvariant, PTL DEF Spec

\* A function that differs from another in one place, or in none.
LEMMA OnePoint ==
  ASSUME NEW S, NEW f, NEW g, f = [x \in S |-> f[x]], g = [x \in S |-> g[x]],
         NEW t \in S, \A x \in S \ {t} : g[x] = f[x]
  PROVE  g = [f EXCEPT ![t] = g[t]] /\ (g[t] = f[t] => g = f)
<1>1. \A x \in S : g[x] = [f EXCEPT ![t] = g[t]][x]  OBVIOUS
<1>2. g[t] = f[t] => \A x \in S : g[x] = f[x]  OBVIOUS
<1>3. g[t] = f[t] => g = f  BY <1>2
<1> QED  BY <1>1, <1>3

\* What an iterator has yielded.
LEMMA YieldedHas ==
  ASSUME NEW t \in Threads, NEW p
  PROVE  p \in Yielded[t] <=> \E i \in 1 .. Len(seen[t]) : seen[t][i] = p
BY DEF Yielded

\* What the users see of a step of thread t: the call, the slot and the iterator
\* of t alone.
LEMMA SeenStep ==
  ASSUME TableInv, NEW t \in Threads, Lookup(t) \/ Iterate(t)
  PROVE  /\ Called' = [Called EXCEPT ![t] = Called'[t]]
         /\ Using' = [Using EXCEPT ![t] = Using'[t]]
         /\ Yielded' = [Yielded EXCEPT ![t] = Yielded'[t]]
         /\ Called'[t] = Called[t] => Called' = Called
         /\ Using'[t] = Using[t] => Using' = Using
         /\ UNCHANGED phase
<1>1. \A u \in Threads \ {t} : /\ Called'[u] = Called[u]
                              /\ Using'[u] = Using[u]
                              /\ Yielded'[u] = Yielded[u]
  BY OwnCall DEF Called, Using, Yielded
<1>2. UNCHANGED phase
  BY DEF Lookup, Iterate, Begin, Get, Load, Initialize, InitializeErr, Install, Discard, Write, Found, Publish,
     GetEntry, IterStart, IterSkip, IterEntry, IterEnd, IterDrop, tableVars
<1>3. /\ Called = [u \in Threads |-> Called[u]] /\ Called' = [u \in Threads |-> Called'[u]]
      /\ Using = [u \in Threads |-> Using[u]] /\ Using' = [u \in Threads |-> Using'[u]]
      /\ Yielded = [u \in Threads |-> Yielded[u]] /\ Yielded' = [u \in Threads |-> Yielded'[u]]
  BY DEF Called, Using, Yielded
<1>4. Called' = [Called EXCEPT ![t] = Called'[t]] /\ (Called'[t] = Called[t] => Called' = Called)
  BY <1>1, <1>3, OnePoint
<1>5. Using' = [Using EXCEPT ![t] = Using'[t]] /\ (Using'[t] = Using[t] => Using' = Using)
  BY <1>1, <1>3, OnePoint
<1>6. Yielded' = [Yielded EXCEPT ![t] = Yielded'[t]]
  BY <1>1, <1>3, OnePoint
<1> QED  BY <1>2, <1>4, <1>5, <1>6

\* It is a stutter if these stay.
LEMMA HiddenCall ==
  ASSUME TableInv, NEW t \in Threads, Lookup(t) \/ Iterate(t), ~Publish(t),
         Called'[t] = Called[t], Using'[t] = Using[t], UNCHANGED <<seen, due>>
  PROVE  UNCHANGED Table!vars
<1>1. Called' = Called /\ Using' = Using  BY SeenStep
<1>2. Yielded' = Yielded  BY DEF Yielded
<1> QED  BY <1>1, <1>2, SeenStep, QuietStep DEF Table!vars

\* load_or secures its slot, which it then adds or finds, or fails without it; the
\* rest of it, and get, are not seen.
LEMMA LookupSeen ==
  ASSUME TableInv, SlotInv, NEW t \in Threads, Lookup(t)
  PROVE  Table!Next \/ UNCHANGED Table!vars
<1> USE DEF TableInv, TypeOK, tableVars, iterVars
<1>0. /\ Called' = [Called EXCEPT ![t] = Called'[t]] /\ Using' = [Using EXCEPT ![t] = Using'[t]]
      /\ UNCHANGED phase
  BY SeenStep
<1>1. ASSUME NEW i \in Ids, Begin(t, i) PROVE Table!LoadOr(t)
  <2>1. pc[t] = "idle" /\ pc'[t] = "load" /\ id'[t] = i /\ phase = "ready" /\ UNCHANGED <<due, seen>>
    BY <1>1 DEF Begin
  <2>2. Called[t] = "idle" /\ Called'[t] = "load_or" /\ Using'[t] = Place(i)
    BY <2>1 DEF Called, Using, Loading
  <2>3. ASSUME NEW u \in Threads, Called[u] \in {"load_or", "secured"} PROVE Using[u] # Place(i)
    <3>1. Loading(u)  BY <2>3 DEF Called, Loading
    <3>2. id[u] \in Ids /\ id[u] # i  BY <1>1, <3>1 DEF Begin, UserInv, Loading
    <3> QED  BY <3>1, <3>2, PlaceOf DEF Using
  <2>4. ~Publish(t) /\ Yielded' = Yielded  BY <2>1 DEF Publish, Yielded
  <2>5. Present' = Present  BY <2>4, QuietStep
  <2>6. Place(i) \in {Place(j) : j \in Ids}  OBVIOUS
  <2> QED  BY <1>0, <2>1, <2>2, <2>3, <2>4, <2>5, <2>6 DEF Table!LoadOr
<1>2. ASSUME InitializeErr(t) PROVE Table!Failed(t)
  <2>1. /\ pc[t] = "init" /\ pc'[t] = "idle" /\ UNCHANGED <<due, seen>>
        /\ ~Publish(t) /\ Place(id[t]) \notin Present
    BY <1>2 DEF InitializeErr, Publish, Return, SlotInv
  <2>2. Called[t] = "load_or" /\ Called'[t] = "idle" /\ Using[t] = Place(id[t]) /\ Using'[t] = NULL
    BY <2>1 DEF Called, Using, Loading
  <2>3. Yielded' = Yielded  BY <2>1 DEF Yielded
  <2>4. Present' = Present  BY <2>1, QuietStep
  <2> QED  BY <1>0, <2>1, <2>2, <2>3, <2>4 DEF Table!Failed
<1>6. ASSUME Found(t) \/ Publish(t) PROVE Table!Loaded(t)
  <2>1. pc[t] \in {"entry", "publish"} /\ pc'[t] = "idle" /\ UNCHANGED <<due, seen>> /\ id[t] \in Ids
    BY <1>6 DEF Found, Publish, Return, UserInv
  <2>2. Called[t] = "secured" /\ Called'[t] = "idle" /\ Using[t] = Place(id[t]) /\ Using'[t] = NULL
    BY <2>1 DEF Called, Using, Loading
  <2>3. Yielded' = Yielded  BY <2>1 DEF Yielded
  <2>4. Present' = Present \cup {Using[t]}
    <3>1. CASE Found(t)
      <4>1. ptr[t] = buckets[New(id[t]).bucket] /\ ptr[t] # NULL
        BY <3>1, PtrAssumption DEF Found, OneBucket
      <4>2. Place(id[t]) \in Present  BY <2>1, <3>1, <4>1, PlaceOf DEF Found
      <4>3. Present' = Present  BY <3>1, QuietStep DEF Found, Publish
      <4> QED  BY <2>2, <4>2, <4>3
    <3>2. CASE Publish(t)  BY <2>2, <3>2, PublishAdds
    <3> QED  BY <1>6, <3>1, <3>2
  <2> QED  BY <1>0, <2>1, <2>2, <2>3, <2>4 DEF Table!Loaded
<1>3. CASE \E i \in Ids : Get(t, i)
  <2>1. Called'[t] = Called[t] /\ Using'[t] = Using[t] /\ UNCHANGED <<seen, due>> /\ ~Publish(t)
    BY <1>3 DEF Get, Called, Using, Loading, Publish
  <2> QED  BY <2>1, HiddenCall
<1>4. CASE GetEntry(t)
  <2>1. Called'[t] = Called[t] /\ Using'[t] = Using[t] /\ UNCHANGED <<seen, due>> /\ ~Publish(t)
    BY <1>4 DEF GetEntry, Return, Called, Using, Loading, Publish
  <2> QED  BY <2>1, HiddenCall
<1>5. CASE Load(t) \/ Initialize(t) \/ Install(t) \/ Discard(t) \/ Write(t)
  <2>1. Loading(t) /\ Loading(t)' /\ id'[t] = id[t] /\ UNCHANGED <<seen, due>> /\ ~Publish(t)
    BY <1>5 DEF Load, Initialize, Install, Discard, Write, Loading, Publish
  <2>2. Using'[t] = Using[t] /\ Yielded' = Yielded  BY <2>1 DEF Using, Yielded
  <2>3. Called'[t] = Called[t] \/ (Called[t] = "load_or" /\ Called'[t] = "secured")
    <3>1. pc[t] \in {"load", "init", "cas", "entry", "publish"}
          /\ pc'[t] \in {"load", "init", "cas", "entry", "publish"}
          /\ (pc[t] \in {"cas", "entry", "publish"} => pc'[t] \in {"cas", "entry", "publish"})
      BY <1>5 DEF Load, Initialize, Install, Discard, Write
    <3>2. pc[t] \in {"load", "init"} => Called[t] = "load_or"  BY DEF Called
    <3>3. pc'[t] \in {"load", "init"} => Called'[t] = "load_or"  BY DEF Called
    <3>4. pc[t] \in {"cas", "entry", "publish"} => Called[t] = "secured"  BY DEF Called
    <3>5. pc'[t] \in {"cas", "entry", "publish"} => Called'[t] = "secured"  BY DEF Called
    <3> QED  BY <3>1, <3>2, <3>3, <3>4, <3>5
  <2>4. CASE Called[t] = "load_or" /\ Called'[t] = "secured"
    <3>1. Using' = Using /\ Present' = Present  BY <2>1, <2>2, SeenStep, QuietStep
    <3>2. Table!Secured(t)  BY <1>0, <2>1, <2>2, <2>4, <3>1 DEF Table!Secured
    <3> QED  BY <3>2 DEF Table!Next
  <2> QED  BY <2>1, <2>2, <2>3, <2>4, HiddenCall
<1> QED  BY <1>1, <1>2, <1>3, <1>4, <1>5, <1>6 DEF Lookup, Table!Next

\* An iterator yields what is there and was not yielded before, and ends when it
\* has yielded all it owed.
LEMMA IterateSeen ==
  ASSUME TableInv, SlotInv, NEW t \in Threads, Iterate(t)
  PROVE  Table!Next \/ UNCHANGED Table!vars
<1> USE DEF TableInv, TypeOK, tableVars, iterVars
<1>0. /\ Called' = [Called EXCEPT ![t] = Called'[t]]
      /\ Yielded' = [Yielded EXCEPT ![t] = Yielded'[t]] /\ UNCHANGED phase
      /\ ~Publish(t) /\ Present' = Present
  <2>1. ~Publish(t)  BY DEF Iterate, IterStart, IterSkip, IterEntry, IterEnd, IterDrop, Publish
  <2> QED  BY <2>1, SeenStep, QuietStep
<1>1. Using' = Using
  <2>1. Using'[t] = Using[t]
    BY DEF Iterate, IterStart, IterSkip, IterEntry, IterEnd, IterDrop, Using, Loading
  <2> QED  BY <2>1, SeenStep
<1>2. ASSUME IterStart(t) PROVE Table!Iter(t)
  <2>1. Called[t] = "idle" /\ Called'[t] = "iter" /\ phase = "ready" /\ Yielded' = Yielded
        /\ due' = [due EXCEPT ![t] = Present]
    BY <1>2 DEF IterStart, Called, Loading, Yielded
  <2> QED  BY <1>0, <1>1, <2>1 DEF Table!Iter
<1>3. CASE IterSkip(t)
  <2>1. Called'[t] = Called[t] /\ UNCHANGED <<seen, due>>  BY <1>3 DEF IterSkip, Called, Loading
  <2> QED  BY <1>0, <1>1, <2>1, HiddenCall
<1>4. CASE IterEntry(t)
  <2> DEFINE y == <<at[t][1], at[t][2]>>
  <2>1. /\ pc[t] = "iter" /\ pc'[t] = "iter" /\ UNCHANGED due /\ Passed(t)
        /\ at[t][1] \in Bs /\ buckets[at[t][1]] # NULL /\ at[t] = y
    BY <1>4, Sizes DEF IterEntry, IterInv, Bs
  <2>2. Called[t] = "iter" /\ Called'[t] = "iter" /\ Called' = Called
    BY <1>0, <2>1 DEF Called, Loading
  <2>3. CASE at[t][2] \in present[buckets[at[t][1]]]
    <3>1. y \in Present  BY <2>1, <2>3 DEF Present, Places, Bs
    <3>2. seen[t] \in Seq(Places) /\ y \in Places /\ seen'[t] = Append(seen[t], y)
      BY <1>4, <2>3, <3>1 DEF IterEntry, Present
    <3>3. ~Before(y, at[t])  BY <2>1 DEF Before
    <3>4. y \notin Yielded[t]
      <4>1. \A i \in 1 .. Len(seen[t]) : Before(seen[t][i], at[t])  BY <2>1 DEF Passed
      <4>2. \A i \in 1 .. Len(seen[t]) : seen[t][i] # y  BY <3>3, <4>1
      <4> QED  BY <4>2, YieldedHas
    <3> HIDE DEF y
    <3>5. Yielded'[t] = Yielded[t] \cup {y}
      <4>1. Len(seen'[t]) = Len(seen[t]) + 1 /\ seen'[t][Len(seen[t]) + 1] = y /\ Len(seen[t]) \in Nat
            /\ \A i \in 1 .. Len(seen[t]) : seen'[t][i] = seen[t][i]
        BY <3>2
      <4>2. 1 .. Len(seen'[t]) = (1 .. Len(seen[t])) \cup {Len(seen[t]) + 1}  BY <4>1
      <4>3. Yielded'[t] = {seen'[t][i] : i \in 1 .. Len(seen'[t])}
            /\ Yielded[t] = {seen[t][i] : i \in 1 .. Len(seen[t])}
        BY DEF Yielded
      <4>4. \A x : x \in Yielded'[t] <=> (\E i \in 1 .. Len(seen[t]) : seen[t][i] = x) \/ x = y
        BY <4>1, <4>2, <4>3
      <4>5. \A x : x \in Yielded[t] <=> \E i \in 1 .. Len(seen[t]) : seen[t][i] = x  BY YieldedHas
      <4>6. \A x : x \in Yielded'[t] <=> x \in Yielded[t] \cup {y}  BY <4>4, <4>5
      <4> HIDE DEF TableInv, TypeOK, tableVars, iterVars
      <4> QED  BY <4>6
    <3>6. Table!Yield(t)  BY <1>0, <1>1, <2>1, <2>2, <3>1, <3>4, <3>5 DEF Table!Yield
    <3> QED  BY <3>6 DEF Table!Next
  <2>4. CASE at[t][2] \notin present[buckets[at[t][1]]]
    <3>1. UNCHANGED seen  BY <1>4, <2>4 DEF IterEntry
    <3> QED  BY <1>0, <1>1, <2>1, <2>2, <3>1, HiddenCall
  <2> QED  BY <2>3, <2>4
<1>5. ASSUME IterEnd(t) PROVE Table!Finish(t)
  <2>1. pc[t] = "iter" /\ pc'[t] = "done" /\ UNCHANGED <<due, seen>> /\ Passed(t) /\ at[t][1] = BUCKETS
    BY <1>5 DEF IterEnd, IterInv
  <2>2. \A p \in Places : Before(p, at[t])  BY <2>1, Sizes DEF Places, Before
  <2>3. due[t] \subseteq Yielded[t]  BY <2>1, <2>2, YieldedHas DEF Passed
  <2>4. Called[t] = "iter" /\ Called'[t] = "done" /\ Yielded' = Yielded
    BY <2>1 DEF Called, Loading, Yielded
  <2> QED  BY <1>0, <1>1, <2>1, <2>3, <2>4 DEF Table!Finish
<1>6. ASSUME IterDrop(t) PROVE Table!Close(t)
  <2>1. Called[t] = "done" /\ Called'[t] = "idle" /\ due' = [due EXCEPT ![t] = {}] /\ seen'[t] = <<>>
    BY <1>6 DEF IterDrop, Called, Loading
  <2>2. Yielded'[t] = {}  BY <2>1 DEF Yielded
  <2> QED  BY <1>0, <1>1, <2>1, <2>2 DEF Table!Close
<1> QED  BY <1>2, <1>3, <1>4, <1>5, <1>6 DEF Iterate, Table!Next

\* The constructor and the destructor.
LEMMA OwnerSeen ==
  ASSUME TableInv, SlotInv, Build \/ BuildErr \/ Drop
  PROVE  Table!Next \/ UNCHANGED Table!vars
<1>1. UNCHANGED <<due, Called, Using, Yielded>>
  BY DEF Build, BuildErr, Drop, iterVars, Called, Using, Yielded, Loading
<1>2. CASE Build
  <2>1. phase = "building" /\ phase' \in {"ready", "building"} /\ Present' = Present
    BY <1>2, BuildEmpty DEF Build
  <2> QED  BY <1>1, <2>1 DEF Table!Next, Table!New, Table!vars
<1>3. CASE BuildErr
  <2>1. phase = "building" /\ phase' = "failed" /\ Present = {} /\ Present' = {}
    BY <1>3, ClearEmpty DEF BuildErr, SlotInv
  <2> QED  BY <1>1, <2>1 DEF Table!Next, Table!New
<1>4. CASE Drop
  <2>1. phase = "ready" /\ phase' = "dropped" /\ Present' = {}  BY <1>4, ClearEmpty DEF Drop
  <2>2. \A t \in Threads : Called[t] = "idle"  BY <1>4 DEF Drop, Called, Loading
  <2> QED  BY <1>1, <2>1, <2>2 DEF Table!Next, Table!Drop
<1> QED  BY <1>2, <1>3, <1>4

\* A new table is the abstract one.
LEMMA InitSeen == Init => Table!Init
<1> SUFFICES ASSUME Init PROVE Table!Init  OBVIOUS
<1>1. Present = {}  BY DEF Init, Present, Places
<1>2. Called = [t \in Threads |-> "idle"] /\ Using = [t \in Threads |-> NULL]
  BY DEF Init, Called, Using, Loading
<1>3. Yielded = [t \in Threads |-> {}]  BY DEF Init, Yielded
<1> QED  BY <1>1, <1>2, <1>3 DEF Init, Table!Init

\* Every step is one that SlotTable allows.
LEMMA NextSeen == TableInv /\ SlotInv /\ [Next]_vars => [Table!Next]_(Table!vars)
<1> SUFFICES ASSUME TableInv, SlotInv, [Next]_vars PROVE Table!Next \/ UNCHANGED Table!vars
  OBVIOUS
<1>1. CASE UNCHANGED vars
  <2>1. Present' = Present  BY <1>1, PresentSame DEF vars, tableVars
  <2> QED  BY <1>1, <2>1 DEF vars, tableVars, iterVars, Table!vars, Called, Using, Yielded, Loading
<1> QED  BY <1>1, OwnerSeen, LookupSeen, IterateSeen DEF Next

\* ThreadLocal, with buckets that threads race to allocate and flags that they set
\* in them, implements a set of slots: each is added once, by its user, and stays
\* while the table lives; load_or fails only for a slot that is not there; an
\* iterator yields what was there when it started, and nothing twice.
THEOREM TableImplementation == Spec => ImplementsTable
BY InitSeen, NextSeen, TableInvariant, SlotInvariant, PTL DEF Spec, ImplementsTable, Table!Spec
=============================================================================
