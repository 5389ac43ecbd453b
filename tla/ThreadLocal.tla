---------------------------- MODULE ThreadLocal ----------------------------
(***************************************************************************)
(* The per-collector tables of src/src/raw/tls/mod.rs: a ThreadLocal is an  *)
(* array of buckets, allocated when a thread first needs them, whose entries *)
(* are initialised by the thread that owns the slot and read by iterators    *)
(* of all threads.                                                          *)
(*                                                                          *)
(* A slot has one user at a time: that is the safety condition of load_or,   *)
(* and UniqueIds of ThreadSlots.  Users come and go, a slot stays.  get and  *)
(* a load_or of an initialised entry only read, and are stuttering steps.   *)
(***************************************************************************)
EXTENDS ThreadIndex, Sequences

CONSTANTS Threads,   \* threads that use the table
          Ids,       \* the thread ids in use
          Ptrs,      \* addresses a bucket can be allocated at
          Capacities, \* the capacities the constructor may be asked for
          NULL       \* the null pointer

ASSUME TableAssumption == Ids \subseteq 0 .. MAX_INDEX /\ Capacities \subseteq 0 .. MAX_INDEX
ASSUME PtrAssumption == NULL \notin Ptrs

VARIABLES
  init,     \* the last bucket that the constructor allocates
  phase,    \* "building", "ready", "failed" (construction) or "dropped"
  buckets,  \* ThreadLocal::buckets
  heap,     \* the buckets that are allocated
  value,    \* the entries of each bucket whose value is written
  present,  \* the entries of each bucket with Entry::present set
  pc,       \* where each thread is
  id,       \* the slot of the thread
  ptr,      \* `bucket_ptr` of load_or, and the new bucket in initialize
  at,       \* Iter: bucket and index
  seen,     \* history: the places the iterator has yielded
  due       \* history: the places initialised when the iterator started

tableVars == <<init, phase, buckets, heap, value, present>>
iterVars == <<at, seen, due>>
vars == <<tableVars, pc, id, ptr, iterVars>>

Places == (0 .. BUCKETS - 1) \X (0 .. BucketCapacity(BUCKETS - 1) - 1)
Entries == SUBSET (0 .. BucketCapacity(BUCKETS - 1) - 1)

\* The table, the local variables of its users and the positions of iterators.
TypeOK ==
  /\ init \in 0 .. BUCKETS - 1
  /\ phase \in {"building", "ready", "failed", "dropped"}
  /\ buckets \in [0 .. BUCKETS - 1 -> Ptrs \cup {NULL}]
  /\ heap \in SUBSET Ptrs
  /\ value \in [Ptrs -> Entries]
  /\ present \in [Ptrs -> Entries]
  /\ pc \in [Threads -> {"idle", "load", "init", "cas", "entry", "publish", "get", "iter", "done"}]
  /\ id \in [Threads -> Ids \cup {NULL}]
  /\ ptr \in [Threads -> Ptrs \cup {NULL}]
  /\ at \in [Threads -> (0 .. BUCKETS) \X (0 .. BucketCapacity(BUCKETS - 1) - 1)]
  /\ seen \in [Threads -> Seq(Places)]
  /\ due \in [Threads -> SUBSET Places]

\* `init` of with_capacity_in: enough buckets for so many elements.
InitBucket(capacity) == IF capacity = 0 THEN 0 ELSE New(capacity).bucket

Init ==
  /\ init \in {InitBucket(c) : c \in Capacities}
  /\ phase = "building"
  /\ buckets = [b \in 0 .. BUCKETS - 1 |-> NULL]
  /\ heap = {}
  /\ value = [p \in Ptrs |-> {}]
  /\ present = [p \in Ptrs |-> {}]
  /\ pc = [t \in Threads |-> "idle"]
  /\ id = [t \in Threads |-> NULL]
  /\ ptr = [t \in Threads |-> NULL]
  /\ at = [t \in Threads |-> <<0, 0>>]
  /\ seen = [t \in Threads |-> <<>>]
  /\ due = [t \in Threads |-> {}]

-----------------------------------------------------------------------------
(* Buckets *)

\* allocate_bucket: a bucket none of whose entries is present.
AllocateBucket(p) ==
  /\ p \in Ptrs \ heap
  /\ heap' = heap \cup {p}
  /\ value' = [value EXCEPT ![p] = {}]
  /\ present' = [present EXCEPT ![p] = {}]

\* free_bucket of a set of buckets.
FreeBuckets(ps) == heap' = heap \ ps /\ UNCHANGED <<value, present>>

Installed == {buckets[b] : b \in 0 .. BUCKETS - 1} \ {NULL}

\* with_capacity_in allocates its next bucket.
Build ==
  /\ phase = "building"
  /\ \E b \in 0 .. init :
       /\ buckets[b] = NULL /\ \A c \in 0 .. b - 1 : buckets[c] # NULL
       /\ \E p \in Ptrs :
            /\ AllocateBucket(p)
            /\ buckets' = [buckets EXCEPT ![b] = p]
       /\ phase' = IF b = init THEN "ready" ELSE "building"
  /\ UNCHANGED <<init, pc, id, ptr, iterVars>>

\* with_capacity_in runs out of memory: the buckets allocated so far are freed.
BuildErr ==
  /\ phase = "building"
  /\ phase' = "failed"
  /\ FreeBuckets(Installed)
  /\ buckets' = [b \in 0 .. BUCKETS - 1 |-> NULL]
  /\ UNCHANGED <<init, pc, id, ptr, iterVars>>

-----------------------------------------------------------------------------
(* load_or, by the user of a slot *)

\* A thread calls load_or with an id that no other thread uses.
Begin(t, i) ==
  /\ phase = "ready"
  /\ pc[t] = "idle"
  /\ \A u \in Threads : id[u] # i
  /\ pc' = [pc EXCEPT ![t] = "load"]
  /\ id' = [id EXCEPT ![t] = i]
  /\ UNCHANGED <<tableVars, ptr, iterVars>>

\* The Acquire load of the bucket pointer.
Load(t) ==
  LET p == buckets[New(id[t]).bucket] IN
  /\ pc[t] = "load"
  /\ ptr' = [ptr EXCEPT ![t] = p]
  /\ pc' = [pc EXCEPT ![t] = IF p = NULL THEN "init" ELSE "entry"]
  /\ UNCHANGED <<tableVars, id, iterVars>>

\* Return to the caller: with the reference, or with an error.
Return(t) ==
  /\ pc' = [pc EXCEPT ![t] = "idle"]
  /\ id' = [id EXCEPT ![t] = NULL]
  /\ ptr' = [ptr EXCEPT ![t] = NULL]

\* initialize allocates a bucket.
Initialize(t) ==
  /\ pc[t] = "init"
  /\ \E p \in Ptrs : AllocateBucket(p) /\ ptr' = [ptr EXCEPT ![t] = p]
  /\ pc' = [pc EXCEPT ![t] = "cas"]
  /\ UNCHANGED <<init, phase, buckets, id, iterVars>>

\* initialize cannot allocate.
InitializeErr(t) ==
  /\ pc[t] = "init"
  /\ Return(t)
  /\ UNCHANGED <<tableVars, iterVars>>

\* Mutant: the new bucket is stored, whatever is there.
InstallAlways(t) ==
  /\ pc[t] = "cas"
  /\ buckets' = [buckets EXCEPT ![New(id[t]).bucket] = ptr[t]]
  /\ pc' = [pc EXCEPT ![t] = "entry"]
  /\ UNCHANGED <<init, phase, heap, value, present, id, ptr, iterVars>>

\* The compare_exchange of initialize wins.
Install(t) ==
  /\ pc[t] = "cas"
  /\ buckets[New(id[t]).bucket] = NULL
  /\ buckets' = [buckets EXCEPT ![New(id[t]).bucket] = ptr[t]]
  /\ pc' = [pc EXCEPT ![t] = "entry"]
  /\ UNCHANGED <<init, phase, heap, value, present, id, ptr, iterVars>>

\* Mutant: the bucket that lost the race is not freed.
DiscardLeak(t) ==
  /\ pc[t] = "cas"
  /\ buckets[New(id[t]).bucket] # NULL
  /\ ptr' = [ptr EXCEPT ![t] = buckets[New(id[t]).bucket]]
  /\ pc' = [pc EXCEPT ![t] = "entry"]
  /\ UNCHANGED <<tableVars, id, iterVars>>

\* Mutant: the thread that lost the race goes on with its own bucket.
DiscardOwn(t) ==
  /\ pc[t] = "cas"
  /\ buckets[New(id[t]).bucket] # NULL
  /\ pc' = [pc EXCEPT ![t] = "entry"]
  /\ UNCHANGED <<tableVars, id, ptr, iterVars>>

\* The compare_exchange loses: the new bucket is freed for the one it found.
Discard(t) ==
  /\ pc[t] = "cas"
  /\ buckets[New(id[t]).bucket] # NULL
  /\ FreeBuckets({ptr[t]})
  /\ ptr' = [ptr EXCEPT ![t] = buckets[New(id[t]).bucket]]
  /\ pc' = [pc EXCEPT ![t] = "entry"]
  /\ UNCHANGED <<init, phase, buckets, id, iterVars>>

\* Mutant: the flag is set before the value is written.
WriteLate(t) ==
  /\ pc[t] = "entry"
  /\ New(id[t]).entry \notin present[ptr[t]]
  /\ present' = [present EXCEPT ![ptr[t]] = @ \cup {New(id[t]).entry}]
  /\ pc' = [pc EXCEPT ![t] = "publish"]
  /\ UNCHANGED <<init, phase, buckets, heap, value, id, ptr, iterVars>>

\* write: the value of an entry that is not present.
Write(t) ==
  /\ pc[t] = "entry"
  /\ New(id[t]).entry \notin present[ptr[t]]
  /\ value' = [value EXCEPT ![ptr[t]] = @ \cup {New(id[t]).entry}]
  /\ pc' = [pc EXCEPT ![t] = "publish"]
  /\ UNCHANGED <<init, phase, buckets, heap, present, id, ptr, iterVars>>

\* load_or finds the entry present.
Found(t) ==
  /\ pc[t] = "entry"
  /\ New(id[t]).entry \in present[ptr[t]]
  /\ Return(t)
  /\ UNCHANGED <<tableVars, iterVars>>

\* write: the Release store of the flag, and the fence after it.
Publish(t) ==
  /\ pc[t] = "publish"
  /\ present' = [present EXCEPT ![ptr[t]] = @ \cup {New(id[t]).entry}]
  /\ Return(t)
  /\ UNCHANGED <<init, phase, buckets, heap, value, iterVars>>

-----------------------------------------------------------------------------
(* get, by the user of a slot *)

\* ThreadLocal::get, and its Acquire load of the bucket pointer.
Get(t, i) ==
  LET p == buckets[New(i).bucket] IN
  /\ phase = "ready"
  /\ pc[t] = "idle"
  /\ \A u \in Threads : id[u] # i
  /\ p # NULL      \* otherwise None is returned
  /\ pc' = [pc EXCEPT ![t] = "get"]
  /\ id' = [id EXCEPT ![t] = i]
  /\ ptr' = [ptr EXCEPT ![t] = p]
  /\ UNCHANGED <<tableVars, iterVars>>

\* The flag of the entry is loaded, and the value or None is returned.
GetEntry(t) ==
  /\ pc[t] = "get"
  /\ Return(t)
  /\ UNCHANGED <<tableVars, iterVars>>

-----------------------------------------------------------------------------
(* Iteration *)

\* The places of the entries that are initialised.
Present == {p \in Places : buckets[p[1]] # NULL /\ p[2] \in present[buckets[p[1]]]}

\* ThreadLocal::iter.
IterStart(t) ==
  /\ phase = "ready"
  /\ pc[t] = "idle"
  /\ pc' = [pc EXCEPT ![t] = "iter"]
  /\ at' = [at EXCEPT ![t] = <<0, 0>>]
  /\ due' = [due EXCEPT ![t] = Present]
  /\ UNCHANGED <<tableVars, id, ptr, seen>>

\* Mutant: a bucket that is not allocated ends the iteration.
IterSkipStop(t) ==
  LET b == at[t][1] IN
  /\ pc[t] = "iter"
  /\ b < BUCKETS
  /\ buckets[b] = NULL
  /\ at' = [at EXCEPT ![t] = <<BUCKETS, 0>>]
  /\ UNCHANGED <<tableVars, pc, id, ptr, seen, due>>

\* Iter::next: the bucket is not allocated.
IterSkip(t) ==
  LET b == at[t][1] IN
  /\ pc[t] = "iter"
  /\ b < BUCKETS
  /\ buckets[b] = NULL
  /\ at' = [at EXCEPT ![t] = <<b + 1, 0>>]
  /\ UNCHANGED <<tableVars, pc, id, ptr, seen, due>>

\* Mutant: the iterator does not move on to the next bucket.
IterEntryPast(t) ==
  LET b == at[t][1]
      e == at[t][2]
  IN
  /\ pc[t] = "iter"
  /\ b < BUCKETS
  /\ buckets[b] # NULL
  /\ at' = [at EXCEPT ![t] = <<b, e + 1>>]
  /\ seen' = [seen EXCEPT ![t] = IF e \in present[buckets[b]] THEN Append(@, <<b, e>>) ELSE @]
  /\ UNCHANGED <<tableVars, pc, id, ptr, due>>

\* Iter::next: one entry of the bucket, yielded if it is present.
IterEntry(t) ==
  LET b == at[t][1]
      e == at[t][2]
  IN
  /\ pc[t] = "iter"
  /\ b < BUCKETS
  /\ buckets[b] # NULL
  /\ at' = [at EXCEPT ![t] = IF e + 1 < BucketCapacity(b) THEN <<b, e + 1>> ELSE <<b + 1, 0>>]
  /\ seen' = [seen EXCEPT ![t] = IF e \in present[buckets[b]] THEN Append(@, <<b, e>>) ELSE @]
  /\ UNCHANGED <<tableVars, pc, id, ptr, due>>

\* Iter::next returns None.
IterEnd(t) ==
  /\ pc[t] = "iter"
  /\ at[t][1] = BUCKETS
  /\ pc' = [pc EXCEPT ![t] = "done"]
  /\ UNCHANGED <<tableVars, id, ptr, iterVars>>

\* The iterator is dropped.
IterDrop(t) ==
  /\ pc[t] = "done"
  /\ pc' = [pc EXCEPT ![t] = "idle"]
  /\ at' = [at EXCEPT ![t] = <<0, 0>>]
  /\ seen' = [seen EXCEPT ![t] = <<>>]
  /\ due' = [due EXCEPT ![t] = {}]
  /\ UNCHANGED <<tableVars, id, ptr>>

-----------------------------------------------------------------------------
\* Drop for ThreadLocal, through a unique reference: no user and no iterator.
Drop ==
  /\ phase = "ready"
  /\ \A t \in Threads : pc[t] = "idle"
  /\ phase' = "dropped"
  /\ FreeBuckets(Installed)
  /\ buckets' = [b \in 0 .. BUCKETS - 1 |-> NULL]
  /\ UNCHANGED <<init, pc, id, ptr, iterVars>>

Lookup(t) ==
  \/ \E i \in Ids : Begin(t, i) \/ Get(t, i)
  \/ Load(t) \/ Initialize(t) \/ InitializeErr(t) \/ Install(t) \/ Discard(t)
  \/ Write(t) \/ Found(t) \/ Publish(t) \/ GetEntry(t)

Iterate(t) == IterStart(t) \/ IterSkip(t) \/ IterEntry(t) \/ IterEnd(t) \/ IterDrop(t)

Next == Build \/ BuildErr \/ Drop \/ \E t \in Threads : Lookup(t) \/ Iterate(t)

Spec == Init /\ [][Next]_vars

-----------------------------------------------------------------------------
(* Properties *)

\* Thread::new lays out the ids in order, bucket after bucket: no two ids share
\* an entry, none is skipped and none is past the end of its bucket.  (A formula
\* of constants: once per table, while it is built, is often enough.)
InOrder == phase = "building" => Ordered

\* The last id that Thread::new accepts, MAX_INDEX, is the last entry of the last
\* bucket: the capacity of a ThreadLocal is usize::MAX - ZERO_ENTRY, as the
\* comment on MAX_INDEX says, and no access is out of bounds.
FillsLastBucket == phase = "building" => Filled

\* Every user of a slot works on the bucket that the table holds: the reference
\* load_or returns stays valid, however many threads race to allocate it.
OneBucket ==
  \A t \in Threads : pc[t] \in {"entry", "publish", "get"} =>
    ptr[t] = buckets[New(id[t]).bucket] /\ ptr[t] \in heap

\* The buckets in memory are those of the table and those on their way into it:
\* losing a race, an error and dropping the table leave none behind.
NoBucketLeak ==
  heap = Installed \cup {ptr[t] : t \in {u \in Threads : pc[u] = "cas"}}

\* Iterators and users of a slot dereference only values that are written, in
\* entries of buckets that are allocated.
ReadsInitialised ==
  \A t \in Threads :
    LET p == IF pc[t] = "iter" /\ at[t][1] < BUCKETS THEN buckets[at[t][1]]
             ELSE IF pc[t] \in {"entry", "get"} THEN ptr[t] ELSE NULL
    IN  p # NULL => p \in heap /\ present[p] \subseteq value[p]

\* An iterator yields every slot that was initialised when it started, and none
\* twice, whatever threads register meanwhile: try_retire misses no reservation.
IteratesAll ==
  \A t \in Threads : pc[t] = "done" =>
    /\ due[t] \subseteq {seen[t][i] : i \in 1 .. Len(seen[t])}
    /\ \A i, j \in 1 .. Len(seen[t]) : seen[t][i] = seen[t][j] => i = j

\* An entry that is initialised stays so, with the same value, as long as the
\* table lives: a reservation is never replaced under its user.
EntriesStay ==
  [][phase' = "ready" => /\ Present \subseteq Present'
                         /\ \A b \in 0 .. BUCKETS - 1 : buckets[b] # NULL =>
                              buckets'[b] = buckets[b]]_vars

\* What the users of the table see: the call a thread is in (get changes nothing),
\* the slot it has in load_or, and what its iterator has yielded.  A slot is the
\* place that Thread::new gives its id.
Loading(t) == pc[t] \in {"load", "init", "cas", "entry", "publish"}
Called ==
  [t \in Threads |-> CASE pc[t] \in {"load", "init"} -> "load_or"
                       [] pc[t] \in {"cas", "entry", "publish"} -> "secured"
                       [] pc[t] = "get" -> "idle"
                       [] OTHER -> pc[t]]
Using == [t \in Threads |-> IF Loading(t) THEN Place(id[t]) ELSE NULL]
Yielded == [t \in Threads |-> {seen[t][i] : i \in 1 .. Len(seen[t])}]

\* The table of buckets implements what load_or, iter and the constructor promise:
\* a slot is added once, by its user, and stays; load_or returns a value only once
\* the slot is there, and fails only when it is not; iterators miss nothing and
\* repeat nothing.
Table == INSTANCE SlotTable WITH
  Slots <- {Place(i) : i \in Ids}, there <- Present, call <- Called, user <- Using,
  owed <- due, got <- Yielded
ImplementsTable == Table!Spec
=============================================================================
