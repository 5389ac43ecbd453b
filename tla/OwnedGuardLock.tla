--------------------------- MODULE OwnedGuardLock ---------------------------
(***************************************************************************)
(* An OwnedGuard shared by several threads (src/src/guard.rs).  Its         *)
(* reserve_retire, defer_retire and flush work on the local batch of its    *)
(* slot (src/src/raw/collector.rs) with the lock of the reservation held;   *)
(* refresh and drop need the only reference to the guard.                   *)
(*                                                                          *)
(* Here a batch is its entries and the capacity of their Vec, and any       *)
(* allocation may fail.  What try_retire does with a batch it can publish   *)
(* is the subject of Hyaline: the slot of a live OwnedGuard is active, so   *)
(* that a batch is published with at least one entry, and is not reclaimed  *)
(* by the caller (NoReclaimUnderGuard).                                     *)
(*                                                                          *)
(* The slot is one no sweep has marked: the branches of add and reserve for *)
(* LocalBatch::DROP are left out.  Outside a sweep no reclaimer runs under  *)
(* the lock.  On a slot that reclaim_all or the drop of the collector has   *)
(* marked, add calls the reclaimer with the lock held; ReclaimAll has that  *)
(* branch (AddDrop), without the lock.                                      *)
(***************************************************************************)
EXTENDS Integers, Sequences, FiniteSets

CONSTANTS Threads,    \* the threads that share the guard
          Objects,    \* objects to retire
          BatchSize,  \* Collector::batch_size
          NULL        \* the null pointer, and no thread

ASSUME BatchAssumption == BatchSize \in Nat

Ops == {"reserve", "retire", "flush"}

\* NULL is no thread, object, call or batch.
ASSUME NullAssumption == NULL \notin Threads \cup Objects \cup Ops \cup [entries : Seq(Objects), cap : Nat]

VARIABLES
  live,       \* the OwnedGuard exists
  lock,       \* the thread that holds Reservation::lock, or NULL
  batch,      \* the local batch of the slot: its entries and capacity, or NULL
  published,  \* the batches that have left the slot, oldest first
  pc,         \* where each thread is
  op,         \* the call each thread is in
  arg,        \* the object it retires
  retired,    \* history: the objects whose defer_retire has pushed an entry
  promise,    \* history: the threads whose reserve_retire returned Ok and that
              \* have not called defer_retire, flush or refresh since
  spent       \* history: those among them whose room another thread has taken,
              \* by pushing an entry or publishing the batch

callVars == <<pc, op, arg>>
promiseVars == <<promise, spent>>
vars == <<live, lock, batch, published, callVars, retired, promiseVars>>

\* The guard, its batch and the calls of the threads.
TypeOK ==
  /\ live \in BOOLEAN
  /\ lock \in Threads \cup {NULL}
  /\ batch = NULL \/ (Len(batch.entries) <= batch.cap /\ batch.entries \in Seq(Objects))
  /\ published \in Seq(Seq(Objects))
  /\ pc \in [Threads -> {"idle", "lock", "init", "new", "grow", "push", "publish", "unlock"}]
  /\ op \in [Threads -> Ops \cup {NULL}]
  /\ arg \in [Threads -> Objects \cup {NULL}]
  /\ retired \in SUBSET Objects
  /\ promise \in SUBSET Threads
  /\ spent \in SUBSET promise

Init ==
  /\ live = TRUE
  /\ lock = NULL
  /\ batch = NULL
  /\ published = <<>>
  /\ pc = [t \in Threads |-> "idle"]
  /\ op = [t \in Threads |-> NULL]
  /\ arg = [t \in Threads |-> NULL]
  /\ retired = {}
  /\ promise = {}
  /\ spent = {}

Goto(t, l) == pc' = [pc EXCEPT ![t] = l] /\ UNCHANGED <<op, arg>>

\* A call of thread t ends the guarantee of its own reserve_retire.
EndPromise(t) == promise' = promise \ {t} /\ spent' = spent \ {t}

\* So does one that takes the room in the batch, which the other threads lose.
SpendPromises(t) == promise' = promise \ {t} /\ spent' = promise \ {t}

-----------------------------------------------------------------------------
(* The calls through a shared reference. *)

Call(t, o, x) ==
  /\ live
  /\ pc[t] = "idle"
  /\ pc' = [pc EXCEPT ![t] = "lock"]
  /\ op' = [op EXCEPT ![t] = o]
  /\ arg' = [arg EXCEPT ![t] = x]
  /\ UNCHANGED <<live, lock, batch, published, retired>>

\* OwnedGuard::reserve_retire.
ReserveRetire(t) == Call(t, "reserve", NULL) /\ UNCHANGED promiseVars

\* OwnedGuard::defer_retire of an object that is not retired yet.
DeferRetire(t, o) ==
  /\ o \notin retired /\ \A u \in Threads : arg[u] # o
  /\ Call(t, "retire", o)
  /\ UNCHANGED promiseVars

\* OwnedGuard::flush, which ends the guarantee for the calling thread.
Flush(t) == Call(t, "flush", NULL) /\ EndPromise(t)

\* Mutant: the calls do not take the lock.
LockNothing(t) ==
  /\ pc[t] = "lock"
  /\ Goto(t, IF op[t] = "flush" THEN "publish" ELSE "init")
  /\ UNCHANGED <<live, lock, batch, published, retired, promiseVars>>

\* reservation.lock.lock(), and then Collector::reserve, add or try_retire_batch.
Lock(t) ==
  /\ pc[t] = "lock"
  /\ lock = NULL
  /\ lock' = t
  /\ Goto(t, IF op[t] = "flush" THEN "publish" ELSE "init")
  /\ UNCHANGED <<live, batch, published, retired, promiseVars>>

\* LocalBatch::get_or_init: is there a batch?
GetOrInit(t) ==
  /\ pc[t] = "init"
  /\ Goto(t, IF batch = NULL THEN "new" ELSE "grow")
  /\ UNCHANGED <<live, lock, batch, published, retired, promiseVars>>

\* get_or_init: Batch::new, with room for a full batch.
New(t) ==
  /\ pc[t] = "new"
  /\ batch' = [entries |-> <<>>, cap |-> BatchSize]
  /\ Goto(t, "grow")
  /\ UNCHANGED <<live, lock, published, retired, promiseVars>>

\* What follows in reserve, and in add, once there is room for an entry.
Room(t) ==
  IF op[t] = "retire"
  THEN Goto(t, "push") /\ UNCHANGED promiseVars
  ELSE Goto(t, "unlock") /\ promise' = promise \cup {t} /\ spent' = spent \ {t}

\* Mutant: reserve and add take a batch for room in it.
GrowNever(t) ==
  /\ pc[t] = "grow"
  /\ Room(t)
  /\ UNCHANGED <<live, lock, batch, published, retired>>

\* entries.try_reserve(1): nothing to do, or a larger allocation.
Grow(t) ==
  /\ pc[t] = "grow"
  /\ batch' = IF Len(batch.entries) = batch.cap THEN [batch EXCEPT !.cap = @ + 1] ELSE batch
  /\ Room(t)
  /\ UNCHANGED <<live, lock, published, retired>>

\* The allocator is asked for memory: for a new batch, or for a larger Vec.
Allocates(t) ==
  \/ pc[t] = "new"
  \/ pc[t] = "grow" /\ Len(batch.entries) = batch.cap

\* It has none: the error is returned, and the object is not retired.
AllocError(t) ==
  /\ Allocates(t)
  /\ Goto(t, "unlock")
  /\ IF op[t] = "retire" THEN EndPromise(t) ELSE UNCHANGED promiseVars
  /\ UNCHANGED <<live, lock, batch, published, retired>>

\* add: the entry is pushed.  The batch is retired if it is large enough.
Push(t) ==
  /\ pc[t] = "push"
  /\ batch' = [batch EXCEPT !.entries = Append(@, arg[t])]
  /\ retired' = retired \cup {arg[t]}
  /\ SpendPromises(t)
  /\ Goto(t, IF Len(batch.entries) + 1 >= BatchSize THEN "publish" ELSE "unlock")
  /\ UNCHANGED <<live, lock, published>>

\* Mutant: the batch is published and stays with the slot.
PublishKeep(t) ==
  /\ pc[t] = "publish"
  /\ batch # NULL
  /\ batch.entries # <<>>
  /\ published' = Append(published, batch.entries)
  /\ SpendPromises(t)
  /\ Goto(t, "unlock")
  /\ UNCHANGED <<live, lock, batch, retired>>

\* try_retire: the batch has an entry for every active slot.
Publish(t) ==
  /\ pc[t] = "publish"
  /\ batch # NULL
  /\ batch.entries # <<>>
  /\ published' = Append(published, batch.entries)
  /\ batch' = NULL
  /\ SpendPromises(t)
  /\ Goto(t, "unlock")
  /\ UNCHANGED <<live, lock, retired>>

\* try_retire: there is no batch, or too few entries.
KeepLocal(t) ==
  /\ pc[t] = "publish"
  /\ Goto(t, "unlock")
  /\ UNCHANGED <<live, lock, batch, published, retired, promiseVars>>

\* The lock guard is dropped, and the call returns.
Unlock(t) ==
  /\ pc[t] = "unlock"
  /\ lock' = NULL
  /\ pc' = [pc EXCEPT ![t] = "idle"]
  /\ op' = [op EXCEPT ![t] = NULL]
  /\ arg' = [arg EXCEPT ![t] = NULL]
  /\ UNCHANGED <<live, batch, published, retired, promiseVars>>

-----------------------------------------------------------------------------
(* The calls that need the only reference to the guard. *)

Unshared == \A t \in Threads : pc[t] = "idle"

\* OwnedGuard::refresh.  Reservations are void after it.
Refresh ==
  /\ live
  /\ Unshared
  /\ promise # {}
  /\ promise' = {} /\ spent' = {}
  /\ UNCHANGED <<live, lock, batch, published, callVars, retired>>

\* Drop for OwnedGuard: the slot is left and freed, its local batch stays.
Drop ==
  /\ live
  /\ Unshared
  /\ live' = FALSE
  /\ promise' = {} /\ spent' = {}
  /\ UNCHANGED <<lock, batch, published, callVars, retired>>

\* OwnedGuard::enter, on the same slot.
Enter ==
  /\ ~live
  /\ live' = TRUE
  /\ UNCHANGED <<lock, batch, published, callVars, retired, promiseVars>>

-----------------------------------------------------------------------------
ThreadStep(t) ==
  \/ ReserveRetire(t) \/ Flush(t) \/ \E o \in Objects : DeferRetire(t, o)
  \/ Lock(t) \/ GetOrInit(t) \/ New(t) \/ Grow(t) \/ AllocError(t) \/ Push(t)
  \/ Publish(t) \/ KeepLocal(t) \/ Unlock(t)

Next == Refresh \/ Drop \/ Enter \/ \E t \in Threads : ThreadStep(t)

Spec == Init /\ [][Next]_vars

-----------------------------------------------------------------------------
(* Properties. *)

\* Where an object is: in the local batch, and in published batches.
Copies(o) ==
  LET In(q) == {i \in 1 .. Len(q) : q[i] = o}
  IN  (IF batch = NULL THEN {} ELSE {<<0, i>> : i \in In(batch.entries)})
        \cup UNION {{<<k, i>> : i \in In(published[k])} : k \in 1 .. Len(published)}

\* Calls of several threads on one guard lose no retirement and duplicate none: an
\* object whose defer_retire has pushed it is in one entry of one batch.
RetiredOnce ==
  \A o \in Objects : Cardinality(Copies(o)) = IF o \in retired THEN 1 ELSE 0

\* No access to the batch is out of bounds or through a null pointer: whoever is
\* about to push has a batch with room, whatever the other threads called.
PushHasRoom ==
  \A t \in Threads :
    /\ pc[t] \in {"grow", "push"} => batch # NULL
    /\ pc[t] = "push" => Len(batch.entries) < batch.cap

\* The guarantee of Guard::reserve_retire: after it returned Ok, the next
\* defer_retire of the thread does not allocate, and so cannot fail, as long as
\* "on the current thread" there was no other retirement, flush or refresh.
ReservedCannotFail ==
  \A t \in Threads : op[t] = "retire" /\ t \in promise => ~Allocates(t)

\* What the code keeps of it on a shared guard: the defer_retire does not allocate
\* unless another thread has pushed an entry or published the batch since; it is
\* not enough that others reserved, flushed in vain or failed to allocate.
ReservedUnlessSpent ==
  \A t \in Threads : op[t] = "retire" /\ t \in promise \ spent => ~Allocates(t)
=============================================================================
