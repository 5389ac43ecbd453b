# seize in TLA+

`seize` reclaims the memory of lock-free data structures: an object that was
taken out of a shared structure is *retired*, and its reclaimer runs once no
thread can still hold a pointer to it. The algorithm is Hyaline: a retired batch
is linked into the list of every active thread, and its reference count is
settled when those threads leave. This project models the crate at the level of
its atomic accesses, checks the models with TLC on small instances, and proves
with TLAPS, for every value of the constants, the safety of all its parts: the
algorithm, `reclaim_all`, shared guards, the barriers, the tables and the recycling
of thread slots.

## The system

| Component | State | Operations | Interacts with |
|---|---|---|---|
| `raw/collector.rs` `Collector` | `Reservation` per slot (`head`, `guards`, `lock`), `LocalBatch` per slot, `Batch` (`entries`, `active`) | `enter`, `leave`, `refresh`, `add`, `reserve`, `try_retire`, `traverse`, `free_batch`, `reclaim_all`, `Drop` | the tables of `raw/tls`, the barriers; reclaimers are callbacks that may call back into it |
| `guard.rs` `LocalGuard`, `OwnedGuard` | the slot they work on | `enter`, `drop`, `protect`, `swap`, `compare_exchange`, `refresh`, `flush`, `reserve_retire`, `defer_retire` | thread ids and the collector; an `OwnedGuard` can be shared and takes the lock of its reservation |
| `raw/membarrier.rs` | `STRATEGY`; the page, mutex and `OnceLock` of the mprotect barrier | `light_store`, `light_barrier`, `heavy`, `detect` | orders `enter` with `try_retire`; system calls |
| `raw/tls/thread_id.rs` | `ThreadIdManager` behind a mutex; `THREAD`, `THREAD_GUARD` per thread | `alloc`, `free`, `current`, `create`, `Thread::new` | slots of guards; places in the tables |
| `raw/tls/mod.rs` `ThreadLocal` | an array of buckets of entries with a `present` flag | `with_capacity_in`, `load_or`, `get`, `iter`, `Drop` | holds the reservations and the local batches |
| `collector.rs`, `reclaim.rs` | none of their own | `enter`, `enter_owned`, `retire`, `reserve_retire`, `reclaim_all` | the raw collector |
| `alloc.rs`, `raw/utils.rs` | none | forwarding of allocations, cache padding | – |

What is hard in it: nearly everything happens between threads without a lock.
`enter` is a relaxed store that only a process-wide barrier of the *retiring*
thread makes visible. A retirement works on a snapshot of the active slots that
is stale when it links. Reference counts are decremented before they are
incremented and wrap below zero. Reclaimers run inside `leave`, `refresh` and
`retire`, and re-enter the collector. Slots are recycled between threads, in
thread destructors. `reclaim_all` runs reclaimers that retire into the batches it
is sweeping. Every allocation can fail. `PROJECT.json` lists these
hazards one by one, each at its line and with the properties that watch it.

What makes each part correct: no object is reclaimed while a guard protects it,
none twice, and each one eventually (collector); a slot has one owner, and it is
active exactly while it has a guard (guards, ids); a place in a table belongs to
one id, its bucket is allocated once, and an iterator misses no slot that was
there (tables); a heavy barrier makes visible every light store issued before it
(barriers).

## Modules

| Module | Models | Read with |
|---|---|---|
| `Reclamation` | what a collector promises its users: the abstract specification | `guard.rs`, `collector.rs` |
| `Sweeping` | what `reclaim_all` and `Drop` promise on top of it: the abstract specification of `ReclaimAll` | `collector.rs`, `guard.rs` |
| `SlotTable` | what a `ThreadLocal` promises its users: the abstract specification of `ThreadLocal` | `raw/tls/mod.rs` |
| `Hyaline` | the reclamation algorithm under guards and `Collector::retire`, with its clients, reclaimers and barriers | `raw/collector.rs`, `guard.rs`, `raw/membarrier.rs` |
| `HyalineInv` | its inductive invariant `IndInv`, in named parts, and the refinement mapping to `Reclamation` | – |
| `MCHyaline` | instances of `Hyaline` for TLC | – |
| `HyalineStructure` | proofs about `Hyaline`: facts on lists and stacks; types and control; ownership, reachability and reference counts | – |
| `HyalineGrace` | on top of it: the grace period, and that nothing is lost; also of the two steps that only `reclaim_all` takes | – |
| `HyalineEntries` | on top of that: the entries of a batch, all of `IndInv`, and the refinement of `Reclamation` | – |
| `ReclaimAll`, `MCReclaimAll`, `ReclaimAllProofs` | `reclaim_all` and `Drop` of a collector, composed with `Hyaline` | `raw/collector.rs` |
| `OwnedGuardLock`, `MCOwnedGuardLock`, `OwnedGuardLockProofs` | an `OwnedGuard` shared by threads, its lock, failing allocations | `guard.rs`, `raw/collector.rs` |
| `Membarrier`, `MCMembarrier`, `MembarrierProofs` | detection of a strategy, light stores, heavy barriers | `raw/membarrier.rs` |
| `ThreadSlots`, `MCThreadSlots`, `ThreadSlotsProofs` | who owns a slot: ids, thread-local destructors, both kinds of guard | `raw/tls/thread_id.rs`, `guard.rs` |
| `ThreadIndex` | the arithmetic of `Thread::new`, and the layout of ids it should give | `raw/tls/thread_id.rs` |
| `ThreadLocal`, `MCThreadLocal`, `ThreadLocalProofs` | the tables: racing initialisation, publication, lookup, iteration, `Drop` | `raw/tls/mod.rs` |

How they fit: `Hyaline` has the abstract `Reclamation` above it; `ReclaimAll` is
built on its actions and has `Sweeping`, an extension of `Reclamation`, above it;
`ThreadLocal` has `SlotTable` above it. `Hyaline` rests on three facts that have modules of their own:
a slot has one user (`ThreadSlots`), a scan meets every slot that was registered
(`ThreadLocal`, whose places come from `ThreadIndex`), and a heavy barrier makes
earlier light stores visible (`Membarrier`). `OwnedGuardLock` in turn relies on
`Hyaline` for what happens to a batch that is published.

`map` in `PROJECT.json` gives the lines of every definition.

### Hyaline

A slot is a thread's place in the tables. `head[s]` is its reservation list, or
`INACTIVE`; `buffered[s]` says that the store of `enter` is still invisible to
the others. Each slot runs one operation at a time: `pc[s]` is where it is, and
`cur`, `todo`, `marked`, `tgt`, `prev`, `cnt`, `list`, `idx` are the local
variables of `try_retire`, `traverse` and `free_batch`; `stack[s]` holds the
`free_batch` calls whose reclaimer is using the collector. One step is one access
to memory that other slots access. Thus `try_retire` is `TryRetire` (within `Add` or
`Flush`), an `Interrupt` per invisible store, `HeavyReturn`, then a `ScanSkip`, `ScanMark` or `ScanGiveUp` per reservation, `Publish`, then
`LinkLoad` followed by `LinkSkip`, `LinkCas` or `LinkRetry` per marked
reservation, then `Count`; `traverse` alternates `Traverse` and `Dec`;
`free_batch` is a `Reclaim` per entry (or `ReclaimCall` … `ReclaimReturn` around
whatever the reclaimer does) and `Dealloc`.

Abstractions. An `Entry` is used for one list at most, so it is the pair (batch,
slot), and a list is a sequence of batches; that a batch has enough entries is
the invariant `EntryPerLink`. The scan visits the reservations in any order,
which covers the order of the table and slots that register during the scan: a
slot that is not registered is as one that is inactive. The pointer comparison of
the link loop compares heads by batch and slot, so that a batch freed and
allocated at the same address between the load and the `compare_exchange` is an
ABA the model contains. Memory is sequentially consistent except for the store of
`enter`, the one access whose order the strategies are about: with a fast barrier
it stays in a store buffer until it drains or a `heavy` of any slot reaches it;
under `FALLBACK` (and on targets without the fast barrier, whose code is the
same) it is `SeqCst` and `heavy` reaches nothing. A barrier takes time: it reaches
the slots one by one, in any order, while all of them go on, and it waits only for
the stores that were invisible when it began (`todo`), not for an `enter` that
comes after. This is just what `HeavyOrders` says of the strategies in
`Membarrier`, which has one case where it fails (below). The barrier begins in the same step as the call of `try_retire`,
before which the slot touches only its own batch; a later beginning could only
reach more stores.

The client is any program that keeps the contract of the API: an object is
published in a cell, taken out, and retired once. `held[s]` are the objects that
code on slot `s` may still access: those it loaded through a guard, and those it
retired under one (`defer_retire` "delays reclamation until the guard is
dropped"). `Reserve` needs no guard, as `Collector::reserve_retire` has none; it
also stands for an `add` that created the batch and then could not grow it.

### Reclamation

Its state is what a user of the crate can observe: the guards of each slot, the
cells, the state of each object, and what the guards protect. `Reclaim(o)` may
happen at any time after `o` was retired, when nobody holds it; `Use(s)` is all that
slot `s` itself does. Everything else of `Hyaline` is hidden: the mapping takes the
four variables by their names, and all steps of barriers, batches, lists and counts
are stutters.

`Sweeping` adds the calls of `reclaim_all` and `Drop`: `Begin` when no guard is
alive, `End` when all that was retired at `Begin` is reclaimed and no guard is left
behind, and in between `RetireNow`, the one step that reclaims an object under a
guard, and the use of the collector by reclaimers. After the end of a drop there are
no steps at all. `ReclaimAll` maps its own variables by name and `before` to `due`.

### ReclaimAll

`SweepStart` is the call, of `reclaim_all` or by `Drop`, by a thread that has the
collector to itself; `SweepSkip`, `SweepBatch` and `SweepNext` are the body of the
loop around the `free_batch` of `Hyaline`; `SweepEnd` returns. While a batch is
freed, its `LocalBatch` is `DROP`, which is what `AddDrop` (reclaim at once) and
`HeavyDrop` (the barrier returns, and there is nothing to retire) test. Between them, the reclaimers that the sweep
runs take all the other steps of `Hyaline`, on the slot of the sweeping thread and,
with `Helpers`, on other slots. The slots are visited in any order, since the
sweeping thread may have any place in it. `before` and `early` are history: what
was retired before the call, and what a retirement reclaimed by itself.

### OwnedGuardLock

Threads call `reserve_retire`, `defer_retire` and `flush` of one guard; each takes
the lock, works on the batch in the steps of `get_or_init`, `try_reserve`, `push`
and `try_retire`, any of whose allocations may fail, and unlocks. `refresh` and
`drop` need the guard for themselves. A batch is its entries and their capacity.
Two variables are history. `promise` are the threads to which the documentation of
`reserve_retire` still gives its guarantee: those that reserved and have not called
`defer_retire`, `flush` or `refresh` since. The documentation names what happens "on
the current thread", so only the thread's own calls end it. `spent` are those among
them whose room another thread has taken, by a push or by publishing the batch.
`ReservedCannotFail` is the guarantee as documented, which a shared guard does not
keep (run `reserve_shared`); `ReservedUnlessSpent` is what it keeps.

The slot is one that no sweep has marked: the `DROP` branches of `add` and `reserve`
are not here. Outside a sweep no reclaimer runs with the lock held; on a marked slot
`add` calls the reclaimer under the lock. `ReclaimAll` has that branch, without a lock.

### Membarrier

`platform` is the build, `offers` whether the kernel has the system call.
`Detect`, `Register`, `RegisterErr` and `Arch` are `Collector::new` and `detect`;
any thread may create collectors at any time, and a thread that has one may pass it
on (`Share`). `STRATEGY` is stored relaxed, so each thread may have a store to it
in its buffer (`pending`), as it has its light store (`light`); the two become
visible in any order. `heavy` is `Heavy` and then a fence, the system call, or the
sequence of `Barrier::barrier` on the shared page with its mutex. The operating
system is external: `Interrupt` empties the buffer of one thread at a time, any
time between the call and its return, and taking the rights from a page that was
not written to interrupts nobody. `FatalAssert` is the abort of a call that fails.
`owed[t]` is history: the light stores that `t`'s barrier still owes.

`RegisterErr` may happen at any detection, on any Linux, also when the kernel does
offer the call: the query or the registration may fail for want of memory or by a
filter of system calls, and `is_supported` then returns false. So strategies may
differ between collectors and change while they are in use. On x86 that is
harmless: the other choice is the mprotect barrier, and both are process-wide. On
other targets it is the `FALLBACK`, and if one detection is refused and another
granted (`Mixed`), a thread that reads `FALLBACK` runs a fence that does not reach the
relaxed store of a thread that reads `MEMBARRIER`. `HeavyOrders` is the contract that
`light_store` and `heavy` state without exception, and run `membarrier_refused`
violates it; `HeavyOrdersUnlessMixed` and `StrategiesAgreeUnlessMixed` are what holds.
It takes two collectors, and a thread that uses the first without having
synchronised with the detection for the second.

### ThreadSlots

`Alloc` and `Recycle` are the two operations of `ThreadIdManager`, each under its
mutex. A thread goes through `Current`, `Exit`, `DropThreadGuard`, `Gone`; a
destructor that runs after that of `THREAD_GUARD` may still ask for an id
(`CurrentLate`). An `OwnedGuard` goes through `CreateOwned`, `EnterOwned` (or
`EnterOwnedErr`), `DropOwned`, `FreeOwned`. Of a reservation the module keeps the
guard count and whether it is active. `Forgetful` and `LateGuards` say what
programs are considered: whether they `mem::forget` guards, and whether a guard
may live in a thread-local variable destroyed after the `ThreadGuard`.

Two history variables hold the ids that nobody will return: `declined`, those
that `free` gave up because the heap could not grow, and `lost`, those that
`CurrentLate` allocated. The latter needs no failing allocation: `init_slow` takes an
id and stores it in `THREAD` before the access to `THREAD_GUARD` panics, and with
that guard destroyed nothing returns the id. `IdsAccounted` says that these are the
only two ways to lose one; each late call costs a slot for the rest of the process.

### ThreadIndex and ThreadLocal

`ThreadIndex` has the constants and `Thread::new` of a `usize` of `Bits` bits.
`ThreadLocal` has a table, threads that call `load_or` on ids no one else uses,
and `get` and threads that iterate, with every load, `compare_exchange` and flag
store as a step of its own; `due` and `seen` are history variables of an iterator.

`SlotTable` is the same as its users see it: the set of slots that are there, the
call of each thread, and what its iterator owes and has yielded. `load_or` either
fails, for a slot that is not there (`Failed`), or secures room for it, after which
it can only succeed (`Secured`, `Loaded`). The mapping takes a slot to be the place
of its id (`Place`), `there` to be `Present`, and a call to be secured from the
moment it has a bucket (`Called`).

## Runs

| Run | Instance | Shows |
|---|---|---|
| `two_slots` | 2 slots, 3 objects, 3 batches, guards two deep, fast barrier | nested guards, and guards inside reclaimers that run inside `leave` and `refresh`: protected objects survive; a batch is freed once; nothing leaks at rest, when every object still to be reclaimed is in a local batch; nothing is reclaimed by `retire` under a guard of the same slot; and `IndInv` holds in every reachable state |
| `three_slots` | 3 slots, 2 objects, 2 cells, 2 batches, `FALLBACK` | two retirers race on the list of a third slot, with only the `SeqCst` store of `enter` to order it with `try_retire`: reference counts are exact at every step, lists reach no freed memory, a batch never needs an entry it does not have, and every step is one of `Reclamation` or hidden from it |
| `liveness` | 2 slots, 2 objects, fair | what left its local batch is eventually reclaimed |
| `thread_slots` | 2 threads, 1 `OwnedGuard`, 3 ids; forgotten and late guards included | ids are unique, none is lost except when the heap cannot grow or `Thread::current` is called after the `ThreadGuard` was destroyed, and they stay dense but for those; as long as no guard was forgotten or outlived its id, a reservation has one user, and is active exactly while it has a guard |
| `forgotten_guard` | `Forgetful` | **violation**, below |
| `late_guard` | `LateGuards` | **violation**, below |
| `thread_local` | 3 threads, ids of a 3-bit `usize` in three buckets, capacities 0 and 1; also `Thread::new` with the code's `ZERO_ENTRY` and 9 bits (`NineBits`) | one bucket wins a race and none leaks, iterators read only what is initialised and miss nothing that was there, entries are never replaced, and every step is one of `SlotTable` or hidden from it; `Thread::new` enumerates the places in order, without gaps, and the largest id fills the last place |
| `reclaim_all` | 2 slots, 3 objects, 3 batches, reclaimers two deep that use any slot | what was retired before the call is reclaimed, once; guards keep their promise during and after a sweep, but for retirements on a marked slot; no batch is lost; every step is one of `Sweeping` or hidden from it |
| `owned_guard` | 3 threads, 3 objects, batches of 1 | no retirement is lost or duplicated by threads that share a guard or by failing allocations, no push is out of bounds, and a reservation is good unless another thread took its room |
| `reserve_shared` | the same | **violation**, below |
| `membarrier` | 3 threads, every platform, any detection may be refused | a heavy barrier makes every earlier light store visible, whatever strategies are detected meanwhile, and users agree whether stores are buffered, unless the answers of the kernel were mixed on a Linux other than x86; callers of the mprotect barrier do not fault on each other's page |
| `membarrier_refused` | the same | **violation**, below |

Bounds. Two slots suffice for every interaction of a guard with a retirement, and
three for two retirers on one list; with batches of size 1, the batch is too small
as soon as two slots are active, so that giving up and growing a batch happen;
with `Width` = 4 the counts wrap. Two batches force addresses to be reused; three
let nested reclaimers hold one each. Guards two deep distinguish the last guard
from the others. Objects are not recycled: a retired object is one allocation. In
`thread_local`, ids 1, 3 and 4 with 3 bits put two ids in one bucket and one in
another, and leave a bucket unallocated before an allocated one. In `reclaim_all`
batches of 2 stay partly filled, so that the sweep finds them, and reclaimers two
deep can retire while the reclaimer of a recursive retirement runs. In
`owned_guard`, batches of 1 make each push the last of its batch or, as the batch
may stay local, one that has to grow it. In `membarrier` a thread has one light
store in its buffer at a time; three threads are one that stores and two whose
barriers meet. Slots, objects, batches and threads are interchangeable, and the
safety runs use that symmetry; `liveness` does not.

Deadlock is checked in every passing run except `thread_local`, where a table
that failed to build or was dropped has no further step, and `reclaim_all`, where a
collector that was dropped has none. In `membarrier` it shows that threads that
wait for the mutex or the `OnceLock` do not all wait for each other.

Fairness (`liveness` only). A slot that is inside an operation of the collector
keeps running (weak fairness of `Internal`): none of its steps waits for another
slot, and the operating system runs it. The last guard of a slot is dropped and a
reclaimer returns (strong fairness of `Leave` and `ReclaimReturn`, as other calls
of the application may disable them for a while): this is what the crate asks of
its users, and without it nothing can be reclaimed. No fairness is assumed of
`Drain`, which a barrier does not need, nor of `Enter`, `Add` or `Flush`. The
`compare_exchange` of the link loop may fail, but only because another slot made
progress, and the objects are finitely many.

### Where the code and its documentation differ

* `forgotten_guard`: the guard count of a reservation survives its thread. A
  `LocalGuard` passed to `mem::forget` leaves it at 1 with the slot active; an
  `OwnedGuard` that gets the recycled slot activates it and, when dropped, leaves
  it `INACTIVE` with the count still 1. The next thread on that slot gets a
  `LocalGuard` whose `enter` sees a count above zero and does not store into
  `head`: its slot is inactive, and retirements skip it.
* `late_guard`: `ThreadGuard::drop` returns the id even if a `LocalGuard` of the
  thread is still alive in another thread-local variable. Another thread can then
  get the slot while the guard goes on working on the reservation, which the
  safety comments of `guard.rs` and `thread_id.rs` rule out.
* `reserve_shared`: `reserve_retire` and `defer_retire` of an `OwnedGuard` each take
  the lock of the reservation, and let it go. In between, a `defer_retire` of another
  thread takes the room, or publishes the batch with it, as its `flush` does; the
  `defer_retire` then allocates, and may fail. The documentation of `reserve_retire`
  says that the guarantee holds as long as none of this happens "on the current
  thread". With a `flush` it is broken even for "the next call to `defer_retire` on
  this guard". Run `owned_guard` shows that nothing else breaks it.
* `membarrier_refused`: on a Linux other than x86, a registration that is refused to
  one `Collector::new` and granted to a later one leaves threads that read `FALLBACK`
  next to threads that read `MEMBARRIER`. The `heavy` of the former is a fence of its
  own and does not synchronize with the relaxed `light_store` of the latter, although
  `light_store` is "the ordering for a store operation that synchronizes with heavy
  barriers". Run `membarrier` shows that there is no other such case.

Two more disagreements are not runs of their own; the passing properties of run
`reclaim_all` say exactly what remains true there.

* `reclaim_all` visits each slot once and marks it only while its batch is freed. A
  reclaimer of another slot's batch that retires on the current thread, after the slot
  of that thread was visited, leaves the object in a batch, although what is "retired
  recursively on the current thread during this call, will have been reclaimed"
  (`collector.rs`). When the call came from `Drop`, the batch and its objects are never
  freed. `RetiredBeforeReclaimed` therefore speaks of what was retired before the call
  alone, and `NoLeakAfterSweep` allows local batches after it.
* On a marked slot, `defer_retire` reclaims at once, although it "delays reclamation
  until the guard is dropped" (`guard.rs`) and reclaimers may take guards.
  `GuardsOutliveSweep` excepts just these objects, and `RetireNow` of `Sweeping` is
  this step.

With guards that are neither forgotten nor outlive the `ThreadGuard`, run
`thread_slots` shows the first two properties to hold (`SlotDiscipline`).

## Proofs

Everything below is checked by TLAPS from the definitions of the modules, the
named assumptions on constants and the library's theorems on finite sets and
functions.

*Hyaline.* Assumptions: finitely many slots, fewer than `Width` of them (a
process has fewer threads than `usize` has values), `NULL` and `INACTIVE` differ
from everything else. No bound is assumed on slots, objects, cells, batches,
nesting or batch size.

* `TypeCorrect`: `TypeOK` together with `Control`, what the position of a slot
  says of its local variables. Types alone are not inductive: that `Traverse`
  takes the head of a non-empty list, or that `Dec` has a batch, is `Control`.
* `StructureInvariant`: `SInv`, the conjunction of `TypeOK`, `Control`,
  `Activity` (a slot is active exactly while it has guards, up to the store
  buffer), `Ownership` (a batch is the local batch of one slot, or linked by one,
  or freed by one), `Distinct` (no slot meets a batch twice), `Reachable` (what
  is in a list is allocated and no one's private batch; what is marked is not
  linked yet), `Links` (a retirer has made at least as many links as there are
  references), `RefCount` and `Unallocated`.
* `RefCountCorrect` (`RefCount`) and `NoDanglingEntry` (`ListsAlive`) follow.

The argument: the count is the number of slots that will still decrement it, minus
the links not yet added. A decrement that finds 1 is thus the last reference *and*
no retirer is at work (with one, the count plus `cnt` is the number of
references, at least one, and `cnt` is at least that number: `Links` keeps the
wrapped count from reading 1, since fewer than `Width` links are ever made);
hence a batch that goes to `free_batch` is reached by no one, which is what keeps
lists from reaching freed batches, which in turn is needed when the address is
allocated again and must not appear in any list. The parts need each other, so
they are proved together: one lemma per action and part, on pointwise facts about
`Reach`, `Refs` and `Private` before and after the step.

* `GraceInvariant`: `GInv`, which adds `Accounted` (an allocated batch has an
  owner or a reference), `Located` (an object is in one cell, or in one entry of
  one batch), `Cursors` (what a `free_batch` has not visited is not reclaimed),
  `Grace` and `SelfCaught`. `GuardProtects` (`NoUseAfterReclaim`), `FreedOnce`
  (`FreeOnce`) and `NoFreeUnderGuard` (the action property `NoReclaimUnderGuard`)
  follow.
* `KeptInvariant`: `KInv`, which adds `Kept`: a retired object is in an allocated
  batch, and what a `free_batch` has passed is reclaimed. `Kept` is what makes
  `Dealloc`, which forgets the entries of the batch, lose no object: at the end of
  the entries all of them are reclaimed, also when reclaimers ran in between that
  freed other batches (the frames of `stack`). With `Accounted`, `NothingLeaked`
  (`NoLeakWhenQuiescent`) follows: without guards and operations a batch has no
  owner or reference but a `LocalBatch`.
* `IndInvInvariant`: all of `IndInv`, which adds `EntryPerLink` and `Fits`;
  `EntriesSuffice` (`EntryPerLink`) follows.

The argument for the grace period: an object a slot holds was shared when it was
loaded, so it is in no batch, or it was retired since, by `Add`, into a local batch
that no one is scanning for. From then on the holder has a guard. Its reservation is
then active, if perhaps invisibly (`Activity`). When the batch's owner begins its
barrier, an invisible store of the holder is one that the barrier waits for (the
first line of `Caught`), since the holder's `enter` came before: an `enter` during
the barrier is of a slot that has no guard, thus holds nothing. So when the barrier
returns, the reservation is active *and* visible, and it stays so while the guard
lives; hence the scan marks it or
gives up, no `LinkLoad` or `LinkRetry` reads `INACTIVE` from it, `LinkSkip` does not
pass it, and when `marked` is empty the batch is in its list: this is `Caught`, one
lemma over all steps (`CaughtStep`). The list is emptied by the last `leave` or a
`refresh` of the holder alone, and both end what it holds (`KeepList`). A batch that
is being freed is in no list and has no retirer, so nothing it reclaims is held.
`Retires` says which slots this is about: those that have begun a barrier for the
batch, and not only those that are past it. With the slot itself as the holder, the
same lemma shows that `try_retire` under a
guard always finds a count above zero.

* `Implementation`: `Spec => ImplementsReclamation`, the refinement. Each action of
  `Hyaline` is an action of `Reclamation` on the four variables it keeps, or leaves
  them alone; the one step that needs the invariant is `Reclaim` (and
  `ReclaimCall`), where `GInv` says that the entry is retired, not yet reclaimed
  and held by no slot.

*ReclaimAll.* Assumptions: those of `Hyaline`, and that `DROP` is neither a batch nor
`NULL`. `ReclaimAllProofs` maps the collector under a sweep to the collector of
`Hyaline`: the sweeping thread between two batches is one that runs no operation, a
marked slot has no batch, and nobody holds what a retirement reclaimed by itself.
Every step is then a step of `Hyaline`, or stutters, or is one of two more:
`TakeBatch` (the sweep takes a local batch to `free_batch`, without a barrier or a
scan) and `ReclaimNow` (a retirement on a marked slot). `HyalineGrace` shows that
these keep `KInv` as well, the first provided that no slot has a guard or is in the
collector. `SweepInvariant` is `SweepInv`: `KInv` under the mapping; `Position`,
that a sweep between two reclaimers is still alone, since the reclaimers return
where they were called, with no guard and nothing to traverse, and that the
marked slot is the one being visited; `HeldInv`, that what was
reclaimed early is held only during the sweep; `BeforeInv`, that no slot the sweep is
done with has an object of `before` in its batch: reclaimers refill such batches, but
only with what they retire themselves. From it:

* `SweptOnce` (`FreeOnce`), `SweepSparesGuards` (`GuardsOutliveSweep`) and
  `SweepLeaksNothing` (`NoLeakAfterSweep`), from `KInv` and `HeldInv`;
* `SweepReclaimsAll` (`RetiredBeforeReclaimed`): at the end of the loop, a retired
  object of `before` would be in an allocated batch (`Kept`), which at rest is a local
  batch of some slot (`Accounted`), and all slots are visited;
* `SweepImplementation`: `SweepSpec => ImplementsSweeping`, the refinement.
  `SweepStart` is `Begin` and `SweepEnd` is `End`, where `Position` gives that no
  guard is alive and `BeforeInv` with `KInv` that nothing of `before` is left;
  `AddDrop` is `RetireNow`, since a slot is marked only during a call. Reclaimers run
  by `free_batch`, in a sweep or not, are `Reclaim`, which asks that nobody holds the
  object: the mapping to `Hyaline` gives this for all but the objects that were
  reclaimed early, and `HeldInv` for those. The other steps of the loop are stutters.

*OwnedGuardLock.* Assumptions: `BatchSize` is a number, `NULL` differs from
everything else. `SharedInv` has `LockInv` (the lock is held from `Lock` to
`Unlock`), `CallInv` (calls in progress retire different objects, not retired
before), `BatchInv` (what a thread has found out of the batch stays true until it
used it; a promise that nobody has spent means that there is room) and `PlaceInv` (an object is in one
entry of one batch once it is retired, and in none before). `OwnedGuardTypeCorrect`,
`SharedRetiredOnce` (`RetiredOnce`), `SharedPushHasRoom` (`PushHasRoom`) and
`SharedReservedUnlessSpent` (`ReservedUnlessSpent`) hold for any number of threads and
objects.

*Membarrier.* Assumption: `NULL`, the threads, the strategies and the mark of an
initialised `OnceLock` differ. `BarrierInv` has `StrategyInv` (what the build can
store into `STRATEGY`, and that unless the answers of the kernel were mixed no thread
with a collector sees `FALLBACK` where stores may be buffered), `SeenInv` (the same for
the value a thread has loaded, which may be old), `PageInv` (the `OnceLock` and the
mutex keep the page to one thread) and `OwedInv` (what a barrier still owes is among
the threads it has yet to interrupt). `MembarrierTypeCorrect`,
`HeavyOrdersLightStores` (`HeavyOrdersUnlessMixed`), `BarrierNeverKills`
(`NeverKilled`, mixed answers included) and `UsersAgree`
(`StrategiesAgreeUnlessMixed`) follow. In `OwedInv`, that stores are buffered only
where no thread can see `FALLBACK` is what makes a mere fence enough; with mixed
answers it is not, and the invariant says nothing of what a fence then owes. `Mixed`
never becomes false again, so a step out of it need not be considered.

*ThreadSlots.* `SlotsAreUnique` (`UniqueIds`), `OnlyLateIdsAreLost`
(`IdsAccounted`), `IdsStayDense` (`GrowsOnlyWhenFull`), from an invariant (`IdInv`)
that ties `tg_id` to `THREAD` while the `ThreadGuard` is registered: the destructor
returns the copy, and only this makes it the id the thread owns; an id that is in
`THREAD` when the thread ends is one of `lost`. They hold for any
number of threads, guards and ids, with forgotten and late guards.
`ThreadSlotsTypeCorrect` and `SlotsAreDisciplined` (`SlotDiscipline`) need `SlotInv`,
which adds `CountInv`, that a reservation counts at least the `LocalGuard`s alive on
it, so that no count falls below zero even when guards were misused, and `UseInv`,
which holds until one is: `LocalGuard`s are on the slot of their thread, whose count
is exact, and a slot with neither a count nor an `OwnedGuard` is inactive, so that it
can be handed on.

*ThreadIndex.* `IdsAreInOrder` and `IdsFillTheBuckets` are facts on `Thread::new` for
every number of bits and every `ZERO_ENTRY` one below a power of two: consecutive ids
have consecutive entries, bucket after bucket, and the last id has the last entry of
the last bucket. The provers know exponents only as uninterpreted terms; the one fact
they are told is `PowerAssumption`, that `2^(n + 1)` is `2 * 2^n`. Positivity and
monotonicity of powers and the number of entries of the first buckets are then
inductions, done as the refutation of a least counterexample (`LeastNat`, from the
well-foundedness of `<` in the library), which needs no theorem with an operator as a
parameter.

*ThreadLocal.* Assumptions: the ids and capacities are at most `MAX_INDEX`, `NULL` is
no address. `TableInv` has `TypeOK`; `UserInv` (operations run on a table that is
ready); `OneBucket` and `NoBucketLeak`; `BucketInv` (a bucket is at one index of the
table, or in the hands of one thread and then empty); `EntryInv` (what is present is
written, and inside its bucket); and `IterInv` (an iterator has yielded the places
behind it that were due, none twice). `ThreadLocalTypeCorrect`,
`UsersShareTheBucket` (`OneBucket`), `BucketsAreFreed` (`NoBucketLeak`),
`ReadsAreInitialised` (`ReadsInitialised`), `IteratorsMissNothing` (`IteratesAll`),
`EntriesNeverLeave` (the action property `EntriesStay`), `IdsStayInOrder` (`InOrder`)
and `LastIdFillsLastBucket` (`FillsLastBucket`) hold for any number of threads, ids
and addresses.

`TableImplementation` is the refinement, `Spec => ImplementsTable`. It needs
`SlotInv` besides `TableInv`: calls of `load_or` are on different slots; a thread that
found no bucket, or found its flag clear, has a slot that is not there, and no other
thread can add it; a table that is not ready is empty. The store of the flag in
`Publish` is the one step that adds a slot (`PublishAdds`; all others leave `Present`
alone, `QuietStep`), and it adds the user's slot because the bucket the thread works on
is the one in the table (`OneBucket`) and no two ids have one place (`PlaceOf`, from
the arithmetic of `Thread::new`). An iterator's next place is none it has
yielded, and at the end it has passed all places (`IterInv`).

Only model-checked: the liveness property `PublishedIsReclaimed`, as fairness and
`ENABLED` are out of the prover's reach, and `NineBits`, an instance of what
`IdsAreInOrder` and `IdsFillTheBuckets` prove for every word size.

## Not modelled

* Weak memory beyond what the strategies are about: the release and acquire pairs
  of lists, counts and tables are taken to order what they order.
* The lock of an `OwnedGuard` during a sweep. The caller of `reclaim_all` may have no
  live guards, but a reclaimer that the sweep runs may take an `OwnedGuard`; on a
  marked slot its `defer_retire` calls the next reclaimer with the lock held, and that
  one would wait for itself if it used the same guard. `OwnedGuardLock` has no marked
  slots, `ReclaimAll` has no locks.
* Panics of reclaimers, which unwind through `free_batch`, and the poisoning of the
  locks by a panic.
* `fork`, and filters that make the barrier call itself fail after a registration was
  granted: the code aborts, as `FatalAssert` does.
* `alloc.rs` (forwarding) and `raw/utils.rs` (padding) have no behaviour; failing
  allocations are error steps, or stutter where nothing is written. Equality,
  formatting and the configuration of a collector change no shared state; the
  ready-made reclaimers of `reclaim.rs` do nothing but drop their object.

## Plan

1. Done: all modules and runs above; the proofs of every invariant and action
   property that the passing runs check, of `IndInv`, and that `Hyaline`,
   `ReclaimAll` and `ThreadLocal` implement `Reclamation`, `Sweeping` and `SlotTable`.
2. Open: panics of reclaimers, the lock of an `OwnedGuard` during a sweep, and weak
   memory beyond the light stores.
