------------------------------ MODULE Hyaline ------------------------------
(***************************************************************************)
(* The reclamation algorithm of seize (src/src/raw/collector.rs), driven    *)
(* through LocalGuard and Collector::retire (src/src/guard.rs,              *)
(* src/src/collector.rs).                                                   *)
(*                                                                          *)
(* A slot is a thread's index in the two ThreadLocal tables of a collector: *)
(* a Reservation (head, guards) and a LocalBatch.  Every slot runs one      *)
(* operation at a time; what it is doing is in pc and its local variables.  *)
(* A step of a slot is one access to memory that other slots also access;   *)
(* what a slot does on its own memory is part of the neighbouring step.     *)
(*                                                                          *)
(* An Entry is a pair (batch, slot it is linked to), so a reservation list  *)
(* is the sequence of the batches its entries point to, newest first.       *)
(*                                                                          *)
(* Steps that change nothing are stuttering steps and have no action: an    *)
(* allocation that fails before a batch is installed (enter, add, reserve), *)
(* a spurious failure of compare_exchange_weak, refresh of a nested guard,  *)
(* and a reserve_retire whose batch already has room.                       *)
(***************************************************************************)
EXTENDS Integers, Sequences, FiniteSets

CONSTANTS Slots,        \* thread slots (Thread.id), with a reservation each
          Objects,      \* heap objects of the application
          Cells,        \* atomic pointers through which objects are shared
          Batches,      \* addresses a Batch can be allocated at
          BatchSize,    \* Collector::batch_size
          Width,        \* 2^(bits of usize): Batch::active wraps around here
          FastBarrier,  \* the membarrier strategy is not FALLBACK
          MaxGuards,    \* bound: nesting of guards on a slot
          MaxDepth,     \* bound: nesting of reclaimers that use the collector
          NULL,         \* the null pointer
          INACTIVE      \* Entry::INACTIVE

ASSUME SlotsAssumption == IsFiniteSet(Slots)
ASSUME WidthAssumption == Width \in Nat /\ Width > Cardinality(Slots)
ASSUME SizeAssumption == BatchSize \in Nat /\ MaxGuards \in Nat /\ MaxDepth \in Nat
ASSUME BarrierAssumption == FastBarrier \in BOOLEAN
ASSUME NullAssumption == NULL \notin Batches \cup Slots \cup Objects
ASSUME InactiveAssumption == /\ INACTIVE \notin Batches \cup {NULL}
                             /\ INACTIVE \notin Seq(Batches)

VARIABLES
  \* Reservation
  head,      \* the reservation list of each slot, or INACTIVE
  buffered,  \* the relaxed store of enter is not yet visible to other slots
  guards,    \* the number of live guards of each slot
  \* LocalBatch and Batch
  batch,     \* the local batch of each slot, or NULL
  alive,     \* the batches that are allocated
  entries,   \* the objects retired in each batch
  active,    \* the reference count of each batch
  \* the operation a slot is in, and its local variables
  pc,        \* where the slot is
  cur,       \* `batch` of try_retire, traverse and free_batch
  todo,      \* the slots the barrier has still to wait for, and then the
             \* reservations the scan has still to visit
  marked,    \* the reservations stored in the entries and not yet linked
  tgt,       \* the reservation being linked
  prev,      \* `prev` of the link loop
  cnt,       \* `active` of try_retire: the lists linked so far
  list,      \* `list` of traverse
  idx,       \* the next entry free_batch reclaims
  stack,     \* suspended free_batch calls, whose reclaimer is running
  \* the application
  cell,      \* the object each cell points to, or NULL
  obj,       \* the state of each object
  held       \* the objects a slot may still access under its guards

resvVars == <<head, buffered, guards>>
batchVars == <<batch, alive, entries, active>>
retireVars == <<todo, marked, tgt, prev, cnt>>
callVars == <<pc, cur, list, idx, stack>>
clientVars == <<cell, obj, held>>
vars == <<resvVars, batchVars, retireVars, callVars, clientVars>>

Lists == Seq(Batches)
\* A suspended free_batch: its batch and cursor, the rest of the traversal that
\* called it, and the number of guards alive when its reclaimer was called.
Frames == [batch : Batches, idx : Nat, list : Lists, base : Nat]

\* One type invariant for the whole state of the collector and its client.
TypeOK ==
  /\ head \in [Slots -> Lists \cup {INACTIVE}]
  /\ buffered \in [Slots -> BOOLEAN]
  /\ guards \in [Slots -> Nat]
  /\ batch \in [Slots -> Batches \cup {NULL}]
  /\ alive \in SUBSET Batches
  /\ entries \in [Batches -> Seq(Objects)]
  /\ active \in [Batches -> 0 .. Width - 1]
  /\ pc \in [Slots -> {"user", "heavy", "scan", "link", "cas", "traverse", "dec", "free"}]
  /\ cur \in [Slots -> Batches \cup {NULL}]
  /\ todo \in [Slots -> SUBSET Slots]
  /\ marked \in [Slots -> SUBSET Slots]
  /\ tgt \in [Slots -> Slots \cup {NULL}]
  /\ prev \in [Slots -> Batches \cup {NULL, INACTIVE}]
  /\ cnt \in [Slots -> Nat]
  /\ list \in [Slots -> Lists]
  /\ idx \in [Slots -> Nat]
  /\ stack \in [Slots -> Seq(Frames)]
  /\ cell \in [Cells -> Objects \cup {NULL}]
  /\ obj \in [Objects -> {"fresh", "shared", "unlinked", "retired", "reclaimed"}]
  /\ held \in [Slots -> SUBSET Objects]

Init ==
  /\ head = [s \in Slots |-> INACTIVE]
  /\ buffered = [s \in Slots |-> FALSE]
  /\ guards = [s \in Slots |-> 0]
  /\ batch = [s \in Slots |-> NULL]
  /\ alive = {}
  /\ entries = [b \in Batches |-> <<>>]
  /\ active = [b \in Batches |-> 0]
  /\ pc = [s \in Slots |-> "user"]
  /\ cur = [s \in Slots |-> NULL]
  /\ todo = [s \in Slots |-> {}]
  /\ marked = [s \in Slots |-> {}]
  /\ tgt = [s \in Slots |-> NULL]
  /\ prev = [s \in Slots |-> NULL]
  /\ cnt = [s \in Slots |-> 0]
  /\ list = [s \in Slots |-> <<>>]
  /\ idx = [s \in Slots |-> 1]
  /\ stack = [s \in Slots |-> <<>>]
  /\ cell = [c \in Cells |-> NULL]
  /\ obj = [o \in Objects |-> "fresh"]
  /\ held = [s \in Slots |-> {}]

-----------------------------------------------------------------------------
(* Values read off the state. *)

\* The pointer a load of reservation.head returns.
Top(h) == IF h = INACTIVE THEN INACTIVE ELSE IF h = <<>> THEN NULL ELSE Head(h)

\* The list a swap of slot s on its own reservation returns: its own store is
\* always visible to it.
View(s) == IF buffered[s] THEN <<>> ELSE head[s]

\* The guards the caller of the running reclaimer holds: code running on s can
\* drop only the guards above these.
Base(s) == IF stack[s] = <<>> THEN 0 ELSE stack[s][Len(stack[s])].base

\* Arithmetic of usize: fetch_add with wrapping_add, and fetch_sub of 1.
WrapAdd(a, n) == (a + n) % Width
\* Mutant: the decrement is not modulo 2^w.
WrapDecSigned(a) == a - 1

WrapDec(a) == (a + Width - 1) % Width

\* What follows in traverse, and in the guard operation that called it.
Resume(l) == IF l = <<>> THEN "user" ELSE "traverse"

-----------------------------------------------------------------------------
(* The membarrier strategy. *)

\* Mutant: enter stores relaxed whatever the strategy.
LightStoreRelaxed(s) == buffered' = [buffered EXCEPT ![s] = TRUE] /\ UNCHANGED head

\* The store of null in enter.  Under a fast barrier it is a relaxed store that
\* may stay invisible to the other slots; under FALLBACK it is SeqCst.
LightStore(s) ==
  IF FastBarrier
  THEN buffered' = [buffered EXCEPT ![s] = TRUE] /\ UNCHANGED head
  ELSE head' = [head EXCEPT ![s] = <<>>] /\ UNCHANGED buffered

\* Mutant: the barrier orders the calling slot only, under every strategy.
HeavyBarrierLocal == {}

\* membarrier::heavy: a process-wide barrier, which waits for the stores that were
\* invisible when it began; under FALLBACK a fence of the calling slot alone.
HeavyBarrier == IF FastBarrier THEN {s \in Slots : buffered[s]} ELSE {}

\* The hardware makes the store of enter visible at any time.
Drain(s) ==
  /\ buffered[s]
  /\ head' = [head EXCEPT ![s] = <<>>]
  /\ buffered' = [buffered EXCEPT ![s] = FALSE]
  /\ UNCHANGED <<guards, batchVars, retireVars, callVars, clientVars>>

-----------------------------------------------------------------------------
(* Guards. *)

\* Collector::enter: the slot becomes active, with an empty list.
EnterReservation(s) == LightStore(s)

\* LocalGuard::enter.  An allocation error of the reservation changes nothing.
Enter(s) ==
  /\ pc[s] = "user"
  /\ guards[s] < MaxGuards
  /\ guards' = [guards EXCEPT ![s] = @ + 1]
  /\ IF guards[s] = 0 THEN EnterReservation(s) ELSE UNCHANGED <<head, buffered>>
  /\ UNCHANGED <<batchVars, retireVars, callVars, clientVars>>

\* `if head != INACTIVE { traverse(head) }`, on the head a swap returned.
TraverseFrom(s, h) ==
  LET l == IF h = INACTIVE THEN <<>> ELSE h IN
  /\ list' = [list EXCEPT ![s] = l]
  /\ pc' = [pc EXCEPT ![s] = Resume(l)]
  /\ UNCHANGED <<cur, idx, stack>>

\* Collector::leave: mark the slot inactive and traverse its list.  The
\* pointers loaded under the guards are dead from here on.
LeaveReservation(s) ==
  /\ head' = [head EXCEPT ![s] = INACTIVE]
  /\ buffered' = [buffered EXCEPT ![s] = FALSE]
  /\ TraverseFrom(s, View(s))
  /\ held' = [held EXCEPT ![s] = {}]
  /\ UNCHANGED <<cell, obj>>

\* Mutant: dropping a nested guard deactivates the slot.
LeaveAlways(s) ==
  /\ pc[s] = "user"
  /\ guards[s] > Base(s)
  /\ guards' = [guards EXCEPT ![s] = @ - 1]
  /\ head' = [head EXCEPT ![s] = INACTIVE]
  /\ buffered' = [buffered EXCEPT ![s] = FALSE]
  /\ TraverseFrom(s, View(s))
  /\ held' = [held EXCEPT ![s] = IF guards[s] = 1 THEN {} ELSE @]
  /\ UNCHANGED <<batchVars, retireVars, cell, obj>>

\* Drop for LocalGuard.
Leave(s) ==
  /\ pc[s] = "user"
  /\ guards[s] > Base(s)
  /\ guards' = [guards EXCEPT ![s] = @ - 1]
  /\ IF guards[s] = 1
     THEN LeaveReservation(s)
     ELSE UNCHANGED <<head, buffered, callVars, clientVars>>
  /\ UNCHANGED <<batchVars, retireVars>>

\* LocalGuard::refresh and Collector::refresh, on the last guard of the slot.
\* The guard is borrowed mutably: no pointer loaded through it survives.
Refresh(s) ==
  /\ pc[s] = "user"
  /\ guards[s] = 1
  /\ Base(s) = 0
  /\ head' = [head EXCEPT ![s] = <<>>]
  /\ buffered' = [buffered EXCEPT ![s] = FALSE]
  /\ TraverseFrom(s, View(s))
  /\ held' = [held EXCEPT ![s] = {}]
  /\ UNCHANGED <<guards, batchVars, retireVars, cell, obj>>

\* Guard::protect on a cell: the object loaded may be used under the guard.
Protect(s, c) ==
  /\ pc[s] = "user"
  /\ guards[s] > Base(s)
  /\ cell[c] # NULL
  /\ held' = [held EXCEPT ![s] = @ \cup {cell[c]}]
  /\ UNCHANGED <<resvVars, batchVars, retireVars, callVars, cell, obj>>

\* Guard::swap, compare_exchange, or a plain swap of an unguarded slot: store
\* null or a new object into a cell and take out the object it held.
Swap(s, c, n) ==
  /\ pc[s] = "user"
  /\ n # cell[c]
  /\ n \in {NULL} \cup {o \in Objects : obj[o] = "fresh"}
  /\ cell' = [cell EXCEPT ![c] = n]
  /\ obj' = [o \in Objects |-> IF o = n THEN "shared"
                               ELSE IF o = cell[c] THEN "unlinked" ELSE obj[o]]
  /\ held' = [held EXCEPT ![s] = IF guards[s] > Base(s)
                                 THEN @ \cup ({cell[c]} \ {NULL}) ELSE @]
  /\ UNCHANGED <<resvVars, batchVars, retireVars, callVars>>

-----------------------------------------------------------------------------
(* Retirement. *)

\* LocalBatch::get_or_init: the slot's batch, or a newly allocated one.
GetOrInit(s) == IF batch[s] = NULL THEN Batches \ alive ELSE {batch[s]}

\* try_retire is called, and its heavy barrier begins.
TryRetire(s) ==
  /\ pc' = [pc EXCEPT ![s] = "heavy"]
  /\ todo' = [todo EXCEPT ![s] = HeavyBarrier]

\* Collector::add, by defer_retire of a guard or by Collector::retire.  The
\* object is one that no cell points to, and is retired once.  Under a guard it
\* stays accessible to the retiring slot until the guard is dropped.  An error
\* of the allocations is returned before the entry is written (see Reserve).
Add(s, o) ==
  /\ pc[s] = "user"
  /\ obj[o] \in {"fresh", "unlinked"}
  /\ \E b \in GetOrInit(s) :
       /\ batch' = [batch EXCEPT ![s] = b]
       /\ alive' = alive \cup {b}
       /\ entries' = [entries EXCEPT ![b] = Append(@, o)]
       /\ IF Len(entries[b]) + 1 >= BatchSize THEN TryRetire(s) ELSE UNCHANGED <<pc, todo>>
  /\ obj' = [obj EXCEPT ![o] = "retired"]
  /\ held' = [held EXCEPT ![s] = IF guards[s] > Base(s) THEN @ \cup {o} ELSE @]
  /\ UNCHANGED <<resvVars, active, marked, tgt, prev, cnt, cur, list, idx, stack, cell>>

\* reserve_retire of a guard or of the Collector: the next add finds a batch.  An
\* add whose entry cannot be allocated leaves the new batch behind in the same way.
Reserve(s) ==
  /\ pc[s] = "user"
  /\ batch[s] = NULL
  /\ \E b \in Batches \ alive :
       /\ batch' = [batch EXCEPT ![s] = b]
       /\ alive' = alive \cup {b}
  /\ UNCHANGED <<resvVars, entries, active, retireVars, callVars, clientVars>>

\* Guard::flush and Collector::try_retire_batch.
Flush(s) ==
  /\ pc[s] = "user"
  /\ guards[s] > Base(s)
  /\ TryRetire(s)
  /\ UNCHANGED <<resvVars, batchVars, marked, tgt, prev, cnt, cur, list, idx, stack, clientVars>>

\* The barrier reaches one slot after the other.  A store issued by a slot that it
\* has passed, or that had none, may stay invisible.
Interrupt(s, t) ==
  /\ pc[s] = "heavy"
  /\ t \in todo[s]
  /\ todo' = [todo EXCEPT ![s] = @ \ {t}]
  /\ head' = [head EXCEPT ![t] = View(t)]
  /\ buffered' = [buffered EXCEPT ![t] = FALSE]
  /\ UNCHANGED <<guards, batchVars, marked, tgt, prev, cnt, callVars, clientVars>>

\* The barrier returns, and try_retire checks for a batch to retire.
HeavyReturn(s) ==
  /\ pc[s] = "heavy"
  /\ todo[s] = {}
  /\ IF batch[s] = NULL
     THEN /\ pc' = [pc EXCEPT ![s] = "user"]
          /\ UNCHANGED <<cur, todo>>
     ELSE /\ pc' = [pc EXCEPT ![s] = "scan"]
          /\ cur' = [cur EXCEPT ![s] = batch[s]]
          /\ todo' = [todo EXCEPT ![s] = Slots]
  /\ UNCHANGED <<resvVars, batchVars, marked, tgt, prev, cnt, list, idx, stack, clientVars>>

\* Mutant: the retiring slot does not count itself among the active ones.
ScanSkipSelf(s, t) ==
  /\ pc[s] = "scan"
  /\ t \in todo[s]
  /\ head[t] = INACTIVE \/ t = s
  /\ todo' = [todo EXCEPT ![s] = @ \ {t}]
  /\ UNCHANGED <<resvVars, batchVars, marked, tgt, prev, cnt, callVars, clientVars>>

\* The scan meets an inactive reservation and skips it.
ScanSkip(s, t) ==
  /\ pc[s] = "scan"
  /\ t \in todo[s]
  /\ head[t] = INACTIVE
  /\ todo' = [todo EXCEPT ![s] = @ \ {t}]
  /\ UNCHANGED <<resvVars, batchVars, marked, tgt, prev, cnt, callVars, clientVars>>

\* Mutant: the bound on the entries is off by one.
ScanMarkOver(s, t) ==
  /\ pc[s] = "scan"
  /\ t \in todo[s]
  /\ head[t] # INACTIVE
  /\ Cardinality(marked[s]) <= Len(entries[cur[s]])
  /\ todo' = [todo EXCEPT ![s] = @ \ {t}]
  /\ marked' = [marked EXCEPT ![s] = @ \cup {t}]
  /\ UNCHANGED <<resvVars, batchVars, tgt, prev, cnt, callVars, clientVars>>

\* The scan meets an active reservation and stores it in the next entry.
ScanMark(s, t) ==
  /\ pc[s] = "scan"
  /\ t \in todo[s]
  /\ head[t] # INACTIVE
  /\ Cardinality(marked[s]) < Len(entries[cur[s]])
  /\ todo' = [todo EXCEPT ![s] = @ \ {t}]
  /\ marked' = [marked EXCEPT ![s] = @ \cup {t}]
  /\ UNCHANGED <<resvVars, batchVars, tgt, prev, cnt, callVars, clientVars>>

\* The batch has no entry left for an active reservation: it stays local.
ScanGiveUp(s, t) ==
  /\ pc[s] = "scan"
  /\ t \in todo[s]
  /\ head[t] # INACTIVE
  /\ Cardinality(marked[s]) >= Len(entries[cur[s]])
  /\ todo' = [todo EXCEPT ![s] = {}]
  /\ marked' = [marked EXCEPT ![s] = {}]
  /\ cur' = [cur EXCEPT ![s] = NULL]
  /\ pc' = [pc EXCEPT ![s] = "user"]
  /\ UNCHANGED <<resvVars, batchVars, tgt, prev, cnt, list, idx, stack, clientVars>>

\* Mutant: the local batch is not reset.
PublishKeep(s) ==
  /\ pc[s] = "scan"
  /\ todo[s] = {}
  /\ pc' = [pc EXCEPT ![s] = "link"]
  /\ UNCHANGED <<resvVars, batchVars, retireVars, cur, list, idx, stack, clientVars>>

\* Every reservation has been visited: detach the batch from the slot.
Publish(s) ==
  /\ pc[s] = "scan"
  /\ todo[s] = {}
  /\ batch' = [batch EXCEPT ![s] = NULL]
  /\ pc' = [pc EXCEPT ![s] = "link"]
  /\ UNCHANGED <<resvVars, alive, entries, active, retireVars, cur, list, idx, stack, clientVars>>

\* The link loop takes the next marked reservation and loads its head.
LinkLoad(s, t) ==
  /\ pc[s] = "link"
  /\ t \in marked[s]
  /\ tgt' = [tgt EXCEPT ![s] = t]
  /\ prev' = [prev EXCEPT ![s] = Top(head[t])]
  /\ pc' = [pc EXCEPT ![s] = "cas"]
  /\ UNCHANGED <<resvVars, batchVars, todo, marked, cnt, cur, list, idx, stack, clientVars>>

\* `continue 'retire` or `break`: done with the current reservation.
LinkNext(s) ==
  /\ marked' = [marked EXCEPT ![s] = @ \ {tgt[s]}]
  /\ tgt' = [tgt EXCEPT ![s] = NULL]
  /\ prev' = [prev EXCEPT ![s] = NULL]
  /\ pc' = [pc EXCEPT ![s] = "link"]
  /\ UNCHANGED <<todo, cur, list, idx, stack>>

\* Mutant: a skipped reservation is counted as linked.
LinkSkipCounted(s) ==
  /\ pc[s] = "cas"
  /\ prev[s] = INACTIVE
  /\ cnt' = [cnt EXCEPT ![s] = @ + 1]
  /\ LinkNext(s)
  /\ UNCHANGED <<resvVars, batchVars, clientVars>>

\* The reservation became inactive since the barrier: skip it.
LinkSkip(s) ==
  /\ pc[s] = "cas"
  /\ prev[s] = INACTIVE
  /\ LinkNext(s)
  /\ UNCHANGED <<resvVars, batchVars, cnt, clientVars>>

\* The compare_exchange succeeds: the entry is the head of the list.
LinkCas(s) ==
  /\ pc[s] = "cas"
  /\ prev[s] # INACTIVE
  /\ Top(head[tgt[s]]) = prev[s]
  /\ head' = [head EXCEPT ![tgt[s]] = <<cur[s]>> \o @]
  /\ cnt' = [cnt EXCEPT ![s] = @ + 1]
  /\ LinkNext(s)
  /\ UNCHANGED <<buffered, guards, batchVars, clientVars>>

\* The compare_exchange fails: retry with the head it found.
LinkRetry(s) ==
  /\ pc[s] = "cas"
  /\ prev[s] # INACTIVE
  /\ Top(head[tgt[s]]) # prev[s]
  /\ prev' = [prev EXCEPT ![s] = Top(head[tgt[s]])]
  /\ UNCHANGED <<resvVars, batchVars, todo, marked, tgt, cnt, callVars, clientVars>>

\* Mutant: the retirer never frees, even if every slot has left already.
CountOnly(s) ==
  /\ pc[s] = "link"
  /\ marked[s] = {}
  /\ active' = [active EXCEPT ![cur[s]] = WrapAdd(@, cnt[s])]
  /\ cnt' = [cnt EXCEPT ![s] = 0]
  /\ pc' = [pc EXCEPT ![s] = "user"]
  /\ cur' = [cur EXCEPT ![s] = NULL]
  /\ UNCHANGED <<resvVars, batch, alive, entries, todo, marked, tgt, prev,
                 list, idx, stack, clientVars>>

\* fetch_add of the number of lists linked; free the batch at zero.
Count(s) ==
  LET n == WrapAdd(active[cur[s]], cnt[s]) IN
  /\ pc[s] = "link"
  /\ marked[s] = {}
  /\ active' = [active EXCEPT ![cur[s]] = n]
  /\ cnt' = [cnt EXCEPT ![s] = 0]
  /\ pc' = [pc EXCEPT ![s] = IF n = 0 THEN "free" ELSE "user"]
  /\ cur' = [cur EXCEPT ![s] = IF n = 0 THEN @ ELSE NULL]
  /\ UNCHANGED <<resvVars, batch, alive, entries, todo, marked, tgt, prev,
                 list, idx, stack, clientVars>>

-----------------------------------------------------------------------------
(* Traversal of a reservation list, and reclamation of a batch. *)

\* traverse: read the entry, and advance the cursor past it.
Traverse(s) ==
  /\ pc[s] = "traverse"
  /\ cur' = [cur EXCEPT ![s] = Head(list[s])]
  /\ list' = [list EXCEPT ![s] = Tail(@)]
  /\ pc' = [pc EXCEPT ![s] = "dec"]
  /\ UNCHANGED <<resvVars, batchVars, retireVars, idx, stack, clientVars>>

\* Mutant: the result of fetch_sub is taken for the new value.
DecEarly(s) ==
  LET last == active[cur[s]] = 2 IN
  /\ pc[s] = "dec"
  /\ active' = [active EXCEPT ![cur[s]] = WrapDec(@)]
  /\ pc' = [pc EXCEPT ![s] = IF last THEN "free" ELSE Resume(list[s])]
  /\ cur' = [cur EXCEPT ![s] = IF last THEN @ ELSE NULL]
  /\ UNCHANGED <<resvVars, batch, alive, entries, retireVars, list, idx, stack, clientVars>>

\* fetch_sub of the batch; the last reference frees it.
Dec(s) ==
  LET last == active[cur[s]] = 1 IN
  /\ pc[s] = "dec"
  /\ active' = [active EXCEPT ![cur[s]] = WrapDec(@)]
  /\ pc' = [pc EXCEPT ![s] = IF last THEN "free" ELSE Resume(list[s])]
  /\ cur' = [cur EXCEPT ![s] = IF last THEN @ ELSE NULL]
  /\ UNCHANGED <<resvVars, batch, alive, entries, retireVars, list, idx, stack, clientVars>>

\* free_batch: run the next reclaimer, which drops the object and does not use
\* the collector.
Reclaim(s) ==
  /\ pc[s] = "free"
  /\ idx[s] <= Len(entries[cur[s]])
  /\ obj' = [obj EXCEPT ![entries[cur[s]][idx[s]]] = "reclaimed"]
  /\ idx' = [idx EXCEPT ![s] = @ + 1]
  /\ UNCHANGED <<resvVars, batchVars, retireVars, pc, cur, list, stack, cell, held>>

\* free_batch: the next reclaimer drops the object and goes on to use the
\* collector: it may enter, retire and flush like any user code.
ReclaimCall(s) ==
  /\ pc[s] = "free"
  /\ idx[s] <= Len(entries[cur[s]])
  /\ Len(stack[s]) < MaxDepth
  /\ obj' = [obj EXCEPT ![entries[cur[s]][idx[s]]] = "reclaimed"]
  /\ stack' = [stack EXCEPT ![s] = Append(@, [batch |-> cur[s], idx |-> idx[s] + 1,
                                              list |-> list[s], base |-> guards[s]])]
  /\ cur' = [cur EXCEPT ![s] = NULL]
  /\ idx' = [idx EXCEPT ![s] = 1]
  /\ list' = [list EXCEPT ![s] = <<>>]
  /\ pc' = [pc EXCEPT ![s] = "user"]
  /\ UNCHANGED <<resvVars, batchVars, retireVars, cell, held>>

\* The reclaimer returns, its guards dropped, and free_batch goes on.
ReclaimReturn(s) ==
  /\ pc[s] = "user"
  /\ stack[s] # <<>>
  /\ guards[s] = Base(s)
  /\ LET f == stack[s][Len(stack[s])] IN
       /\ cur' = [cur EXCEPT ![s] = f.batch]
       /\ idx' = [idx EXCEPT ![s] = f.idx]
       /\ list' = [list EXCEPT ![s] = f.list]
  /\ stack' = [stack EXCEPT ![s] = SubSeq(@, 1, Len(@) - 1)]
  /\ pc' = [pc EXCEPT ![s] = "free"]
  /\ UNCHANGED <<resvVars, batchVars, retireVars, clientVars>>

\* free_batch: every reclaimer has run; LocalBatch::free deallocates the batch.
Dealloc(s) ==
  /\ pc[s] = "free"
  /\ idx[s] > Len(entries[cur[s]])
  /\ alive' = alive \ {cur[s]}
  /\ entries' = [entries EXCEPT ![cur[s]] = <<>>]
  /\ active' = [active EXCEPT ![cur[s]] = 0]
  /\ cur' = [cur EXCEPT ![s] = NULL]
  /\ idx' = [idx EXCEPT ![s] = 1]
  /\ pc' = [pc EXCEPT ![s] = Resume(list[s])]
  /\ UNCHANGED <<resvVars, batch, retireVars, list, stack, clientVars>>

-----------------------------------------------------------------------------
\* The steps a slot takes inside an operation of the collector.
Internal(s) ==
  \/ HeavyReturn(s) \/ Publish(s)
  \/ \E t \in Slots : Interrupt(s, t)
  \/ \E t \in Slots : ScanSkip(s, t) \/ ScanMark(s, t) \/ ScanGiveUp(s, t) \/ LinkLoad(s, t)
  \/ LinkSkip(s) \/ LinkCas(s) \/ LinkRetry(s) \/ Count(s)
  \/ Traverse(s) \/ Dec(s)
  \/ Reclaim(s) \/ ReclaimCall(s) \/ Dealloc(s)

\* The calls of the application, and of reclaimers that use the collector.
User(s) ==
  \/ Enter(s) \/ Leave(s) \/ Refresh(s) \/ Flush(s) \/ Reserve(s)
  \/ \E c \in Cells : Protect(s, c) \/ \E n \in Objects \cup {NULL} : Swap(s, c, n)
  \/ \E o \in Objects : Add(s, o)
  \/ ReclaimReturn(s)

Next == \E s \in Slots : Drain(s) \/ Internal(s) \/ User(s)

Spec == Init /\ [][Next]_vars

\* A slot that is inside the collector keeps running; a slot's last guard does
\* not live forever, and reclaimers return.
Fairness == \A s \in Slots : /\ WF_vars(Internal(s))
                             /\ SF_vars(Leave(s) /\ guards[s] = 1)
                             /\ SF_vars(ReclaimReturn(s))

FairSpec == Spec /\ Fairness

-----------------------------------------------------------------------------
(* Who refers to a batch. *)

Elems(q) == {q[i] : i \in 1 .. Len(q)}

\* The batches in the interrupted traversals of a call stack, and those whose
\* free_batch is interrupted.
ListsOf(st) == UNION {Elems(st[i].list) : i \in 1 .. Len(st)}
BatchesOf(st) == {st[i].batch : i \in 1 .. Len(st)}

\* The batches in the reservation list of slot s.
Linked(s) == IF head[s] = INACTIVE THEN {} ELSE Elems(head[s])

\* The batches slot s has taken out of its list and not yet decremented, in the
\* traversal it is in and in those its reclaimers interrupted.
Pending(s) ==
  Elems(list[s]) \cup (IF pc[s] = "dec" THEN {cur[s]} ELSE {})
                 \cup ListsOf(stack[s])

Reach(s) == Linked(s) \cup Pending(s)

\* The slots that will still decrement the reference count of batch b.
Refs(b) == {s \in Slots : b \in Reach(s)}

\* The slots whose try_retire has detached b and not yet added its count.
Linking(s) == pc[s] \in {"link", "cas"}
Linkers(b) == {s \in Slots : Linking(s) /\ cur[s] = b}

\* The pairs (slot, cursor) of the free_batch calls on b, running or suspended.
Freeing(b) ==
  {<<s, idx[s]>> : s \in {r \in Slots : pc[r] = "free" /\ cur[r] = b}}
    \cup UNION {{<<s, stack[s][i].idx>> :
                    i \in {j \in 1 .. Len(stack[s]) : stack[s][j].batch = b}} : s \in Slots}

\* The slots that have b as their local batch.
Owners(b) == {s \in Slots : batch[s] = b}

-----------------------------------------------------------------------------
(* Properties. *)

\* What a guard is for: an object loaded through a guard, or retired under it,
\* is not reclaimed while the guards of that slot live (Guard::protect,
\* Guard::defer_retire), whatever the other slots do.
NoUseAfterReclaim ==
  \A s \in Slots : \A o \in held[s] : obj[o] # "reclaimed"

\* The reference count protocol of try_retire and traverse: the count of a batch
\* is the number of slots still to decrement it, less the links its retirer
\* has made and not yet added (modulo 2^w: it may wrap below zero meanwhile).
RefCount ==
  /\ \A s \in Slots : Linking(s) =>
       WrapAdd(active[cur[s]], cnt[s]) = Cardinality(Refs(cur[s]))
  /\ \A b \in alive : Linkers(b) = {} => active[b] = Cardinality(Refs(b))

\* A batch has one entry per reservation list it can be in: what is linked,
\* being traversed and still marked never exceeds its entries.
EntryPerLink ==
  /\ \A b \in alive : Cardinality(Refs(b)) <= Len(entries[b])
  /\ \A s \in Slots : Linking(s) =>
       Cardinality(Refs(cur[s]) \cup marked[s]) <= Len(entries[cur[s]])

\* A batch reached through a reservation list or a traversal is allocated: no
\* slot reads an Entry, or decrements a count, in freed memory.
ListsAlive == \A s \in Slots : Reach(s) \subseteq alive

\* A batch is freed by one slot, which no one else can reach, and the entries
\* the cursor has yet to visit have not been reclaimed: nothing is freed twice.
FreeOnce ==
  \A b \in Batches : Freeing(b) # {} =>
    /\ Cardinality(Freeing(b)) = 1
    /\ b \in alive
    /\ Refs(b) \cup Owners(b) \cup Linkers(b) = {}
    /\ \A f \in Freeing(b) : \A i \in 1 .. Len(entries[b]) :
         i >= f[2] => obj[entries[b][i]] = "retired"

\* When no slot is in the collector and no guard lives, everything retired has
\* been reclaimed, except what still waits in a local batch.
NoLeakWhenQuiescent ==
  (\A s \in Slots : pc[s] = "user" /\ stack[s] = <<>> /\ guards[s] = 0)
    => /\ \A b \in alive : Owners(b) # {}
       /\ \A o \in Objects : obj[o] = "retired" => \E b \in alive : o \in Elems(entries[b])

\* flush and defer_retire under a guard of the calling slot never reclaim: the
\* batch is always linked to the slot's own list first.  This is why an
\* OwnedGuard can run them with its lock held and not deadlock on a reclaimer.
NoReclaimUnderGuard ==
  [][\A s \in Slots : pc[s] = "link" /\ pc'[s] = "free" => guards[s] = 0]_vars

\* An object that has left its local batch is eventually reclaimed, if guards
\* are dropped and reclaimers return.
PublishedIsReclaimed ==
  \A o \in Objects :
    (obj[o] = "retired" /\ \A s \in Slots : batch[s] # NULL => o \notin Elems(entries[batch[s]]))
      ~> obj[o] = "reclaimed"
=============================================================================
