----------------------------- MODULE ReclaimAll -----------------------------
(***************************************************************************)
(* Collector::reclaim_all and Drop for Collector (src/src/raw/collector.rs), *)
(* on top of Hyaline: a thread that has the collector to itself sweeps the  *)
(* local batches of all slots and frees them, whatever their size.          *)
(*                                                                          *)
(* While the batch of a slot is being freed, its LocalBatch is DROP.  The   *)
(* reclaimers run by the sweep may use the collector: a retirement on that  *)
(* slot reclaims at once, one on another slot fills a batch as usual.  They *)
(* may also put other slots to work (Helpers): OwnedGuards, or threads that *)
(* are done when the reclaimer returns.                                     *)
(*                                                                          *)
(* The sweep visits the slots in the order of their ids, and the sweeping   *)
(* thread may have any of them, so that the order is arbitrary here.  A     *)
(* slot that has no entry in the table of batches is one whose batch is     *)
(* null: both are skipped.                                                  *)
(***************************************************************************)
EXTENDS Hyaline

CONSTANTS DROP,     \* LocalBatch::DROP
          Helpers   \* reclaimers of the sweep may use other slots

ASSUME DropAssumption == DROP \notin Batches \cup {NULL}
ASSUME HelpersAssumption == Helpers \in BOOLEAN

VARIABLES
  sweep,    \* the slot of the thread that is in reclaim_all, or NULL
  left,     \* the slots the iterator over the batches has yet to visit
  at,       \* the slot whose batch is being freed, or NULL
  closing,  \* reclaim_all was called by Drop for Collector
  gone,     \* the collector was dropped
  before,   \* history: what was retired when the sweep started
  early     \* history: what was reclaimed by the retirement itself

sweepVars == <<sweep, left, at, closing, gone>>
historyVars == <<before, early>>
allVars == <<vars, sweepVars, historyVars>>

SweepInit ==
  /\ Init
  /\ sweep = NULL /\ left = {} /\ at = NULL /\ closing = FALSE /\ gone = FALSE
  /\ before = {} /\ early = {}

-----------------------------------------------------------------------------
(* The sweep. *)

Idle(s) == pc[s] = "user" /\ stack[s] = <<>> /\ guards[s] = 0

\* Collector::reclaim_all, or Drop for Collector.  The caller guarantees that no
\* thread is active and that the collector is in no other use.
SweepStart(s, drop) ==
  /\ ~gone
  /\ sweep = NULL
  /\ \A t \in Slots : Idle(t)
  /\ sweep' = s
  /\ left' = Slots
  /\ closing' = drop
  /\ pc' = [pc EXCEPT ![s] = "sweep"]
  /\ before' = {o \in Objects : obj[o] = "retired"}
  /\ early' = {}
  /\ UNCHANGED <<at, gone, resvVars, batchVars, retireVars, cur, list, idx, stack, clientVars>>

\* Mutant: a batch that is not full is left alone, as in add.
SweepSkipSmall(s, t) ==
  /\ pc[s] = "sweep"
  /\ t \in left
  /\ batch[t] # NULL => Len(entries[batch[t]]) < BatchSize
  /\ left' = left \ {t}
  /\ UNCHANGED <<sweep, at, closing, gone, historyVars, vars>>

\* The slot has no batch: continue.
SweepSkip(s, t) ==
  /\ pc[s] = "sweep"
  /\ t \in left
  /\ batch[t] = NULL
  /\ left' = left \ {t}
  /\ UNCHANGED <<sweep, at, closing, gone, historyVars, vars>>

\* Mutant: the batch stays in its LocalBatch while it is freed.
SweepBatchKeep(s, t) ==
  /\ pc[s] = "sweep"
  /\ t \in left
  /\ batch[t] # NULL
  /\ left' = left \ {t}
  /\ at' = t
  /\ cur' = [cur EXCEPT ![s] = batch[t]]
  /\ pc' = [pc EXCEPT ![s] = "free"]
  /\ UNCHANGED <<sweep, closing, gone, historyVars, resvVars, batchVars, retireVars,
                 list, idx, stack, clientVars>>

\* The slot has a batch: mark the slot, and call free_batch.
SweepBatch(s, t) ==
  /\ pc[s] = "sweep"
  /\ t \in left
  /\ batch[t] # NULL
  /\ left' = left \ {t}
  /\ at' = t
  /\ batch' = [batch EXCEPT ![t] = DROP]
  /\ cur' = [cur EXCEPT ![s] = batch[t]]
  /\ pc' = [pc EXCEPT ![s] = "free"]
  /\ UNCHANGED <<sweep, closing, gone, historyVars, resvVars, alive, entries, active, retireVars,
                 list, idx, stack, clientVars>>

\* The free_batch called by the sweep, and not by a reclaimer it runs, has run
\* every reclaimer.
SweepFreed(s) == sweep = s /\ pc[s] = "free" /\ stack[s] = <<>> /\ idx[s] > Len(entries[cur[s]])

\* Mutant: the entries are reclaimed, and the batch itself is not freed.
FreeSweptKeep(s) ==
  /\ cur' = [cur EXCEPT ![s] = NULL]
  /\ idx' = [idx EXCEPT ![s] = 1]
  /\ pc' = [pc EXCEPT ![s] = "sweep"]
  /\ UNCHANGED <<alive, entries, active>>

\* LocalBatch::free of the batch that was swept.
FreeSwept(s) ==
  /\ alive' = alive \ {cur[s]}
  /\ entries' = [entries EXCEPT ![cur[s]] = <<>>]
  /\ active' = [active EXCEPT ![cur[s]] = 0]
  /\ cur' = [cur EXCEPT ![s] = NULL]
  /\ idx' = [idx EXCEPT ![s] = 1]
  /\ pc' = [pc EXCEPT ![s] = "sweep"]

\* Mutant: the slot stays marked.
SweepNextMarked(s) ==
  /\ SweepFreed(s)
  /\ FreeSwept(s)
  /\ at' = NULL
  /\ UNCHANGED <<sweep, left, closing, gone, historyVars, resvVars, batch, retireVars,
                 list, stack, clientVars>>

\* free_batch returns, and the LocalBatch is reset to null.
SweepNext(s) ==
  /\ SweepFreed(s)
  /\ FreeSwept(s)
  /\ at' = NULL
  /\ batch' = [batch EXCEPT ![at] = NULL]
  /\ UNCHANGED <<sweep, left, closing, gone, historyVars, resvVars, retireVars,
                 list, stack, clientVars>>

\* Mutant: the iterator stops one slot early.
SweepEndEarly(s) ==
  /\ pc[s] = "sweep"
  /\ Cardinality(left) <= 1
  /\ sweep' = NULL
  /\ gone' = closing
  /\ pc' = [pc EXCEPT ![s] = "user"]
  /\ UNCHANGED <<left, at, closing, historyVars, resvVars, batchVars, retireVars,
                 cur, list, idx, stack, clientVars>>

\* The iterator is done.  After Drop there is no collector any more: the fields
\* are dropped, and with them the LocalBatches, which free nothing.
SweepEnd(s) ==
  /\ pc[s] = "sweep"
  /\ left = {}
  /\ sweep' = NULL
  /\ gone' = closing
  /\ pc' = [pc EXCEPT ![s] = "user"]
  /\ UNCHANGED <<left, at, closing, historyVars, resvVars, batchVars, retireVars,
                 cur, list, idx, stack, clientVars>>

-----------------------------------------------------------------------------
(* The other operations, when a sweep may be under way. *)

\* Slot s may take a step: the collector exists, and a thread that is in
\* reclaim_all shares it only with what its reclaimers use.
MayRun(s) == ~gone /\ sweep \in {NULL, s} \cup {t \in Slots : Helpers /\ stack[t] # <<>>}

\* Collector::add on a marked slot: the reclaimer is called at once.  What it does
\* with the collector is what the caller might do next, for nothing follows it.
AddDrop(s, o) ==
  /\ pc[s] = "user"
  /\ batch[s] = DROP
  /\ obj[o] \in {"fresh", "unlinked"}
  /\ obj' = [obj EXCEPT ![o] = "reclaimed"]
  /\ held' = [held EXCEPT ![s] = IF guards[s] > Base(s) THEN @ \cup {o} ELSE @]
  /\ early' = early \cup {o}
  /\ UNCHANGED <<sweepVars, before, resvVars, batchVars, retireVars, callVars, cell>>

\* Collector::add on any other slot.
AddBatch(s, o) ==
  /\ batch[s] # DROP
  /\ Add(s, o)
  /\ UNCHANGED <<sweepVars, historyVars>>

\* try_retire on a marked slot: the barrier returns, and there is nothing to retire.
HeavyDrop(s) ==
  /\ pc[s] = "heavy"
  /\ todo[s] = {}
  /\ batch[s] = DROP
  /\ pc' = [pc EXCEPT ![s] = "user"]
  /\ UNCHANGED <<sweepVars, historyVars, resvVars, batchVars, retireVars, cur, list, idx, stack,
                 clientVars>>

\* A reclaimer of the sweep returns when what it put to work is done.
Return(s) ==
  /\ sweep = s /\ Len(stack[s]) = 1 => \A t \in Slots \ {s} : Idle(t)
  /\ ReclaimReturn(s)

\* Everything else is as in Hyaline.  reserve_retire finds a marked slot ready.
Plain(s) ==
  /\ \/ batch[s] # DROP /\ HeavyReturn(s)
     \/ ~SweepFreed(s) /\ Dealloc(s)
     \/ \E t \in Slots : Interrupt(s, t)
     \/ \E t \in Slots : ScanSkip(s, t) \/ ScanMark(s, t) \/ ScanGiveUp(s, t) \/ LinkLoad(s, t)
     \/ Publish(s) \/ LinkSkip(s) \/ LinkCas(s) \/ LinkRetry(s) \/ Count(s)
     \/ Traverse(s) \/ Dec(s) \/ Reclaim(s) \/ ReclaimCall(s) \/ Return(s)
     \/ Enter(s) \/ Leave(s) \/ Refresh(s) \/ Flush(s) \/ Reserve(s)
     \/ \E c \in Cells : Protect(s, c) \/ \E n \in Objects \cup {NULL} : Swap(s, c, n)
  /\ UNCHANGED <<sweepVars, historyVars>>

Sweep(s) ==
  \/ \E drop \in BOOLEAN : SweepStart(s, drop)
  \/ \E t \in Slots : SweepSkip(s, t) \/ SweepBatch(s, t)
  \/ SweepNext(s) \/ SweepEnd(s)

SweepStep(s) ==
  \/ Sweep(s)
  \/ MayRun(s) /\ (Plain(s) \/ HeavyDrop(s) \/ \E o \in Objects : AddDrop(s, o) \/ AddBatch(s, o))
  \/ Drain(s) /\ UNCHANGED <<sweepVars, historyVars>>

SweepSpec == SweepInit /\ [][\E s \in Slots : SweepStep(s)]_allVars

-----------------------------------------------------------------------------
(* Properties. *)

\* After reclaim_all, what had been retired before the call, on any slot, has been
\* reclaimed, although reclaimers publish and refill batches under the sweep.
RetiredBeforeReclaimed ==
  sweep = NULL => \A o \in before : obj[o] = "reclaimed"

\* Guards keep their promise before, during and after a sweep, for everything but
\* what is retired on a slot while the sweep has marked it.
GuardsOutliveSweep ==
  \A s \in Slots : \A o \in held[s] :
    obj[o] = "reclaimed" => sweep # NULL /\ o \in early

\* When reclaim_all returns, no batch is left but the local ones: a batch that was
\* published, swept or freed by a reclaimer is not lost under the sweep.
NoLeakAfterSweep ==
  sweep = NULL /\ (\A s \in Slots : Idle(s)) => \A b \in alive : Owners(b) # {}

\* The collector with its sweep implements what reclaim_all, Drop and the guards
\* promise together: an object is reclaimed once, not under a guard that protects
\* it unless the retirement itself reclaimed it, and after a call nothing that
\* was retired before it is left.
Promise == INSTANCE Sweeping WITH due <- before
ImplementsSweeping == Promise!SweepingSpec
=============================================================================
