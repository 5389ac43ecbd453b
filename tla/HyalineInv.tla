----------------------------- MODULE HyalineInv -----------------------------
(***************************************************************************)
(* The inductive invariant of Hyaline: what is true between any two steps   *)
(* and is preserved by each, from which the properties of Hyaline follow.   *)
(***************************************************************************)
EXTENDS Hyaline

NoDup(q) == \A i, j \in 1 .. Len(q) : q[i] = q[j] => i = j

\* The suspended calls of a stack are about different batches, and so are the
\* traversals they interrupted.
DistinctFrames(st) ==
  \A i \in 1 .. Len(st) :
    /\ NoDup(st[i].list)
    /\ \A j \in 1 .. Len(st) :
         i # j => st[i].batch # st[j].batch /\ Elems(st[i].list) \cap Elems(st[j].list) = {}

\* The batches only slot s can reach: its local batch, and those it is freeing.
Private(s) == ({batch[s]} \ {NULL}) \cup (IF pc[s] = "free" THEN {cur[s]} ELSE {})
                                    \cup BatchesOf(stack[s])

\* The batches slot s is responsible for: its private ones and the one it links.
Owned(s) == Private(s) \cup (IF Linking(s) THEN {cur[s]} ELSE {})

-----------------------------------------------------------------------------
\* What the position of a slot in the code says about its local variables.
Control ==
  \A s \in Slots :
    /\ pc[s] \notin {"traverse", "dec", "free"} => list[s] = <<>>
    /\ pc[s] = "traverse" => list[s] # <<>>
    /\ pc[s] = "scan" => batch[s] \in Batches /\ cur[s] = batch[s]
    /\ pc[s] \in {"link", "cas", "dec", "free"} => cur[s] \in Batches
    /\ pc[s] = "cas" => tgt[s] \in marked[s]
    /\ ~Linking(s) => cnt[s] = 0
    /\ pc[s] \notin {"scan", "link", "cas"} => marked[s] = {}
    /\ pc[s] # "free" => idx[s] = 1

\* A slot is marked active exactly while it has guards, up to the store buffer.
Activity ==
  \A s \in Slots :
    /\ guards[s] > 0 <=> head[s] # INACTIVE \/ buffered[s]
    /\ buffered[s] => head[s] = INACTIVE /\ FastBarrier
    /\ held[s] # {} => guards[s] > 0

\* A batch has one owner.
Ownership ==
  /\ \A s, t \in Slots : s # t => Owned(s) \cap Owned(t) = {}
  /\ \A s \in Slots : Owned(s) \subseteq alive

\* A slot has a batch at most once: in its local batch, in the call it is in or
\* in a suspended one; and it meets a batch at most once, in its list or in
\* one of its traversals.
Tidy(s) ==
  /\ head[s] # INACTIVE => NoDup(head[s])
  /\ NoDup(list[s])
  /\ DistinctFrames(stack[s])
  /\ Linked(s) \cap Pending(s) = {}
  /\ Elems(list[s]) \cap ListsOf(stack[s]) = {}
  /\ pc[s] = "dec" => cur[s] \notin Elems(list[s]) \cup ListsOf(stack[s])
  /\ batch[s] \notin BatchesOf(stack[s])
  /\ pc[s] \in {"link", "cas", "free"} => cur[s] \notin BatchesOf(stack[s]) \cup {batch[s]}

Distinct == \A s \in Slots : Tidy(s)

\* What a slot reaches is allocated and private to no one; what is marked has
\* not been linked yet.
Reachable ==
  /\ \A s \in Slots : Reach(s) \subseteq alive
  /\ \A s, t \in Slots : Private(s) \cap Reach(t) = {}
  /\ \A s, t \in Slots : Linking(s) /\ t \in marked[s] => cur[s] \notin Reach(t)

\* The links made account for the references, and there is one per slot at most.
Links ==
  \A s \in Slots : Linking(s) =>
    /\ Cardinality(Refs(cur[s])) <= cnt[s]
    /\ cnt[s] + Cardinality(marked[s]) <= Cardinality(Slots)

\* A batch that is not allocated is as Batch::new will make it.
Unallocated == \A b \in Batches \ alive : entries[b] = <<>> /\ active[b] = 0

\* An allocated batch has an owner, or someone who will decrement its count.
Accounted == \A b \in alive : Refs(b) # {} \/ \E s \in Slots : b \in Owned(s)

\* Where the objects are: in one cell, or in one entry of one batch.
Located ==
  /\ \A c \in Cells : cell[c] # NULL => obj[cell[c]] = "shared"
  /\ \A c, d \in Cells : cell[c] # NULL /\ cell[c] = cell[d] => c = d
  /\ \A b \in Batches : \A i \in 1 .. Len(entries[b]) :
       obj[entries[b][i]] \in {"retired", "reclaimed"}
  /\ \A a, b \in Batches : \A i \in 1 .. Len(entries[a]) : \A j \in 1 .. Len(entries[b]) :
       entries[a][i] = entries[b][j] => a = b /\ i = j

\* The entries of batch b from the n-th on are not reclaimed.
Waiting(b, n) == \A i \in 1 .. Len(entries[b]) : i >= n => obj[entries[b][i]] = "retired"

\* The free_batch calls on b.
Busy(b) == \E s \in Slots : b \in BatchesOf(stack[s]) \/ (pc[s] = "free" /\ cur[s] = b)

\* What free_batch has yet to reclaim is retired, and so is every entry of a
\* batch that is not being freed.
Cursors ==
  /\ \A s \in Slots : idx[s] >= 1 /\ (pc[s] = "free" => Waiting(cur[s], idx[s]))
  /\ \A s \in Slots : \A k \in 1 .. Len(stack[s]) :
       stack[s][k].idx >= 1 /\ Waiting(stack[s][k].batch, stack[s][k].idx)
  /\ \A b \in Batches : ~Busy(b) => Waiting(b, 1)

\* The barrier of slot t waits for the store of slot s, and then the scan and the
\* link loop cannot miss slot s.
Caught(t, s) ==
  /\ pc[t] = "heavy" /\ buffered[s] => s \in todo[t]
  /\ pc[t] \in {"scan", "link", "cas"} => head[s] # INACTIVE
  /\ pc[t] = "scan" => s \in todo[t] \cup marked[t]
  /\ Linking(t) => s \in marked[t] \/ cur[t] \in Linked(s)
  /\ pc[t] = "cas" /\ tgt[t] = s => prev[t] # INACTIVE

\* Slot t is retiring batch b, and has begun its barrier.
Retires(t, b) == \/ pc[t] = "heavy" /\ batch[t] = b
                 \/ pc[t] \in {"scan", "link", "cas"} /\ cur[t] = b

\* The grace period: a retired object that a slot still holds is in a batch
\* that is local, or whose retirer cannot miss that slot, or that is in its list.
Grace ==
  \A s \in Slots : \A o \in held[s] :
    /\ obj[o] # "reclaimed"
    /\ \A b \in Batches : o \in Elems(entries[b]) =>
         /\ \A t \in Slots : Retires(t, b) => Caught(t, s)
         /\ b \in Linked(s) \/ \E t \in Slots : batch[t] = b \/ (Linking(t) /\ cur[t] = b)

\* A slot that retires under its own guard links the batch to its own list.
SelfCaught == \A s \in Slots : guards[s] > 0 => Caught(s, s)

\* The scan has marked no more reservations than the batch has entries.
Fits == \A s \in Slots : pc[s] = "scan" => Cardinality(marked[s]) <= Len(entries[cur[s]])

\* The properties of Hyaline follow from this conjunction, which every step of
\* the collector and of its clients preserves.
IndInv ==
  /\ TypeOK
  /\ Control
  /\ Activity
  /\ Ownership
  /\ Distinct
  /\ Reachable
  /\ Links
  /\ RefCount
  /\ Unallocated
  /\ Accounted
  /\ Located
  /\ Cursors
  /\ Grace
  /\ SelfCaught
  /\ EntryPerLink
  /\ Fits
-----------------------------------------------------------------------------
\* The collector as its users see it.
Abstract == INSTANCE Reclamation WITH
  Slots <- Slots, Objects <- Objects, Cells <- Cells, NULL <- NULL,
  guards <- guards, cell <- cell, obj <- obj, held <- held

\* raw::Collector implements what Guard and Collector promise: whatever its batches,
\* lists and counts do, its users see objects reclaimed once, after retirement,
\* and never under a guard that protects them.
ImplementsReclamation == Abstract!Spec
=============================================================================
