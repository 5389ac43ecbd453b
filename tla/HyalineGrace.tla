---------------------------- MODULE HyalineGrace ----------------------------
(***************************************************************************)
(* The grace period of Hyaline, for every value of its constants: what a    *)
(* slot holds is not reclaimed, a batch is freed once and nothing is lost.   *)
(* Rests on the structural invariant of HyalineStructure.                   *)
(***************************************************************************)
EXTENDS HyalineStructure

\* The inductive invariant of this module.
GInv == /\ SInv
        /\ Accounted
        /\ Located
        /\ Cursors
        /\ Grace
        /\ SelfCaught

\* The entries of batch b before the n-th are reclaimed.
Spent(b, n) == \A i \in 1 .. Len(entries[b]) : i < n => obj[entries[b][i]] = "reclaimed"

\* No object is lost: a retired object is in an allocated batch, and what a
\* free_batch has passed is reclaimed.
Kept ==
  /\ \A o \in Objects : obj[o] = "retired" => \E b \in alive : o \in Elems(entries[b])
  /\ \A s \in Slots : pc[s] = "free" => Spent(cur[s], idx[s])
  /\ \A s \in Slots : \A k \in 1 .. Len(stack[s]) : Spent(stack[s][k].batch, stack[s][k].idx)

\* The invariant with which nothing is leaked.
KInv == GInv /\ Kept

\* A step of slot s, or of its store buffer.
Step(s) == Drain(s) \/ Internal(s) \/ User(s)

-----------------------------------------------------------------------------
(* Objects: the steps that move or reclaim one. *)

\* The steps that change no cell, no object and no entry.
LEMMA SameObjects ==
  ASSUME NEW s \in Slots, Step(s)
  PROVE  \/ UNCHANGED <<cell, obj, entries>>
         \/ \E c \in Cells, n \in Objects \cup {NULL} : Swap(s, c, n)
         \/ \E o \in Objects : Add(s, o)
         \/ Reclaim(s) \/ ReclaimCall(s) \/ Dealloc(s)
<1>1. CASE Drain(s)
  BY <1>1 DEF Drain, batchVars, clientVars
<1>2. CASE Internal(s)
  BY <1>2 DEF Internal, HeavyReturn, Interrupt, Publish, ScanSkip, ScanMark, ScanGiveUp, LinkLoad, LinkSkip,
     LinkCas, LinkRetry, Count, Traverse, Dec, batchVars, clientVars
<1>3. CASE User(s)
  BY <1>3 DEF User, Enter, Leave, LeaveReservation, Refresh, Flush, Reserve, Protect, ReclaimReturn,
     batchVars, clientVars
<1> QED
  BY <1>1, <1>2, <1>3 DEF Step

\* An object that is not retired is in no batch.
LEMMA NotInBatch ==
  ASSUME Located, NEW o, obj[o] \notin {"retired", "reclaimed"}
  PROVE  \A b \in Batches : \A i \in 1 .. Len(entries[b]) : entries[b][i] # o
  BY DEF Located

\* An object is in one entry of one batch.
LEMMA OnePlace ==
  ASSUME Located, NEW a \in Batches, NEW b \in Batches,
         NEW i \in 1 .. Len(entries[a]), NEW j \in 1 .. Len(entries[b]),
         entries[a][i] = entries[b][j]
  PROVE  a = b /\ i = j
  BY DEF Located

\* What Add does to the entries.
LEMMA AddEntries ==
  ASSUME TypeOK, NEW s \in Slots, NEW o \in Objects, Add(s, o)
  PROVE  \E b \in Batches :
           /\ b \in GetOrInit(s) /\ batch' = [batch EXCEPT ![s] = b]
           /\ \A a \in Batches \ {b} : entries'[a] = entries[a]
           /\ Len(entries'[b]) = Len(entries[b]) + 1
           /\ \A i \in 1 .. Len(entries[b]) : entries'[b][i] = entries[b][i]
           /\ entries'[b][Len(entries[b]) + 1] = o
           /\ Len(entries[b]) \in Nat
<1>1. PICK b \in GetOrInit(s) : /\ batch' = [batch EXCEPT ![s] = b]
                                /\ entries' = [entries EXCEPT ![b] = Append(@, o)]
  BY DEF Add
<1>2. b \in Batches
  BY <1>1 DEF TypeOK, GetOrInit
<1>3. entries[b] \in Seq(Objects)
  BY <1>2 DEF TypeOK
<1>4. entries'[b] = Append(entries[b], o) /\ \A a \in Batches \ {b} : entries'[a] = entries[a]
  BY <1>1, <1>2 DEF TypeOK
<1>5. /\ Len(Append(entries[b], o)) = Len(entries[b]) + 1
      /\ \A i \in 1 .. Len(entries[b]) : Append(entries[b], o)[i] = entries[b][i]
      /\ Append(entries[b], o)[Len(entries[b]) + 1] = o
      /\ Len(entries[b]) \in Nat
  BY <1>3
<1> QED
  BY <1>1, <1>2, <1>4, <1>5

\* What free_batch reclaims is an entry of a batch that is its slot's alone.
LEMMA ReclaimEntry ==
  ASSUME SInv, Cursors, NEW s \in Slots, Reclaim(s) \/ ReclaimCall(s)
  PROVE  /\ pc[s] = "free" /\ cur[s] \in Batches /\ idx[s] \in 1 .. Len(entries[cur[s]])
         /\ obj' = [obj EXCEPT ![entries[cur[s]][idx[s]]] = "reclaimed"]
         /\ UNCHANGED <<cell, entries>>
         /\ cur[s] \in Private(s) /\ cur[s] \notin BatchesOf(stack[s]) \cup {batch[s]}
         /\ \A t \in Slots \ {s} : cur[s] \notin Owned(t)
         /\ \A t \in Slots : cur[s] \notin Reach(t)
<1>1. pc[s] = "free" /\ cur[s] \in Batches /\ idx[s] \in Nat
  BY DEF SInv, TypeOK, Control, Reclaim, ReclaimCall
<1>2. /\ idx[s] <= Len(entries[cur[s]])
      /\ obj' = [obj EXCEPT ![entries[cur[s]][idx[s]]] = "reclaimed"]
      /\ UNCHANGED <<cell, entries>>
  BY DEF Reclaim, ReclaimCall, batchVars
<1>3. cur[s] \in Private(s) /\ cur[s] \in Owned(s)
  BY <1>1 DEF Private, Owned
<1>4. cur[s] \notin BatchesOf(stack[s]) \cup {batch[s]}
  BY <1>1 DEF SInv, Structure, Distinct, Tidy
<1>5. \A t \in Slots \ {s} : cur[s] \notin Owned(t)
  BY <1>3 DEF SInv, Structure, Ownership
<1>6. \A t \in Slots : cur[s] \notin Reach(t)
  BY <1>3 DEF SInv, Structure, Reachable
<1>7. idx[s] \in 1 .. Len(entries[cur[s]])
  <2>1. Len(entries[cur[s]]) \in Nat /\ idx[s] >= 1
    BY <1>1 DEF SInv, TypeOK, Cursors
  <2> QED
    BY <1>1, <1>2, <2>1
<1> QED
  BY <1>1, <1>2, <1>3, <1>4, <1>5, <1>6, <1>7

\* Retired objects are the only ones in batches, and each is in one place.
LEMMA NextLocated ==
  ASSUME SInv, Located, Cursors, NEW s \in Slots, Step(s)
  PROVE  Located'
<1>1. CASE UNCHANGED <<cell, obj, entries>>
  BY <1>1 DEF Located
<1>2. ASSUME NEW c \in Cells, NEW n \in Objects \cup {NULL}, Swap(s, c, n) PROVE Located'
  <2>1. /\ cell' = [cell EXCEPT ![c] = n] /\ n # cell[c] /\ entries' = entries
        /\ n = NULL \/ (n \in Objects /\ obj[n] = "fresh")
        /\ obj' = [o \in Objects |-> IF o = n THEN "shared"
                                     ELSE IF o = cell[c] THEN "unlinked" ELSE obj[o]]
    BY <1>2 DEF Swap, batchVars
  <2>2. /\ cell'[c] = n /\ \A d \in Cells \ {c} : cell'[d] = cell[d]
        /\ \A d \in Cells : cell[d] \in Objects \cup {NULL}
    BY <2>1 DEF SInv, TypeOK
  <2>3. \A d \in Cells \ {c} : cell[d] # NULL => obj[cell[d]] = "shared" /\ cell[d] # n /\ cell[d] # cell[c]
    BY <2>1 DEF Located
  <2>4. \A d \in Cells : cell'[d] # NULL => obj'[cell'[d]] = "shared"
    BY <2>1, <2>2, <2>3, NullAssumption
  <2>5. \A d, e \in Cells : cell'[d] # NULL /\ cell'[d] = cell'[e] => d = e
    BY <2>1, <2>2, <2>3 DEF Located
  <2>6. \A o \in Objects : obj[o] \in {"retired", "reclaimed"} => obj'[o] = obj[o]
    <3>1. cell[c] \in Objects => obj[cell[c]] = "shared"
      BY NullAssumption DEF Located
    <3>2. ASSUME NEW o \in Objects, obj[o] \in {"retired", "reclaimed"} PROVE obj'[o] = obj[o]
      <4>1. o # n
        BY <2>1, <3>2, NullAssumption
      <4>2. o # cell[c]
        BY <3>1, <3>2
      <4> QED
        BY <2>1, <4>1, <4>2
    <3> QED
      BY <3>2
  <2>7. \A b \in Batches : \A i \in 1 .. Len(entries[b]) : entries[b][i] \in Objects
    BY DEF SInv, TypeOK
  <2> QED
    BY <2>1, <2>4, <2>5, <2>6, <2>7 DEF Located
<1>3. ASSUME NEW o \in Objects, Add(s, o) PROVE Located'
  <2>1. PICK b \in Batches :
           /\ \A a \in Batches \ {b} : entries'[a] = entries[a]
           /\ Len(entries'[b]) = Len(entries[b]) + 1
           /\ \A i \in 1 .. Len(entries[b]) : entries'[b][i] = entries[b][i]
           /\ entries'[b][Len(entries[b]) + 1] = o
           /\ Len(entries[b]) \in Nat
    BY <1>3, AddEntries DEF SInv
  <2>2. /\ obj[o] \in {"fresh", "unlinked"} /\ cell' = cell
        /\ obj'[o] = "retired" /\ \A p \in Objects \ {o} : obj'[p] = obj[p]
    BY <1>3 DEF Add, SInv, TypeOK
  <2>3. \A a \in Batches : \A i \in 1 .. Len(entries[a]) : entries[a][i] # o /\ entries[a][i] \in Objects
    <3>1. \A a \in Batches : \A i \in 1 .. Len(entries[a]) : entries[a][i] # o
      BY <2>2, NotInBatch
    <3>2. \A a \in Batches : \A i \in 1 .. Len(entries[a]) : entries[a][i] \in Objects
      BY DEF SInv, TypeOK
    <3> QED
      BY <3>1, <3>2
  <2>4. \A a \in Batches : \A i \in 1 .. Len(entries'[a]) :
          \/ i \in 1 .. Len(entries[a]) /\ entries'[a][i] = entries[a][i]
          \/ a = b /\ i = Len(entries[b]) + 1 /\ entries'[a][i] = o
    BY <2>1
  <2>5. \A c \in Cells : cell[c] # NULL => obj'[cell[c]] = "shared"
    <3>1. \A c \in Cells : cell[c] # NULL => cell[c] \in Objects \ {o} /\ obj[cell[c]] = "shared"
      BY <2>2 DEF Located, SInv, TypeOK
    <3> QED
      BY <2>2, <3>1
  <2>6. \A a \in Batches : \A i \in 1 .. Len(entries'[a]) : obj'[entries'[a][i]] \in {"retired", "reclaimed"}
    BY <2>2, <2>3, <2>4 DEF Located
  <2>7. \A a, d \in Batches : \A i \in 1 .. Len(entries'[a]) : \A j \in 1 .. Len(entries'[d]) :
          entries'[a][i] = entries'[d][j] => a = d /\ i = j
    <3> SUFFICES ASSUME NEW a \in Batches, NEW d \in Batches, NEW i \in 1 .. Len(entries'[a]),
                        NEW j \in 1 .. Len(entries'[d]), entries'[a][i] = entries'[d][j]
                 PROVE  a = d /\ i = j
      OBVIOUS
    <3>1. CASE i \in 1 .. Len(entries[a]) /\ j \in 1 .. Len(entries[d])
               /\ entries'[a][i] = entries[a][i] /\ entries'[d][j] = entries[d][j]
      <4>1. entries[a][i] = entries[d][j]
        BY <3>1
      <4> QED
        BY <3>1, <4>1, OnePlace
    <3>2. \/ i \in 1 .. Len(entries[a]) /\ entries'[a][i] = entries[a][i] /\ entries'[a][i] # o
          \/ a = b /\ i = Len(entries[b]) + 1 /\ entries'[a][i] = o
      <4>1. \/ i \in 1 .. Len(entries[a]) /\ entries'[a][i] = entries[a][i]
            \/ a = b /\ i = Len(entries[b]) + 1 /\ entries'[a][i] = o
        BY <2>4
      <4> QED
        BY <2>3, <4>1
    <3>3. \/ j \in 1 .. Len(entries[d]) /\ entries'[d][j] = entries[d][j] /\ entries'[d][j] # o
          \/ d = b /\ j = Len(entries[b]) + 1 /\ entries'[d][j] = o
      <4>1. \/ j \in 1 .. Len(entries[d]) /\ entries'[d][j] = entries[d][j]
            \/ d = b /\ j = Len(entries[b]) + 1 /\ entries'[d][j] = o
        BY <2>4
      <4> QED
        BY <2>3, <4>1
    <3> QED
      BY <3>1, <3>2, <3>3
  <2> QED
    BY <2>2, <2>5, <2>6, <2>7 DEF Located
<1>4. CASE Reclaim(s) \/ ReclaimCall(s)
  <2>1. PICK x \in Objects : x = entries[cur[s]][idx[s]] /\ obj[x] \in {"retired", "reclaimed"}
    BY <1>4, ReclaimEntry DEF SInv, TypeOK, Located
  <2>2. UNCHANGED <<cell, entries>> /\ obj' = [obj EXCEPT ![x] = "reclaimed"]
    BY <1>4, <2>1, ReclaimEntry
  <2>3. obj'[x] = "reclaimed" /\ \A p \in Objects \ {x} : obj'[p] = obj[p]
    BY <2>1, <2>2 DEF SInv, TypeOK
  <2>4. \A c \in Cells : cell[c] # NULL => cell[c] \in Objects \ {x}
    BY <2>1 DEF SInv, TypeOK, Located
  <2>5. \A b \in Batches : \A i \in 1 .. Len(entries[b]) : entries[b][i] \in Objects
    BY DEF SInv, TypeOK
  <2> QED
    BY <2>1, <2>2, <2>3, <2>4, <2>5 DEF Located
<1>5. CASE Dealloc(s)
  <2>1. PICK b \in Batches : b = cur[s]
    BY <1>5 DEF Dealloc, SInv, Control
  <2>2. UNCHANGED <<cell, obj>> /\ entries'[b] = <<>> /\ \A a \in Batches \ {b} : entries'[a] = entries[a]
    BY <1>5, <2>1 DEF Dealloc, clientVars, SInv, TypeOK
  <2>3. \A a \in Batches : \A i \in 1 .. Len(entries'[a]) : a # b /\ entries'[a] = entries[a]
    BY <2>2
  <2> QED
    BY <2>2, <2>3 DEF Located
<1> QED
  BY <1>1, <1>2, <1>3, <1>4, <1>5, SameObjects

-----------------------------------------------------------------------------
(* What a step of slot s does to the other slots, and to the lists. *)

\* The local variables of slot t keep their values.
Apart(t) ==
  /\ pc'[t] = pc[t] /\ cur'[t] = cur[t] /\ todo'[t] = todo[t] /\ marked'[t] = marked[t]
  /\ tgt'[t] = tgt[t] /\ prev'[t] = prev[t] /\ idx'[t] = idx[t] /\ stack'[t] = stack[t]
  /\ batch'[t] = batch[t] /\ guards'[t] = guards[t] /\ held'[t] = held[t]

\* A step of slot s writes no local variable of another slot.
LEMMA Others ==
  ASSUME TypeOK, NEW s \in Slots, Step(s), NEW t \in Slots, t # s
  PROVE  Apart(t)
<1> USE DEF Apart, TypeOK, resvVars, batchVars, retireVars, callVars, clientVars
<1>1. CASE Drain(s)
  BY <1>1 DEF Drain
<1>2. CASE Internal(s)
  <2>1. CASE HeavyReturn(s) \/ \E r \in Slots : Interrupt(s, r)
    BY <2>1 DEF HeavyReturn, Interrupt
  <2>2. CASE Publish(s)
    BY <2>2 DEF Publish
  <2>3. ASSUME NEW r \in Slots, ScanSkip(s, r) \/ ScanMark(s, r) \/ ScanGiveUp(s, r) \/ LinkLoad(s, r)
        PROVE  Apart(t)
    BY <2>3 DEF ScanSkip, ScanMark, ScanGiveUp, LinkLoad
  <2>4. CASE LinkSkip(s) \/ LinkRetry(s) \/ LinkCas(s)
    BY <2>4 DEF LinkSkip, LinkRetry, LinkCas, LinkNext
  <2>5. CASE Count(s)
    BY <2>5 DEF Count
  <2>6. CASE Traverse(s) \/ Dec(s)
    BY <2>6 DEF Traverse, Dec
  <2>7. CASE Reclaim(s)
    BY <2>7 DEF Reclaim
  <2>8. CASE ReclaimCall(s)
    BY <2>8 DEF ReclaimCall
  <2>9. CASE Dealloc(s)
    BY <2>9 DEF Dealloc
  <2> QED
    BY <1>2, <2>1, <2>2, <2>3, <2>4, <2>5, <2>6, <2>7, <2>8, <2>9 DEF Internal
<1>3. CASE User(s)
  <2>1. CASE Enter(s) \/ Flush(s)
    BY <2>1, TryRetireStep DEF Enter, Flush
  <2>2. CASE Leave(s)
    BY <2>2 DEF Leave, LeaveReservation, TraverseFrom
  <2>3. CASE Refresh(s)
    BY <2>3 DEF Refresh, TraverseFrom
  <2>4. CASE Reserve(s)
    BY <2>4 DEF Reserve
  <2>5. ASSUME NEW c \in Cells, Protect(s, c) PROVE Apart(t)
    BY <2>5 DEF Protect
  <2>6. ASSUME NEW c \in Cells, NEW n \in Objects \cup {NULL}, Swap(s, c, n) PROVE Apart(t)
    BY <2>6 DEF Swap
  <2>7. ASSUME NEW o \in Objects, Add(s, o) PROVE Apart(t)
    <3>1. pc'[t] = pc[t] /\ todo'[t] = todo[t]
      BY <2>7, AddStep
    <3> QED
      BY <2>7, <3>1 DEF Add
  <2>8. CASE ReclaimReturn(s)
    BY <2>8 DEF ReclaimReturn
  <2> QED
    BY <1>3, <2>1, <2>2, <2>3, <2>4, <2>5, <2>6, <2>7, <2>8 DEF User
<1> QED
  BY <1>1, <1>2, <1>3 DEF Step

\* A slot that keeps a guard stays active, and keeps what is linked to it,
\* whatever the other slots do.
LEMMA KeepList ==
  ASSUME SInv, NEW s \in Slots, Step(s), NEW r \in Slots, head[r] # INACTIVE, guards'[r] > 0,
         ~(s = r /\ Refresh(s))
  PROVE  head'[r] # INACTIVE /\ Linked(r) \subseteq Linked(r)'
<1> USE DEF resvVars
<1>0. /\ head[r] \in Lists /\ ~buffered[r] /\ guards[r] > 0
      /\ head'[r] = head[r] => head'[r] # INACTIVE /\ Linked(r) \subseteq Linked(r)'
  BY DEF SInv, TypeOK, Activity, Linked
<1>1. CASE Drain(s)
  BY <1>0, <1>1 DEF Drain, SInv, TypeOK
<1>2. ASSUME NEW t \in Slots, Interrupt(s, t)
      PROVE  head'[r] # INACTIVE /\ Linked(r) \subseteq Linked(r)'
  BY <1>0, <1>2 DEF Interrupt, View, SInv, TypeOK
<1>3. CASE LinkCas(s)
  <2>1. tgt[s] \in Slots /\ cur[s] \in Batches
    BY <1>3 DEF SInv, TypeOK, Control, LinkCas
  <2>2. CASE tgt[s] # r
    BY <1>0, <1>3, <2>1, <2>2 DEF LinkCas, SInv, TypeOK
  <2>3. CASE tgt[s] = r
    <3>1. head'[r] = <<cur[s]>> \o head[r]
      BY <1>3, <2>3 DEF LinkCas, SInv, TypeOK
    <3>2. head'[r] \in Lists /\ Elems(head'[r]) = {cur[s]} \cup Elems(head[r])
      BY <1>0, <2>1, <3>1, ElemsCons
    <3> QED
      BY <3>2, ListIsActive DEF Linked
  <2> QED
    BY <2>2, <2>3
<1>4. CASE Enter(s)
  BY <1>0, <1>4 DEF Enter, EnterReservation, LightStore, SInv, TypeOK
<1>5. CASE Leave(s)
  <2>1. CASE s = r /\ guards[s] = 1
    BY <1>5, <2>1 DEF Leave, SInv, TypeOK
  <2>2. CASE ~(s = r /\ guards[s] = 1)
    BY <1>0, <1>5, <2>2 DEF Leave, LeaveReservation, SInv, TypeOK
  <2> QED
    BY <2>1, <2>2
<1>6. CASE Refresh(s)
  BY <1>0, <1>6 DEF Refresh, SInv, TypeOK
<1>7. CASE Internal(s) /\ (\A t \in Slots : ~Interrupt(s, t)) /\ ~LinkCas(s)
  BY <1>0, <1>7 DEF Internal, HeavyReturn, Publish, ScanSkip, ScanMark, ScanGiveUp, LinkLoad, LinkSkip, LinkRetry,
     Count, Traverse, Dec, Reclaim, ReclaimCall, Dealloc
<1>8. CASE User(s) /\ ~Enter(s) /\ ~Leave(s) /\ ~Refresh(s)
  BY <1>0, <1>8 DEF User, Flush, Reserve, Protect, Swap, Add, ReclaimReturn
<1> QED
  BY <1>1, <1>2, <1>3, <1>4, <1>5, <1>6, <1>7, <1>8 DEF Step

\* A slot that keeps a guard issues no store that the other slots could miss.
LEMMA StaysVisible ==
  ASSUME SInv, NEW s \in Slots, Step(s), NEW r \in Slots, guards[r] > 0, buffered'[r]
  PROVE  buffered[r]
<1> USE DEF resvVars
<1>1. CASE Drain(s)
  BY <1>1 DEF Drain, SInv, TypeOK
<1>2. CASE Internal(s)
  BY <1>2 DEF Internal, HeavyReturn, Interrupt, Publish, ScanSkip, ScanMark, ScanGiveUp, LinkLoad, LinkSkip,
     LinkCas, LinkRetry, Count, Traverse, Dec, Reclaim, ReclaimCall, Dealloc, SInv, TypeOK
<1>3. CASE Enter(s)
  <2>1. CASE r = s
    BY <1>3, <2>1 DEF Enter
  <2>2. CASE r # s
    BY <1>3, <2>2 DEF Enter, EnterReservation, LightStore, SInv, TypeOK
  <2> QED
    BY <2>1, <2>2
<1>4. CASE Leave(s) \/ Refresh(s)
  BY <1>4 DEF Leave, LeaveReservation, Refresh, SInv, TypeOK
<1>5. CASE User(s) /\ ~Enter(s) /\ ~Leave(s) /\ ~Refresh(s)
  BY <1>5 DEF User, Flush, Reserve, Protect, Swap, Add, ReclaimReturn
<1> QED
  BY <1>1, <1>2, <1>3, <1>4, <1>5 DEF Step

-----------------------------------------------------------------------------
(* The grace period. *)

\* The slots in try_retire.
Trying(t) == pc[t] \in {"heavy", "scan", "link", "cas"}

\* The slots in try_retire with a batch.
Retiring(t) == pc[t] \in {"scan", "link", "cas"}

\* The head of an active reservation does not read as INACTIVE.
LEMMA TopActive == \A h \in Lists : Top(h) # INACTIVE
<1> SUFFICES ASSUME NEW h \in Lists PROVE Top(h) # INACTIVE
  OBVIOUS
<1>1. h # INACTIVE
  BY ListIsActive
<1>2. h # <<>> => Head(h) \in Batches
  BY DEF Lists
<1> QED
  BY <1>1, <1>2, InactiveAssumption DEF Top

\* The barrier that try_retire begins waits for every store that is invisible.
LEMMA BarrierCaught ==
  ASSUME SInv, NEW s \in Slots, pc'[s] = "heavy", todo'[s] = HeavyBarrier, buffered' = buffered, NEW r \in Slots
  PROVE  Caught(s, r)'
<1>1. buffered[r] => r \in HeavyBarrier
  BY DEF SInv, Activity, HeavyBarrier
<1> QED
  BY <1>1 DEF Caught, Linking

\* After the barrier of try_retire a slot that keeps its guard is visible; it is
\* marked, or makes the scan give up; and its list does not become INACTIVE
\* under the compare_exchange: neither loop of slot s misses it.
LEMMA CaughtSelf ==
  ASSUME SInv, Activity', NEW s \in Slots, Step(s), NEW r \in Slots,
         guards[r] > 0, guards'[r] > 0, ~(s = r /\ Refresh(s)), Caught(s, r)
  PROVE  Caught(s, r)'
<1>0. head[r] # INACTIVE => head'[r] # INACTIVE /\ Linked(r) \subseteq Linked(r)'
  BY KeepList
<1> USE DEF callVars, retireVars
<1>1. pc'[s] \notin {"heavy", "scan", "link", "cas"} => Caught(s, r)'
  BY DEF Caught, Linking
<1>2. ASSUME UNCHANGED callVars, UNCHANGED retireVars PROVE Caught(s, r)'
  BY <1>0, <1>2, StaysVisible DEF Caught, Linking
<1>3. CASE Drain(s)
  BY <1>2, <1>3 DEF Drain
<1>4. CASE User(s)
  <2>1. pc[s] = "user"
    BY <1>4 DEF User, Enter, Leave, Refresh, Flush, Reserve, Protect, Swap, Add, ReclaimReturn
  <2>2. CASE Enter(s) \/ Leave(s) \/ Refresh(s)
    BY <1>1, <2>1, <2>2 DEF Enter, Leave, LeaveReservation, Refresh, TraverseFrom, Resume, SInv, TypeOK
  <2>6. CASE Flush(s)
    BY <2>6, TryRetireStep, BarrierCaught DEF Flush, SInv, resvVars
  <2>3. CASE Reserve(s) \/ ReclaimReturn(s)
    BY <1>1, <2>1, <2>3 DEF Reserve, ReclaimReturn, SInv, TypeOK
  <2>4. ASSUME NEW c \in Cells, Protect(s, c) \/ \E n \in Objects \cup {NULL} : Swap(s, c, n)
        PROVE  Caught(s, r)'
    BY <1>2, <2>4 DEF Protect, Swap
  <2>5. ASSUME NEW o \in Objects, Add(s, o) PROVE Caught(s, r)'
    <3>1. /\ pc'[s] \in {"user", "heavy"} /\ buffered' = buffered
          /\ pc'[s] = "heavy" => todo'[s] = HeavyBarrier
      BY <2>5, AddStep DEF Add, SInv, resvVars
    <3> QED
      BY <1>1, <3>1, BarrierCaught
  <2> QED
    BY <1>4, <2>2, <2>3, <2>4, <2>5, <2>6 DEF User
<1>17. ASSUME NEW u \in Slots, Interrupt(s, u) PROVE Caught(s, r)'
  <2>1. /\ pc[s] = "heavy" /\ pc'[s] = "heavy"
        /\ todo'[s] = todo[s] \ {u} /\ ~buffered'[u]
        /\ r # u => buffered'[r] = buffered[r]
    BY <1>17 DEF Interrupt, SInv, TypeOK
  <2> QED
    BY <2>1 DEF Caught, Linking
<1>5. CASE HeavyReturn(s)
  <2>1. ~buffered[r] /\ head' = head
    BY <1>5 DEF HeavyReturn, Caught, resvVars
  <2>2. head'[r] # INACTIVE
    BY <2>1 DEF SInv, Activity
  <2>3. pc'[s] = "user" \/ (pc'[s] = "scan" /\ todo'[s] = Slots)
    BY <1>5 DEF HeavyReturn, SInv, TypeOK
  <2> QED
    BY <1>1, <2>2, <2>3 DEF Caught, Linking
<1>6. ASSUME NEW u \in Slots, ScanSkip(s, u) PROVE Caught(s, r)'
  BY <1>0, <1>6 DEF ScanSkip, Caught, Linking, SInv, TypeOK
<1>7. ASSUME NEW u \in Slots, ScanMark(s, u) PROVE Caught(s, r)'
  BY <1>0, <1>7 DEF ScanMark, Caught, Linking, SInv, TypeOK
<1>8. ASSUME NEW u \in Slots, ScanGiveUp(s, u) PROVE Caught(s, r)'
  BY <1>1, <1>8 DEF ScanGiveUp, SInv, TypeOK
<1>9. CASE Publish(s)
  BY <1>0, <1>9 DEF Publish, Caught, Linking, SInv, TypeOK
<1>10. ASSUME NEW u \in Slots, LinkLoad(s, u) PROVE Caught(s, r)'
  <2>1. /\ pc[s] = "link" /\ pc'[s] = "cas" /\ tgt'[s] = u /\ prev'[s] = Top(head[u])
        /\ UNCHANGED <<marked, cur>>
    BY <1>10 DEF LinkLoad, SInv, TypeOK
  <2>2. head[r] # INACTIVE /\ (r \in marked[s] \/ cur[s] \in Linked(r))
    BY <2>1 DEF Caught, Linking
  <2>3. Top(head[r]) # INACTIVE
    BY <2>2, TopActive DEF SInv, TypeOK
  <2> QED
    BY <1>0, <2>1, <2>2, <2>3 DEF Caught, Linking
<1>11. CASE LinkSkip(s)
  <2>1. /\ pc[s] = "cas" /\ prev[s] = INACTIVE /\ pc'[s] = "link" /\ marked'[s] = marked[s] \ {tgt[s]}
        /\ cur' = cur
    BY <1>11 DEF LinkSkip, LinkNext, SInv, TypeOK
  <2> QED
    BY <1>0, <2>1 DEF Caught, Linking
<1>12. CASE LinkCas(s)
  <2>1. /\ pc[s] = "cas" /\ pc'[s] = "link" /\ marked'[s] = marked[s] \ {tgt[s]} /\ cur' = cur
        /\ head' = [head EXCEPT ![tgt[s]] = <<cur[s]>> \o @]
    BY <1>12 DEF LinkCas, LinkNext, SInv, TypeOK
  <2>2. head[r] # INACTIVE /\ (r \in marked[s] \/ cur[s] \in Linked(r))
    BY <2>1 DEF Caught, Linking
  <2>3. ASSUME tgt[s] = r PROVE cur[s] \in Linked(r)'
    <3>1. head'[r] = <<cur[s]>> \o head[r] /\ head[r] \in Lists /\ cur[s] \in Batches
      BY <2>1, <2>2, <2>3 DEF SInv, TypeOK, Control
    <3>2. head'[r] # INACTIVE /\ cur[s] \in Elems(head'[r])
      BY <3>1, ElemsCons, ListIsActive
    <3> QED
      BY <3>2 DEF Linked
  <2> QED
    BY <1>0, <2>1, <2>2, <2>3 DEF Caught, Linking
<1>13. CASE LinkRetry(s)
  <2>1. /\ pc[s] = "cas" /\ pc' = pc /\ prev'[s] = Top(head[tgt[s]]) /\ UNCHANGED <<tgt, marked, cur>>
    BY <1>13 DEF LinkRetry, SInv, TypeOK
  <2>2. head[r] # INACTIVE /\ (r \in marked[s] \/ cur[s] \in Linked(r))
    BY <2>1 DEF Caught, Linking
  <2>3. Top(head[r]) # INACTIVE
    BY <2>2, TopActive DEF SInv, TypeOK
  <2> QED
    BY <1>0, <2>1, <2>2, <2>3 DEF Caught, Linking
<1>14. CASE Count(s)
  BY <1>1, <1>14 DEF Count, SInv, TypeOK
<1>15. CASE Traverse(s) \/ Dec(s)
  BY <1>1, <1>15 DEF Traverse, Dec, Resume, SInv, TypeOK
<1>16. CASE Reclaim(s) \/ ReclaimCall(s) \/ Dealloc(s)
  BY <1>1, <1>16 DEF Reclaim, ReclaimCall, Dealloc, Resume, SInv, TypeOK
<1> QED
  BY <1>2, <1>3, <1>4, <1>5, <1>6, <1>7, <1>8, <1>9, <1>10, <1>11, <1>12, <1>13, <1>14, <1>15, <1>16, <1>17
     DEF Step, Internal

\* Nor does a slot in try_retire miss it while another slot takes a step.
LEMMA CaughtStep ==
  ASSUME SInv, Activity', NEW s \in Slots, Step(s), NEW t \in Slots, NEW r \in Slots,
         guards[r] > 0, guards'[r] > 0, ~(s = r /\ Refresh(s)), Caught(t, r)
  PROVE  Caught(t, r)'
<1>1. head[r] # INACTIVE => head'[r] # INACTIVE /\ Linked(r) \subseteq Linked(r)'
  BY KeepList
<1>2. CASE t # s
  <2>1. Apart(t)
    BY <1>2, Others DEF SInv
  <2>2. buffered'[r] => buffered[r]
    BY StaysVisible
  <2> QED
    BY <1>1, <2>1, <2>2 DEF Caught, Apart, Linking
<1>3. CASE t = s
  BY <1>3, CaughtSelf
<1> QED
  BY <1>2, <1>3

\* A slot keeps the batch it retires from the barrier to the last link.
LEMMA SameRetiring ==
  ASSUME SInv, NEW s \in Slots, Step(s), NEW t \in Slots, Retiring(t), Retiring(t)'
  PROVE  cur'[t] = cur[t]
<1>1. CASE t # s
  BY <1>1, Others DEF SInv, Apart
<1>2. CASE t = s
  <2>1. CASE UNCHANGED cur
    BY <2>1
  <2>2. CASE Drain(s)
    BY <2>1, <2>2 DEF Drain, callVars
  <2>3. CASE User(s)
    BY <1>2, <2>3 DEF Retiring, User, Enter, Leave, Refresh, Flush, Reserve, Protect, Swap, Add, ReclaimReturn
  <2>8. CASE \E u \in Slots : Interrupt(s, u)
    BY <2>1, <2>8 DEF Interrupt, callVars
  <2>4. CASE HeavyReturn(s) \/ Traverse(s) \/ Dec(s) \/ Reclaim(s) \/ ReclaimCall(s) \/ Dealloc(s)
    BY <1>2, <2>4 DEF Retiring, HeavyReturn, Traverse, Dec, Reclaim, ReclaimCall, Dealloc
  <2>5. CASE Publish(s) \/ \E u \in Slots : ScanSkip(s, u) \/ ScanMark(s, u) \/ LinkLoad(s, u)
    BY <2>1, <2>5 DEF Publish, ScanSkip, ScanMark, LinkLoad, callVars
  <2>6. CASE LinkSkip(s) \/ LinkCas(s) \/ LinkRetry(s)
    BY <2>1, <2>6 DEF LinkSkip, LinkCas, LinkRetry, LinkNext, callVars
  <2>7. CASE Count(s) \/ \E u \in Slots : ScanGiveUp(s, u)
    BY <1>2, <2>7 DEF Retiring, Count, ScanGiveUp, SInv, TypeOK
  <2> QED
    BY <2>2, <2>3, <2>4, <2>5, <2>6, <2>7, <2>8 DEF Step, Internal
<1> QED
  BY <1>1, <1>2

\* From the call of try_retire on, a slot retires the batch it had then.
LEMMA SameRetires ==
  ASSUME SInv, NEW s \in Slots, Step(s), NEW t \in Slots, NEW b \in Batches, Retires(t, b)'
  PROVE  Retires(t, b) \/ ~Trying(t)
<1> USE DEF Retires, Trying
<1>1. CASE t # s
  BY <1>1, Others DEF SInv, Apart
<1>2. CASE t = s
  <2>1. CASE UNCHANGED <<pc, cur, batch>>
    BY <2>1
  <2>2. CASE Drain(s) \/ \E u \in Slots : Interrupt(s, u)
    BY <2>1, <2>2 DEF Drain, Interrupt, callVars, batchVars
  <2>3. CASE User(s)
    BY <1>2, <2>3 DEF User, Enter, Leave, Refresh, Flush, Reserve, Protect, Swap, Add, ReclaimReturn
  <2>4. CASE HeavyReturn(s)
    BY <1>2, <2>4 DEF HeavyReturn, SInv, TypeOK
  <2>5. CASE Internal(s) /\ Retiring(s)
    <3>1. pc'[s] # "heavy"
      BY <2>5 DEF Retiring, Internal, HeavyReturn, Interrupt, Publish, ScanSkip, ScanMark, ScanGiveUp, LinkLoad,
         LinkSkip, LinkCas, LinkRetry, LinkNext, Count, Traverse, Dec, Reclaim, ReclaimCall, Dealloc, SInv,
         TypeOK, callVars
    <3> QED
      BY <1>2, <2>5, <3>1, SameRetiring DEF Retiring
  <2>6. CASE Internal(s) /\ pc[s] = "heavy"
    BY <2>2, <2>4, <2>6 DEF Internal, Publish, ScanSkip, ScanMark, ScanGiveUp, LinkLoad, LinkSkip, LinkCas,
       LinkRetry, Count, Traverse, Dec, Reclaim, ReclaimCall, Dealloc
  <2> QED
    BY <1>2, <2>2, <2>3, <2>5, <2>6 DEF Step, Retiring
<1> QED
  BY <1>1, <1>2

\* A batch that a slot owns before its grace period stays with that slot: it is
\* local, then published, then linked to every slot its retirer has marked.
LEMMA KeepOwner ==
  ASSUME SInv, NEW s \in Slots, Step(s), NEW t \in Slots, NEW b \in Batches,
         batch[t] = b \/ (Linking(t) /\ cur[t] = b)
  PROVE  \/ batch'[t] = b
         \/ (Linking(t) /\ cur[t] = b)'
         \/ t = s /\ Count(s) /\ cur[s] = b
<1>1. CASE t # s
  BY <1>1, Others DEF SInv, Apart, Linking
<1>2. CASE t = s
  <2> USE NullAssumption DEF batchVars, callVars
  <2>1. CASE UNCHANGED <<batch, pc, cur>>
    BY <2>1 DEF Linking
  <2>2. CASE Drain(s)
    BY <2>1, <2>2 DEF Drain
  <2>3. CASE User(s)
    <3>1. pc[s] = "user"
      BY <2>3 DEF User, Enter, Leave, Refresh, Flush, Reserve, Protect, Swap, Add, ReclaimReturn
    <3>2. batch[s] = b
      BY <1>2, <3>1 DEF Linking
    <3>3. CASE UNCHANGED batch
      BY <1>2, <3>2, <3>3
    <3>4. ASSUME NEW o \in Objects, Add(s, o) PROVE UNCHANGED batch
      BY <3>2, <3>4 DEF Add, GetOrInit, SInv, TypeOK
    <3>5. ~Reserve(s)
      BY <3>2 DEF Reserve
    <3> QED
      BY <2>3, <3>3, <3>4, <3>5 DEF User, Enter, Leave, Refresh, Flush, Protect, Swap, ReclaimReturn
  <2>4. CASE Publish(s)
    <3>1. batch[s] = b /\ cur[s] = b /\ pc'[s] = "link" /\ cur' = cur
      BY <1>2, <2>4 DEF Publish, Linking, SInv, TypeOK, Control
    <3> QED
      BY <1>2, <3>1 DEF Linking
  <2>5. CASE UNCHANGED batch /\ (Linking(s) => UNCHANGED cur /\ Linking(s)')
    BY <1>2, <2>5
  <2>10. CASE \E u \in Slots : Interrupt(s, u)
    BY <2>1, <2>10 DEF Interrupt
  <2>6. CASE HeavyReturn(s) \/ Traverse(s) \/ Dec(s) \/ Reclaim(s) \/ ReclaimCall(s) \/ Dealloc(s)
    BY <2>5, <2>6 DEF Linking, HeavyReturn, Traverse, Dec, Reclaim, ReclaimCall, Dealloc
  <2>7. CASE \E u \in Slots : ScanSkip(s, u) \/ ScanMark(s, u) \/ ScanGiveUp(s, u)
    BY <2>5, <2>7 DEF Linking, ScanSkip, ScanMark, ScanGiveUp
  <2>8. CASE \/ \E u \in Slots : LinkLoad(s, u)
             \/ LinkSkip(s) \/ LinkCas(s) \/ LinkRetry(s)
    BY <2>5, <2>8 DEF Linking, LinkLoad, LinkSkip, LinkCas, LinkRetry, LinkNext, SInv, TypeOK
  <2>9. CASE Count(s)
    BY <1>2, <2>9 DEF Count
  <2> QED
    BY <2>2, <2>3, <2>4, <2>6, <2>7, <2>8, <2>9, <2>10 DEF Step, Internal
<1> QED
  BY <1>1, <1>2

\* An object in a batch was there before, unless it is the one Add retires.
LEMMA OldEntry ==
  ASSUME SInv, NEW s \in Slots, Step(s), NEW o \in Objects, ~Add(s, o),
         NEW b \in Batches, o \in Elems(entries'[b])
  PROVE  o \in Elems(entries[b])
<1>1. CASE UNCHANGED entries
  BY <1>1
<1>2. ASSUME NEW p \in Objects, Add(s, p) PROVE o \in Elems(entries[b])
  <2>1. PICK c \in Batches :
           /\ \A a \in Batches \ {c} : entries'[a] = entries[a]
           /\ Len(entries'[c]) = Len(entries[c]) + 1
           /\ \A i \in 1 .. Len(entries[c]) : entries'[c][i] = entries[c][i]
           /\ entries'[c][Len(entries[c]) + 1] = p
           /\ Len(entries[c]) \in Nat
    BY <1>2, AddEntries DEF SInv
  <2>2. CASE b # c
    BY <2>1, <2>2
  <2>3. CASE b = c
    <3>1. PICK i \in 1 .. Len(entries'[c]) : o = entries'[c][i]
      BY <2>3 DEF Elems
    <3>2. i # Len(entries[c]) + 1
      BY <1>2, <2>1, <3>1
    <3>3. i \in 1 .. Len(entries[c])
      BY <2>1, <3>2
    <3> QED
      BY <2>1, <2>3, <3>1, <3>3 DEF Elems
  <2> QED
    BY <2>2, <2>3
<1>3. CASE Dealloc(s)
  <2>1. entries' = [entries EXCEPT ![cur[s]] = <<>>]
    BY <1>3 DEF Dealloc
  <2>2. entries'[b] = entries[b] \/ entries'[b] = <<>>
    BY <2>1 DEF SInv, TypeOK
  <2> QED
    BY <2>2 DEF Elems
<1>4. CASE Reclaim(s) \/ ReclaimCall(s)
  BY <1>1, <1>4 DEF Reclaim, ReclaimCall, batchVars
<1>5. ASSUME NEW c \in Cells, NEW n \in Objects \cup {NULL}, Swap(s, c, n) PROVE UNCHANGED entries
  BY <1>5 DEF Swap, batchVars
<1> QED
  BY <1>1, <1>2, <1>3, <1>4, <1>5, SameObjects

\* An object a slot comes to hold is shared, or is the one it retires.
LEMMA NewlyHeld ==
  ASSUME SInv, Located, NEW s \in Slots, Step(s), NEW r \in Slots, NEW o \in held'[r], o \notin held[r],
         ~Add(s, o)
  PROVE  o \in Objects /\ obj'[o] \notin {"retired", "reclaimed"}
<1>1. r = s
  BY Others DEF SInv, Apart
<1>2. ASSUME NEW c \in Cells, Protect(s, c) PROVE o \in Objects /\ obj'[o] = "shared"
  <2>1. o = cell[c] /\ cell[c] # NULL /\ obj' = obj
    BY <1>1, <1>2 DEF Protect, SInv, TypeOK
  <2> QED
    BY <2>1 DEF Located, SInv, TypeOK
<1>3. ASSUME NEW c \in Cells, NEW n \in Objects \cup {NULL}, Swap(s, c, n)
      PROVE  o \in Objects /\ obj'[o] = "unlinked"
  <2>1. o = cell[c] /\ cell[c] # NULL /\ n # cell[c]
    BY <1>1, <1>3 DEF Swap, SInv, TypeOK
  <2>2. cell[c] \in Objects
    BY <2>1 DEF SInv, TypeOK
  <2> QED
    BY <1>3, <2>1, <2>2 DEF Swap
<1>4. \A p \in Objects : ~Add(s, p)
  <2> SUFFICES ASSUME NEW p \in Objects, Add(s, p) PROVE FALSE
    OBVIOUS
  <2>1. held' = [held EXCEPT ![s] = IF guards[s] > Base(s) THEN @ \cup {p} ELSE @]
    BY DEF Add
  <2>2. o = p
    BY <1>1, <2>1 DEF SInv, TypeOK
  <2> QED
    BY <2>2
<1>5. CASE UNCHANGED held
  BY <1>5
<1>6. CASE Leave(s) \/ Refresh(s)
  BY <1>1, <1>6 DEF Leave, LeaveReservation, Refresh, SInv, TypeOK, clientVars
<1> QED
  BY <1>2, <1>3, <1>4, <1>5, <1>6 DEF Step, Internal, User, Drain, HeavyReturn, Interrupt, Publish, ScanSkip,
     ScanMark, ScanGiveUp, LinkLoad, LinkSkip, LinkCas, LinkRetry, Count, Traverse, Dec, Reclaim, ReclaimCall, Dealloc,
     Enter, Flush, Reserve, ReclaimReturn, clientVars

\* What Add retires is in the local batch of its slot, which no one else retires;
\* if the batch is full, its barrier begins with this step.
LEMMA AddGrace ==
  ASSUME SInv', Located', SInv, NEW s \in Slots, NEW o \in Objects, Add(s, o),
         NEW b \in Batches, o \in Elems(entries'[b])
  PROVE  /\ obj'[o] = "retired"
         /\ batch'[s] = b
         /\ \A t \in Slots : Retires(t, b)' => \A r \in Slots : Caught(t, r)'
<1>1. obj'[o] = "retired"
  BY DEF Add, SInv, TypeOK
<1>2. PICK c \in Batches : /\ batch' = [batch EXCEPT ![s] = c]
                           /\ Len(entries'[c]) = Len(entries[c]) + 1
                           /\ entries'[c][Len(entries[c]) + 1] = o
                           /\ Len(entries[c]) \in Nat
  BY AddEntries DEF SInv
<1>3. batch'[s] = c
  BY <1>2 DEF SInv, TypeOK
<1>4. c = b
  <2>1. PICK i \in 1 .. Len(entries'[b]) : o = entries'[b][i]
    BY DEF Elems
  <2>2. PICK j \in 1 .. Len(entries'[c]) : o = entries'[c][j]
    BY <1>2
  <2>3. \A a, d \in Batches : \A k \in 1 .. Len(entries'[a]) : \A l \in 1 .. Len(entries'[d]) :
          entries'[a][k] = entries'[d][l] => a = d
    BY DEF Located
  <2>4. entries'[b][i] = entries'[c][j]
    BY <2>1, <2>2
  <2> QED
    BY <2>3, <2>4
<1>5. b \in Owned(s)'
  BY <1>3, <1>4, NullAssumption DEF Owned, Private
<1>6. ASSUME NEW t \in Slots, Retires(t, b)' PROVE \A r \in Slots : Caught(t, r)'
  <2>1. t = s
    <3>1. b \in Owned(t)'
      BY <1>6, NullAssumption DEF Retires, Owned, Private, Linking, SInv, Control
    <3> QED
      BY <1>5, <3>1 DEF SInv, Structure, Ownership
  <2>2. pc'[s] = "heavy" /\ todo'[s] = HeavyBarrier
    BY <1>6, <2>1, AddStep DEF Retires, SInv
  <2>3. buffered' = buffered
    BY DEF Add, resvVars
  <2> QED
    BY <2>1, <2>2, <2>3, BarrierCaught
<1> QED
  BY <1>1, <1>3, <1>4, <1>6

\* What free_batch reclaims is held by no slot.
LEMMA ReclaimNotHeld ==
  ASSUME SInv, Cursors, Grace, NEW s \in Slots, Reclaim(s) \/ ReclaimCall(s),
         NEW r \in Slots, NEW o \in held[r]
  PROVE  o # entries[cur[s]][idx[s]]
<1> SUFFICES ASSUME o = entries[cur[s]][idx[s]] PROVE FALSE
  OBVIOUS
<1>1. /\ pc[s] = "free" /\ cur[s] \in Batches /\ idx[s] \in 1 .. Len(entries[cur[s]])
      /\ cur[s] # batch[s]
      /\ \A t \in Slots \ {s} : cur[s] \notin Owned(t)
      /\ \A t \in Slots : cur[s] \notin Reach(t)
  BY ReclaimEntry
<1>2. o \in Elems(entries[cur[s]])
  BY <1>1 DEF Elems
<1>3. cur[s] \notin Linked(r)
  BY <1>1 DEF Reach
<1>4. PICK t \in Slots : batch[t] = cur[s] \/ (Linking(t) /\ cur[t] = cur[s])
  BY <1>1, <1>2, <1>3 DEF Grace
<1>5. t # s
  BY <1>1, <1>4 DEF Linking
<1>6. cur[s] \in Owned(t)
  BY <1>1, <1>4, NullAssumption DEF Owned, Private
<1> QED
  BY <1>1, <1>5, <1>6

\* An object that stays held keeps its grace period.
LEMMA HeldGrace ==
  ASSUME SInv, Activity', Cursors, Grace, NEW s \in Slots, Step(s),
         NEW r \in Slots, NEW o \in held[r], o \in held'[r], ~Add(s, o), o \in Objects
  PROVE  /\ obj'[o] # "reclaimed"
         /\ \A b \in Batches : o \in Elems(entries'[b]) =>
              /\ \A t \in Slots : Retires(t, b)' => Caught(t, r)'
              /\ \/ b \in Linked(r)'
                 \/ \E t \in Slots : batch'[t] = b \/ (Linking(t) /\ cur[t] = b)'
<1>1. guards[r] > 0 /\ guards'[r] > 0
  BY DEF SInv, Activity
<1>2. ~(s = r /\ Refresh(s))
  BY DEF Refresh, SInv, TypeOK
<1>3. obj'[o] # "reclaimed"
  <2>1. obj[o] # "reclaimed"
    BY DEF Grace
  <2>2. CASE Reclaim(s) \/ ReclaimCall(s)
    <3>1. o # entries[cur[s]][idx[s]] /\ obj' = [obj EXCEPT ![entries[cur[s]][idx[s]]] = "reclaimed"]
      BY <2>2, ReclaimNotHeld, ReclaimEntry
    <3> QED
      BY <2>1, <3>1 DEF SInv, TypeOK
  <2>3. ASSUME NEW c \in Cells, NEW n \in Objects \cup {NULL}, Swap(s, c, n) PROVE obj'[o] # "reclaimed"
    BY <2>1, <2>3 DEF Swap
  <2>4. ASSUME NEW p \in Objects, Add(s, p) PROVE obj'[o] # "reclaimed"
    BY <2>1, <2>4 DEF Add, SInv, TypeOK
  <2>5. CASE Dealloc(s)
    BY <2>1, <2>5 DEF Dealloc, clientVars
  <2> QED
    BY <2>1, <2>2, <2>3, <2>4, <2>5, SameObjects
<1>4. ASSUME NEW b \in Batches, o \in Elems(entries'[b])
      PROVE  /\ \A t \in Slots : Retires(t, b)' => Caught(t, r)'
             /\ \/ b \in Linked(r)'
                \/ \E t \in Slots : batch'[t] = b \/ (Linking(t) /\ cur[t] = b)'
  <2>1. o \in Elems(entries[b])
    BY <1>4, OldEntry
  <2>2. \A t \in Slots : Retires(t, b) => Caught(t, r)
    BY <2>1 DEF Grace
  <2>3. ASSUME NEW t \in Slots, Retires(t, b)' PROVE Caught(t, r)'
    <3>1. Caught(t, r)
      <4>1. CASE Trying(t)
        BY <2>2, <2>3, <4>1, SameRetires
      <4>2. CASE ~Trying(t)
        BY <4>2 DEF Trying, Caught, Linking
      <4> QED
        BY <4>1, <4>2
    <3> QED
      BY <1>1, <1>2, <3>1, CaughtStep
  <2>4. b \in Linked(r) => b \in Linked(r)'
    <3>1. b \in Linked(r) => head[r] # INACTIVE
      BY DEF Linked
    <3> QED
      BY <1>1, <1>2, <3>1, KeepList
  <2>5. ASSUME NEW t \in Slots, batch[t] = b \/ (Linking(t) /\ cur[t] = b)
        PROVE  \/ b \in Linked(r)'
               \/ \E u \in Slots : batch'[u] = b \/ (Linking(u) /\ cur[u] = b)'
    <3>1. CASE t = s /\ Count(s) /\ cur[s] = b
      <4>1. Retires(s, b) /\ Linking(s) /\ marked[s] = {}
        BY <3>1 DEF Retires, Linking, Count
      <4>2. b \in Linked(r)
        BY <2>2, <3>1, <4>1 DEF Caught
      <4> QED
        BY <2>4, <4>2
    <3> QED
      BY <2>5, <3>1, KeepOwner
  <2>6. b \in Linked(r) \/ \E t \in Slots : batch[t] = b \/ (Linking(t) /\ cur[t] = b)
    BY <2>1 DEF Grace
  <2> QED
    BY <2>3, <2>4, <2>5, <2>6
<1> QED
  BY <1>3, <1>4

\* Every step preserves the grace period of everything that is held.
LEMMA NextGrace ==
  ASSUME SInv, SInv', Located, Located', Cursors, Grace, NEW s \in Slots, Step(s)
  PROVE  Grace'
<1> SUFFICES ASSUME NEW r \in Slots, NEW o \in held'[r]
             PROVE  /\ obj'[o] # "reclaimed"
                    /\ \A b \in Batches : o \in Elems(entries'[b]) =>
                         /\ \A t \in Slots : Retires(t, b)' => Caught(t, r)'
                         /\ \/ b \in Linked(r)'
                            \/ \E t \in Slots : batch'[t] = b \/ (Linking(t) /\ cur[t] = b)'
  BY DEF Grace
<1>1. o \in Objects
  BY DEF SInv, TypeOK
<1>2. CASE Add(s, o)
  <2>1. obj'[o] = "retired"
    BY <1>1, <1>2 DEF Add, SInv, TypeOK
  <2> QED
    BY <1>1, <1>2, <2>1, AddGrace
<1>3. CASE ~Add(s, o) /\ o \notin held[r]
  <2>1. obj'[o] \notin {"retired", "reclaimed"}
    BY <1>3, NewlyHeld
  <2>2. \A b \in Batches : o \notin Elems(entries'[b])
    BY <2>1 DEF Located, Elems
  <2> QED
    BY <2>1, <2>2
<1>4. CASE ~Add(s, o) /\ o \in held[r]
  <2>1. Activity'
    BY DEF SInv
  <2> QED
    BY <1>1, <1>4, <2>1, HeldGrace
<1> QED
  BY <1>2, <1>3, <1>4

\* Every step preserves what makes a slot link its batch to its own list.
LEMMA NextSelfCaught ==
  ASSUME SInv, Activity', SelfCaught, NEW s \in Slots, Step(s)
  PROVE  SelfCaught'
<1> SUFFICES ASSUME NEW r \in Slots, guards'[r] > 0 PROVE Caught(r, r)'
  BY DEF SelfCaught
<1>1. CASE ~Trying(r)'
  BY <1>1 DEF Trying, Caught, Linking
<1>2. CASE Trying(r)'
  <2>1. guards'[r] = guards[r] /\ ~(s = r /\ Refresh(s))
    <3>1. CASE r # s
      BY <3>1, Others DEF SInv, Apart
    <3>2. CASE r = s
      <4>1. ~User(s) \/ UNCHANGED guards
        BY <1>2, <3>2 DEF User, Enter, Leave, LeaveReservation, Refresh, TraverseFrom, Resume, Flush, Reserve,
           Protect, Swap, Add, ReclaimReturn, Trying, SInv, TypeOK, resvVars, callVars
      <4>2. ~Refresh(s)
        BY <1>2, <3>2 DEF Refresh, TraverseFrom, Resume, Trying, SInv, TypeOK
      <4>3. Drain(s) \/ Internal(s) => UNCHANGED guards
        BY DEF Internal, Drain, HeavyReturn, Interrupt, Publish, ScanSkip, ScanMark, ScanGiveUp, LinkLoad,
           LinkSkip, LinkCas, LinkRetry, Count, Traverse, Dec, Reclaim, ReclaimCall, Dealloc, resvVars
      <4> QED
        BY <4>1, <4>2, <4>3 DEF Step
    <3> QED
      BY <3>1, <3>2
  <2>2. Caught(r, r)
    BY <2>1 DEF SelfCaught
  <2> QED
    BY <2>1, <2>2, CaughtStep
<1> QED
  BY <1>1, <1>2

-----------------------------------------------------------------------------
(* Cursors of free_batch. *)

\* An entry that waits for its reclaimer waits until free_batch gets to it.
LEMMA WaitingStep ==
  ASSUME SInv, Located, Cursors, NEW s \in Slots, Step(s), NEW b \in Batches, NEW n \in Nat,
         Waiting(b, n), Reclaim(s) \/ ReclaimCall(s) => cur[s] # b \/ n > idx[s]
  PROVE  Waiting(b, n)'
<1>0. \A a \in Batches : entries[a] \in Seq(Objects) /\ Len(entries[a]) \in Nat
                         /\ \A i \in 1 .. Len(entries[a]) : entries[a][i] \in Objects
  BY DEF SInv, TypeOK
<1>1. CASE UNCHANGED <<obj, entries>>
  BY <1>1 DEF Waiting
<1>2. ASSUME NEW c \in Cells, NEW m \in Objects \cup {NULL}, Swap(s, c, m) PROVE Waiting(b, n)'
  <2>1. /\ entries' = entries
        /\ m = NULL \/ obj[m] = "fresh"
        /\ obj' = [o \in Objects |-> IF o = m THEN "shared"
                                     ELSE IF o = cell[c] THEN "unlinked" ELSE obj[o]]
    BY <1>2 DEF Swap, batchVars
  <2>2. \A o \in Objects : obj[o] = "retired" => o # m /\ o # cell[c]
    BY <2>1, NullAssumption DEF Located
  <2> QED
    BY <1>0, <2>1, <2>2 DEF Waiting
<1>3. ASSUME NEW o \in Objects, Add(s, o) PROVE Waiting(b, n)'
  <2>1. PICK c \in Batches :
           /\ \A a \in Batches \ {c} : entries'[a] = entries[a]
           /\ Len(entries'[c]) = Len(entries[c]) + 1
           /\ \A i \in 1 .. Len(entries[c]) : entries'[c][i] = entries[c][i]
           /\ entries'[c][Len(entries[c]) + 1] = o
    BY <1>3, AddEntries DEF SInv
  <2>2. obj'[o] = "retired" /\ \A p \in Objects \ {o} : obj'[p] = obj[p]
    BY <1>3 DEF Add, SInv, TypeOK
  <2>3. \A i \in 1 .. Len(entries'[b]) :
          (i \in 1 .. Len(entries[b]) /\ entries'[b][i] = entries[b][i]) \/ entries'[b][i] = o
    BY <1>0, <2>1
  <2> QED
    BY <1>0, <2>2, <2>3 DEF Waiting
<1>4. CASE Reclaim(s) \/ ReclaimCall(s)
  <2>1. /\ cur[s] \in Batches /\ idx[s] \in 1 .. Len(entries[cur[s]]) /\ UNCHANGED entries
        /\ obj' = [obj EXCEPT ![entries[cur[s]][idx[s]]] = "reclaimed"]
    BY <1>4, ReclaimEntry
  <2>2. ASSUME NEW i \in 1 .. Len(entries[b]), i >= n PROVE obj'[entries[b][i]] = "retired"
    <3>1. entries[b][i] # entries[cur[s]][idx[s]]
      BY <1>4, <2>1, <2>2, OnePlace
    <3>2. obj[entries[b][i]] = "retired"
      BY <2>2 DEF Waiting
    <3> QED
      BY <1>0, <2>1, <3>1, <3>2 DEF SInv, TypeOK
  <2> QED
    BY <2>1, <2>2 DEF Waiting
<1>5. CASE Dealloc(s)
  <2>1. obj' = obj /\ (entries'[b] = entries[b] \/ entries'[b] = <<>>)
    BY <1>5 DEF Dealloc, SInv, TypeOK, clientVars
  <2> QED
    BY <2>1 DEF Waiting
<1> QED
  BY <1>1, <1>2, <1>3, <1>4, <1>5, SameObjects

\* The steps that begin, advance, suspend, resume or end a free_batch.
LEMMA FreeStep ==
  ASSUME SInv, NEW s \in Slots, Step(s), ~Reclaim(s), ~ReclaimCall(s), ~ReclaimReturn(s), ~Dealloc(s)
  PROVE  /\ UNCHANGED <<idx, stack>>
         /\ pc[s] = "free" => pc'[s] = "free" /\ cur'[s] = cur[s]
         /\ pc'[s] = "free" /\ pc[s] # "free" =>
              cur'[s] = cur[s] /\ ((Linking(s) /\ Count(s)) \/ (pc[s] = "dec" /\ Dec(s)))
<1> USE DEF callVars
<1>1. CASE Drain(s)
  BY <1>1 DEF Drain
<1>2. CASE Count(s) \/ Dec(s)
  BY <1>2 DEF Count, Dec, Resume, Linking, SInv, TypeOK
<1>3. CASE Internal(s) /\ ~Count(s) /\ ~Dec(s)
  <2>1. CASE HeavyReturn(s) \/ Publish(s) \/ Traverse(s) \/ \E t \in Slots : Interrupt(s, t)
    BY <2>1 DEF HeavyReturn, Interrupt, Publish, Traverse, SInv, TypeOK
  <2>2. ASSUME NEW t \in Slots, ScanSkip(s, t) \/ ScanMark(s, t) \/ ScanGiveUp(s, t) \/ LinkLoad(s, t)
        PROVE  /\ UNCHANGED <<idx, stack>> /\ pc[s] # "free" /\ pc'[s] # "free"
    BY <2>2 DEF ScanSkip, ScanMark, ScanGiveUp, LinkLoad, SInv, TypeOK
  <2>3. CASE LinkSkip(s) \/ LinkCas(s) \/ LinkRetry(s)
    BY <2>3 DEF LinkSkip, LinkCas, LinkRetry, LinkNext, SInv, TypeOK
  <2> QED
    BY <1>3, <2>1, <2>2, <2>3 DEF Internal
<1>4. CASE User(s)
  <2>1. CASE Enter(s) \/ Leave(s) \/ Refresh(s)
    BY <2>1 DEF Enter, Leave, LeaveReservation, Refresh, TraverseFrom, Resume, SInv, TypeOK
  <2>2. CASE Flush(s) \/ Reserve(s)
    BY <2>2 DEF Flush, TryRetire, Reserve, SInv, TypeOK
  <2>3. CASE \E c \in Cells : Protect(s, c) \/ \E n \in Objects \cup {NULL} : Swap(s, c, n)
    BY <2>3 DEF Protect, Swap
  <2>4. CASE \E o \in Objects : Add(s, o)
    BY <2>4, AddStep DEF Add, SInv
  <2> QED
    BY <1>4, <2>1, <2>2, <2>3, <2>4 DEF User
<1> QED
  BY <1>1, <1>2, <1>3, <1>4 DEF Step

\* A batch no slot holds privately is being freed by no one.
LEMMA NotBusy ==
  ASSUME NEW b, \A t \in Slots : b \notin Private(t)
  PROVE  ~Busy(b)
  BY DEF Busy, Private

\* What a free_batch has yet to reclaim keeps waiting while another slot, or
\* another call of the same slot, takes a step.
LEMMA OthersWait ==
  ASSUME SInv, Located, Cursors, NEW s \in Slots, Step(s), NEW t \in Slots
  PROVE  /\ t # s /\ pc[t] = "free" => Waiting(cur[t], idx[t])'
         /\ \A k \in 1 .. Len(stack[t]) :
              \A b \in Batches, n \in Nat : b = stack[t][k].batch /\ n = stack[t][k].idx => n >= 1 /\ Waiting(b, n)'
<1>1. ASSUME t # s, pc[t] = "free" PROVE Waiting(cur[t], idx[t])'
  <2>1. Apart(t)
    BY <1>1, Others DEF SInv
  <2>2. PICK b \in Batches, n \in Nat : b = cur[t] /\ n = idx[t]
    BY <1>1 DEF SInv, TypeOK, Control
  <2>3. b \in Owned(t) /\ Waiting(b, n)
    BY <1>1, <2>2 DEF Owned, Private, Cursors
  <2>4. Reclaim(s) \/ ReclaimCall(s) => cur[s] # b
    BY <1>1, <2>3, ReclaimEntry
  <2>5. Waiting(b, n)'
    BY <2>3, <2>4, WaitingStep
  <2> QED
    BY <2>1, <2>2, <2>5 DEF Apart
<1>2. ASSUME NEW k \in 1 .. Len(stack[t]), NEW b \in Batches, NEW n \in Nat,
             b = stack[t][k].batch, n = stack[t][k].idx
      PROVE  n >= 1 /\ Waiting(b, n)'
  <2>1. b \in BatchesOf(stack[t]) /\ b \in Owned(t) /\ n >= 1 /\ Waiting(b, n)
    BY <1>2 DEF BatchesOf, Owned, Private, Cursors
  <2>2. Reclaim(s) \/ ReclaimCall(s) => cur[s] # b
    BY <2>1, ReclaimEntry
  <2> QED
    BY <2>1, <2>2, WaitingStep
<1> QED
  BY <1>1, <1>2

\* Every step leaves the cursor of its slot at entries that wait.
LEMMA OwnCursor ==
  ASSUME SInv, Located, Cursors, NEW s \in Slots, Step(s)
  PROVE  idx'[s] >= 1 /\ (pc'[s] = "free" => Waiting(cur[s], idx[s])')
<1>0. idx[s] \in Nat /\ idx[s] >= 1
  BY DEF SInv, TypeOK, Cursors
<1>1. CASE Reclaim(s)
  <2>1. PICK b \in Batches, n \in Nat : b = cur[s] /\ n = idx[s] /\ Waiting(b, n)
    BY <1>0, <1>1, ReclaimEntry DEF Cursors
  <2>2. idx'[s] = n + 1 /\ cur'[s] = b
    BY <1>1, <2>1 DEF Reclaim, SInv, TypeOK
  <2>3. Waiting(b, n + 1)
    <3>1. Len(entries[b]) \in Nat
      BY DEF SInv, TypeOK
    <3> QED
      BY <2>1, <3>1 DEF Waiting
  <2>4. Waiting(b, n + 1)'
    BY <2>1, <2>3, WaitingStep
  <2> QED
    BY <1>0, <2>1, <2>2, <2>4
<1>2. CASE ReclaimCall(s) \/ Dealloc(s)
  BY <1>2 DEF ReclaimCall, Dealloc, Resume, SInv, TypeOK
<1>3. CASE ReclaimReturn(s)
  <2>1. PICK k \in 1 .. Len(stack[s]) : k = Len(stack[s])
    BY <1>3 DEF ReclaimReturn, SInv, TypeOK
  <2>2. PICK b \in Batches, n \in Nat : b = stack[s][k].batch /\ n = stack[s][k].idx
    <3>1. stack[s] \in Seq(Frames)
      BY DEF SInv, TypeOK
    <3>2. stack[s][k] \in Frames
      BY <3>1
    <3> QED
      BY <3>2 DEF Frames
  <2>3. idx'[s] = n /\ cur'[s] = b
    BY <1>3, <2>1, <2>2 DEF ReclaimReturn, SInv, TypeOK
  <2>4. n >= 1 /\ Waiting(b, n)'
    BY <2>2, OthersWait
  <2> QED
    BY <2>3, <2>4
<1>4. CASE ~Reclaim(s) /\ ~ReclaimCall(s) /\ ~ReclaimReturn(s) /\ ~Dealloc(s)
  <2>1. /\ idx' = idx
        /\ pc[s] = "free" => pc'[s] = "free" /\ cur'[s] = cur[s]
        /\ pc'[s] = "free" /\ pc[s] # "free" => cur'[s] = cur[s] /\ (Linking(s) \/ pc[s] = "dec")
    BY <1>4, FreeStep
  <2>2. ASSUME pc'[s] = "free" PROVE Waiting(cur[s], idx[s])'
    <3>1. PICK b \in Batches, n \in Nat : b = cur[s] /\ n = idx[s] /\ cur'[s] = b
      BY <2>1, <2>2 DEF SInv, TypeOK, Control, Linking
    <3>2. Waiting(b, n)
      <4>1. CASE pc[s] = "free"
        BY <3>1, <4>1 DEF Cursors
      <4>2. CASE pc[s] # "free"
        <5>1. n = 1
          BY <3>1, <4>2 DEF SInv, Control
        <5>2. \A t \in Slots : b \notin Private(t)
          <6>1. CASE Linking(s)
            BY <3>1, <6>1, LinkedBatch
          <6>2. CASE pc[s] = "dec"
            <7>1. b \in Reach(s)
              BY <3>1, <6>2 DEF Reach, Pending
            <7> QED
              BY <7>1 DEF SInv, Structure, Reachable
          <6> QED
            BY <2>1, <2>2, <4>2, <6>1, <6>2
        <5> QED
          BY <5>1, <5>2, NotBusy DEF Cursors
      <4> QED
        BY <4>1, <4>2
    <3>3. Waiting(b, n)'
      BY <1>4, <3>2, WaitingStep
    <3> QED
      BY <2>1, <3>1, <3>3
  <2> QED
    BY <1>0, <2>1, <2>2
<1> QED
  BY <1>1, <1>2, <1>3, <1>4

\* Every step leaves the suspended calls of its slot at entries that wait.
LEMMA OwnFrames ==
  ASSUME SInv, Located, Cursors, NEW s \in Slots, Step(s), NEW k \in 1 .. Len(stack'[s])
  PROVE  (stack[s][k].idx >= 1 /\ Waiting(stack[s][k].batch, stack[s][k].idx))'
<1>0. /\ stack[s] \in Seq(Frames) /\ Len(stack[s]) \in Nat
      /\ \A j \in 1 .. Len(stack[s]) : stack[s][j].batch \in Batches /\ stack[s][j].idx \in Nat
  <2>1. stack[s] \in Seq(Frames)
    BY DEF SInv, TypeOK
  <2>2. \A j \in 1 .. Len(stack[s]) : stack[s][j] \in Frames
    BY <2>1
  <2> QED
    BY <2>1, <2>2 DEF Frames
<1>1. ASSUME k \in 1 .. Len(stack[s]), stack'[s][k] = stack[s][k]
      PROVE  (stack[s][k].idx >= 1 /\ Waiting(stack[s][k].batch, stack[s][k].idx))'
  <2>1. PICK b \in Batches, n \in Nat : b = stack[s][k].batch /\ n = stack[s][k].idx
    BY <1>0, <1>1
  <2>2. n >= 1 /\ Waiting(b, n)'
    BY <1>1, <2>1, OthersWait
  <2>3. stack'[s][k].batch = b /\ stack'[s][k].idx = n
    BY <1>1, <2>1
  <2> QED
    BY <2>2, <2>3
<1>2. CASE ReclaimCall(s)
  <2>1. PICK b \in Batches, n \in Nat : b = cur[s] /\ n = idx[s] /\ Waiting(b, n) /\ n >= 1
    BY <1>2, ReclaimEntry DEF Cursors
  <2>2. PICK f : f = [batch |-> cur[s], idx |-> idx[s] + 1, list |-> list[s], base |-> guards[s]]
    OBVIOUS
  <2>3. f \in Frames /\ f.batch = b /\ f.idx = n + 1
    BY <2>1, <2>2 DEF Frames, SInv, TypeOK
  <2>4. stack'[s] = Append(stack[s], f)
    BY <1>2, <2>2 DEF ReclaimCall, SInv, TypeOK
  <2>5. CASE k \in 1 .. Len(stack[s])
    <3>1. stack'[s][k] = stack[s][k]
      BY <1>0, <2>3, <2>4, <2>5
    <3> QED
      BY <1>1, <2>5, <3>1
  <2>6. CASE k \notin 1 .. Len(stack[s])
    <3>1. k = Len(stack[s]) + 1
      BY <1>0, <2>3, <2>4, <2>6
    <3>2. stack'[s][k] = f
      BY <1>0, <2>3, <2>4, <3>1
    <3>3. Waiting(b, n + 1)
      <4>1. Len(entries[b]) \in Nat
        BY DEF SInv, TypeOK
      <4> QED
        BY <2>1, <4>1 DEF Waiting
    <3>4. Waiting(b, n + 1)'
      BY <2>1, <3>3, WaitingStep
    <3>5. stack'[s][k].batch = b /\ stack'[s][k].idx = n + 1
      BY <2>3, <3>2
    <3> QED
      BY <2>1, <3>4, <3>5
  <2> QED
    BY <2>5, <2>6
<1>3. CASE ReclaimReturn(s)
  <2>1. stack[s] # <<>> /\ stack'[s] = SubSeq(stack[s], 1, Len(stack[s]) - 1)
    BY <1>3 DEF ReclaimReturn, SInv, TypeOK
  <2>2. PICK n \in Nat : n = Len(stack[s]) - 1
    BY <1>0, <2>1
  <2>3. Len(stack'[s]) = n /\ \A i \in 1 .. n : stack'[s][i] = stack[s][i]
    BY <1>0, <2>1, <2>2, StackFront
  <2>4. k \in 1 .. Len(stack[s]) /\ stack'[s][k] = stack[s][k]
    BY <1>0, <2>2, <2>3
  <2> QED
    BY <1>1, <2>4
<1>4. CASE UNCHANGED stack
  BY <1>1, <1>4
<1>5. CASE Reclaim(s) \/ Dealloc(s)
  BY <1>4, <1>5 DEF Reclaim, Dealloc
<1> QED
  BY <1>2, <1>3, <1>4, <1>5, FreeStep

\* A free_batch that has begun goes on until it deallocates the batch.
LEMMA StayBusy ==
  ASSUME SInv, NEW s \in Slots, Step(s), NEW b \in Batches, Busy(b), ~(Dealloc(s) /\ cur[s] = b)
  PROVE  Busy(b)'
<1>1. PICK t \in Slots : b \in BatchesOf(stack[t]) \/ (pc[t] = "free" /\ cur[t] = b)
  BY DEF Busy
<1>2. CASE t # s
  <2>1. Apart(t)
    BY <1>2, Others DEF SInv
  <2> QED
    BY <1>1, <2>1 DEF Busy, Apart, BatchesOf
<1>3. CASE t = s
  <2>0. stack[s] \in Seq(Frames) /\ DistinctFrames(stack[s])
    BY DEF SInv, TypeOK, Structure, Distinct, Tidy
  <2>1. CASE ReclaimCall(s)
    <3>1. PICK f \in Frames : f.batch = cur[s] /\ stack'[s] = Append(stack[s], f) /\ pc[s] = "free"
      <4>1. PICK f : f = [batch |-> cur[s], idx |-> idx[s] + 1, list |-> list[s], base |-> guards[s]]
        OBVIOUS
      <4>2. cur[s] \in Batches
        BY <2>1 DEF ReclaimCall, SInv, Control
      <4>3. f \in Frames /\ f.batch = cur[s]
        BY <4>1, <4>2 DEF Frames, SInv, TypeOK
      <4> QED
        BY <2>1, <4>1, <4>3 DEF ReclaimCall, SInv, TypeOK
    <3>2. BatchesOf(stack'[s]) = BatchesOf(stack[s]) \cup {cur[s]}
      BY <2>0, <3>1, FramesPush
    <3>3. b \in BatchesOf(stack'[s])
      BY <1>1, <1>3, <3>2
    <3> QED
      BY <3>3 DEF Busy, BatchesOf
  <2>2. CASE ReclaimReturn(s)
    <3>1. /\ stack[s] # <<>> /\ stack'[s] = SubSeq(stack[s], 1, Len(stack[s]) - 1)
          /\ pc[s] = "user" /\ pc'[s] = "free" /\ cur'[s] = stack[s][Len(stack[s])].batch
      BY <2>2 DEF ReclaimReturn, SInv, TypeOK
    <3>2. BatchesOf(stack'[s]) = BatchesOf(stack[s]) \ {cur'[s]}
      BY <2>0, <3>1, FramesPop
    <3>3. b \in BatchesOf(stack'[s]) \/ cur'[s] = b
      BY <1>1, <1>3, <3>1, <3>2
    <3> QED
      BY <3>1, <3>3 DEF Busy, BatchesOf
  <2>3. CASE Reclaim(s)
    BY <1>1, <1>3, <2>3 DEF Reclaim, Busy, BatchesOf
  <2>4. CASE Dealloc(s)
    BY <1>1, <1>3, <2>4 DEF Dealloc, Busy, BatchesOf
  <2>5. CASE ~Reclaim(s) /\ ~ReclaimCall(s) /\ ~ReclaimReturn(s) /\ ~Dealloc(s)
    <3>1. UNCHANGED stack /\ (pc[s] = "free" => pc'[s] = "free" /\ cur'[s] = cur[s])
      BY <2>5, FreeStep
    <3> QED
      BY <1>1, <1>3, <3>1 DEF Busy, BatchesOf
  <2> QED
    BY <2>1, <2>2, <2>3, <2>4, <2>5
<1> QED
  BY <1>2, <1>3

\* Every step preserves what is known of the cursors.
LEMMA NextCursors ==
  ASSUME SInv, Located, Cursors, NEW s \in Slots, Step(s)
  PROVE  Cursors'
<1>1. ASSUME NEW t \in Slots PROVE idx'[t] >= 1 /\ (pc'[t] = "free" => Waiting(cur[t], idx[t])')
  <2>1. CASE t = s
    BY <2>1, OwnCursor
  <2>2. CASE t # s
    <3>1. Apart(t)
      BY <2>2, Others DEF SInv
    <3> QED
      BY <2>2, <3>1, OthersWait DEF Apart, Cursors
  <2> QED
    BY <2>1, <2>2
<1>2. ASSUME NEW t \in Slots, NEW k \in 1 .. Len(stack'[t])
      PROVE  (stack[t][k].idx >= 1 /\ Waiting(stack[t][k].batch, stack[t][k].idx))'
  <2>1. CASE t = s
    BY <2>1, OwnFrames
  <2>2. CASE t # s
    <3>1. stack'[t] = stack[t]
      BY <2>2, Others DEF SInv, Apart
    <3>2. stack[t] \in Seq(Frames) /\ k \in 1 .. Len(stack[t])
      BY <3>1 DEF SInv, TypeOK
    <3>3. stack[t][k] \in Frames
      BY <3>2
    <3>4. PICK b \in Batches, n \in Nat : b = stack[t][k].batch /\ n = stack[t][k].idx
      BY <3>3 DEF Frames
    <3>5. n >= 1 /\ Waiting(b, n)'
      BY <3>2, <3>4, OthersWait
    <3>6. stack'[t][k].batch = b /\ stack'[t][k].idx = n
      BY <3>1, <3>4
    <3> QED
      BY <3>5, <3>6
  <2> QED
    BY <2>1, <2>2
<1>3. ASSUME NEW b \in Batches, ~Busy(b)' PROVE Waiting(b, 1)'
  <2>1. CASE Dealloc(s) /\ cur[s] = b
    BY <2>1 DEF Dealloc, Waiting, SInv, TypeOK
  <2>2. CASE ~Busy(b)
    <3>1. Waiting(b, 1)
      BY <2>2 DEF Cursors
    <3>2. Reclaim(s) \/ ReclaimCall(s) => cur[s] # b
      BY <2>2 DEF Busy, Reclaim, ReclaimCall
    <3> QED
      BY <3>1, <3>2, WaitingStep
  <2> QED
    BY <1>3, <2>1, <2>2, StayBusy
<1> QED
  BY <1>1, <1>2, <1>3 DEF Cursors

-----------------------------------------------------------------------------
(* No allocated batch is lost. *)

\* A batch that keeps its references and its owner stays accounted for.
LEMMA StayAccounted ==
  ASSUME Accounted,
         \A a \in alive' :
           \/ a \in alive /\ \A r \in Slots : /\ a \in Reach(r) => a \in Reach(r)'
                                              /\ a \in Owned(r) => a \in Owned(r)'
           \/ \E r \in Slots : a \in Reach(r)' \/ a \in Owned(r)'
  PROVE  Accounted'
<1> SUFFICES ASSUME NEW a \in alive' PROVE \E r \in Slots : a \in Reach(r)' \/ a \in Owned(r)'
  BY DEF Accounted, Refs
<1>1. CASE a \in alive /\ \A r \in Slots : /\ a \in Reach(r) => a \in Reach(r)'
                                           /\ a \in Owned(r) => a \in Owned(r)'
  <2>1. \E r \in Slots : a \in Reach(r) \/ a \in Owned(r)
    BY <1>1 DEF Accounted, Refs
  <2> QED
    BY <1>1, <2>1
<1> QED
  BY <1>1

\* The slots that are not the ones that make a step keep their batches.
LEMMA OthersKeep ==
  ASSUME SInv, NEW s \in Slots, Step(s), NEW r \in Slots, r # s, head'[r] = head[r], list'[r] = list[r]
  PROVE  SameSets(r)
<1>1. Apart(r)
  BY Others DEF SInv
<1>2. Idle(r)
  BY <1>1 DEF Apart, Idle
<1> QED
  BY <1>2, IdleSlot

\* Every step keeps each allocated batch owned or referred to.
LEMMA NextAccounted ==
  ASSUME SInv, Accounted, NEW s \in Slots, Step(s)
  PROVE  Accounted'
<1>1. CASE Quiet
  BY <1>1, StayAccounted DEF Quiet, SameSets
<1>2. CASE AllIdle
  BY <1>1, <1>2, IdleStep
<1>3. CASE \/ Drain(s) \/ HeavyReturn(s) \/ LinkSkip(s) \/ LinkRetry(s) \/ Reclaim(s)
           \/ \E t \in Slots : Interrupt(s, t)
           \/ \E t \in Slots : ScanSkip(s, t) \/ ScanMark(s, t) \/ ScanGiveUp(s, t) \/ LinkLoad(s, t)
           \/ Enter(s) \/ (Leave(s) /\ guards[s] # 1) \/ Flush(s)
           \/ \E c \in Cells : Protect(s, c) \/ \E n \in Objects \cup {NULL} : Swap(s, c, n)
           \/ \E o \in Objects : Add(s, o) /\ batch[s] # NULL
  BY <1>2, <1>3, IdleActions
<1>4. CASE (Leave(s) /\ guards[s] = 1) \/ Refresh(s)
  <2>1. /\ pc[s] = "user" /\ TraverseFrom(s, View(s)) /\ UNCHANGED <<batchVars, retireVars>>
        /\ head' = [head EXCEPT ![s] = INACTIVE] \/ head' = [head EXCEPT ![s] = <<>>]
    BY <1>4 DEF Leave, LeaveReservation, Refresh
  <2> QED
    BY <1>1, <2>1, TakeList
<1>5. CASE Traverse(s) \/ ReclaimCall(s) \/ ReclaimReturn(s)
  BY <1>1, <1>5, TraverseQuiet, CallQuiet, ReturnQuiet
<1>6. CASE Reserve(s) \/ \E o \in Objects : Add(s, o) /\ batch[s] = NULL
  <2>1. PICK b \in Batches \ alive : batch'[s] = b /\ alive' = alive \cup {b}
    BY <1>6 DEF Reserve, Add, GetOrInit, SInv, TypeOK
  <2>2. UNCHANGED <<head, list, stack>> /\ pc[s] = "user" /\ pc'[s] \in {"user", "heavy"} /\ batch[s] = NULL
    BY <1>6, AddStep DEF Reserve, Add, SInv, TypeOK, resvVars, callVars
  <2>3. Reach(s)' = Reach(s) /\ Owned(s) \subseteq Owned(s)' /\ b \in Owned(s)'
    BY <2>1, <2>2, NullAssumption DEF Reach, Linked, Pending, Owned, Private, Linking, ListsOf, BatchesOf, Elems
  <2>4. \A r \in Slots \ {s} : SameSets(r)
    BY <2>2, OthersKeep
  <2> QED
    BY <2>1, <2>3, <2>4, StayAccounted DEF SameSets
<1>7. CASE Publish(s)
  <2>1. /\ UNCHANGED <<head, list, stack, alive, cur>> /\ pc[s] = "scan" /\ pc'[s] = "link"
        /\ cur[s] = batch[s]
    BY <1>7 DEF Publish, SInv, TypeOK, Control, resvVars
  <2>2. Reach(s)' = Reach(s) /\ Owned(s) \subseteq Owned(s)'
    BY <2>1 DEF Reach, Linked, Pending, Owned, Private, Linking, ListsOf, BatchesOf, Elems
  <2>3. \A r \in Slots \ {s} : SameSets(r)
    BY <2>1, OthersKeep
  <2> QED
    BY <2>1, <2>2, <2>3, StayAccounted DEF SameSets
<1>8. CASE LinkCas(s)
  <2>1. /\ UNCHANGED <<list, stack, alive, cur, batch>> /\ pc[s] = "cas" /\ pc'[s] = "link"
        /\ tgt[s] \in Slots /\ cur[s] \in Batches /\ Top(head[tgt[s]]) # INACTIVE
        /\ head' = [head EXCEPT ![tgt[s]] = <<cur[s]>> \o @]
    BY <1>8 DEF LinkCas, LinkNext, SInv, TypeOK, Control, batchVars
  <2>2. \A r \in Slots : Linked(r) \subseteq Linked(r)'
    <3>0. PICK t \in Slots : t = tgt[s]
      BY <2>1
    <3>1. \A r \in Slots \ {t} : head'[r] = head[r]
      BY <2>1, <3>0 DEF SInv, TypeOK
    <3>2. head[t] # INACTIVE /\ head[t] \in Lists /\ head'[t] = <<cur[s]>> \o head[t]
      BY <2>1, <3>0 DEF Top, SInv, TypeOK
    <3>3. head'[t] \in Lists /\ Elems(head'[t]) = {cur[s]} \cup Elems(head[t])
      BY <2>1, <3>2, ElemsCons
    <3>4. Linked(t) \subseteq Linked(t)'
      BY <3>2, <3>3, ListIsActive DEF Linked
    <3> QED
      BY <3>1, <3>4 DEF Linked
  <2>3. \A r \in Slots \ {s} : Apart(r)
    BY Others DEF SInv
  <2>4. \A r \in Slots : Pending(r)' = Pending(r) /\ Owned(r)' = Owned(r)
    BY <2>1, <2>3 DEF Apart, Pending, Owned, Private, Linking
  <2> QED
    BY <2>1, <2>2, <2>4, StayAccounted DEF Reach
<1>9. CASE Count(s)
  <2>1. PICK b \in Batches : b = cur[s]
    BY <1>9 DEF Count, SInv, Control
  <2>2. PICK n : n = WrapAdd(active[b], cnt[s])
    OBVIOUS
  <2>3. /\ UNCHANGED <<head, list, stack, alive, batch>> /\ pc[s] = "link" /\ Linking(s)
        /\ pc'[s] = (IF n = 0 THEN "free" ELSE "user") /\ (n = 0 => cur'[s] = b)
    BY <1>9, <2>1, <2>2 DEF Count, Linking, SInv, TypeOK, resvVars
  <2>4. n = Cardinality(Refs(b))
    BY <2>1, <2>2, <2>3 DEF SInv, Structure, RefCount
  <2>5. Reach(s)' = Reach(s) /\ \A a \in Owned(s) : a # b \/ n = 0 => a \in Owned(s)'
    BY <2>1, <2>3 DEF Reach, Linked, Pending, Owned, Private, Linking, ListsOf, BatchesOf, Elems
  <2>6. \A r \in Slots \ {s} : SameSets(r)
    BY <2>3, OthersKeep
  <2>7. n # 0 => \E r \in Slots : b \in Reach(r)'
    <3>1. n # 0 => Refs(b) # {}
      BY <2>4, SlotSet DEF Refs
    <3>2. Refs(b) # {} => \E r \in Slots : b \in Reach(r)
      BY DEF Refs
    <3> QED
      BY <2>5, <2>6, <3>1, <3>2 DEF SameSets
  <2> QED
    BY <2>3, <2>5, <2>6, <2>7, StayAccounted DEF SameSets
<1>10. CASE Dec(s)
  <2>1. PICK b \in Batches : b = cur[s]
    BY <1>10 DEF Dec, SInv, Control
  <2>2. /\ UNCHANGED <<head, list, stack, alive, batch>> /\ pc[s] = "dec"
        /\ pc'[s] = (IF active[b] = 1 THEN "free" ELSE Resume(list[s]))
        /\ active[b] = 1 => cur'[s] = b
    BY <1>10, <2>1 DEF Dec, SInv, TypeOK, resvVars
  <2>3. /\ \A a \in Reach(s) \ {b} : a \in Reach(s)'
        /\ Owned(s) \subseteq Owned(s)'
        /\ active[b] = 1 => b \in Owned(s)'
    BY <2>1, <2>2 DEF Reach, Linked, Pending, Owned, Private, Linking, ListsOf, BatchesOf, Elems, Resume
  <2>4. \A r \in Slots \ {s} : SameSets(r)
    BY <2>2, OthersKeep
  <2>5. \E r \in Slots : b \in Reach(r)' \/ b \in Owned(r)'
    <3>1. CASE active[b] = 1
      BY <2>3, <3>1
    <3>2. CASE Linkers(b) # {}
      <4>1. PICK r \in Slots : Linking(r) /\ cur[r] = b
        BY <3>2 DEF Linkers
      <4>2. r # s /\ b \in Owned(r)
        BY <2>2, <4>1 DEF Linking, Owned
      <4> QED
        BY <2>4, <4>2 DEF SameSets
    <3>3. CASE active[b] # 1 /\ Linkers(b) = {}
      <4>1. s \in Refs(b) /\ Refs(b) \in SUBSET Slots /\ b \in alive
        BY <2>1, <2>2, DecCount DEF Refs, SInv, Structure, Reachable
      <4>2. Cardinality(Refs(b)) # 1
        BY <3>3, <4>1 DEF SInv, Structure, RefCount
      <4>3. Refs(b) # {s}
        BY <4>2, FS_Singleton
      <4>4. PICK r \in Slots \ {s} : b \in Reach(r)
        BY <4>1, <4>3 DEF Refs
      <4> QED
        BY <2>4, <4>4 DEF SameSets
    <3> QED
      BY <3>1, <3>2, <3>3
  <2> QED
    BY <2>2, <2>3, <2>4, <2>5, StayAccounted DEF SameSets
<1>11. CASE Dealloc(s)
  <2>1. PICK b \in Batches : b = cur[s]
    BY <1>11 DEF Dealloc, SInv, Control
  <2>2. /\ UNCHANGED <<head, list, stack, batch>> /\ alive' = alive \ {b} /\ pc[s] = "free"
        /\ pc'[s] = Resume(list[s])
    BY <1>11, <2>1 DEF Dealloc, SInv, TypeOK, resvVars
  <2>3. Reach(s)' = Reach(s) /\ \A a \in Owned(s) \ {b} : a \in Owned(s)'
    BY <2>1, <2>2 DEF Reach, Linked, Pending, Owned, Private, Linking, ListsOf, BatchesOf, Elems, Resume
  <2>4. \A r \in Slots \ {s} : SameSets(r)
    BY <2>2, OthersKeep
  <2> QED
    BY <2>2, <2>3, <2>4, StayAccounted DEF SameSets
<1>12. CASE User(s)
  BY <1>3, <1>4, <1>5, <1>6, <1>12 DEF User
<1>13. CASE Internal(s)
  BY <1>3, <1>5, <1>7, <1>8, <1>9, <1>10, <1>11, <1>13 DEF Internal
<1> QED
  BY <1>3, <1>12, <1>13 DEF Step

-----------------------------------------------------------------------------
(* No retired object is lost. *)

\* A step moves a retired or reclaimed object nowhere: only its reclaimer does.
LEMMA ObjectsStay ==
  ASSUME SInv, Located, Cursors, NEW s \in Slots, Step(s), NEW o \in Objects
  PROVE  /\ obj[o] = "reclaimed" => obj'[o] = "reclaimed"
         /\ obj[o] = "retired" => obj'[o] \in {"retired", "reclaimed"}
         /\ obj'[o] = "retired" => obj[o] = "retired" \/ Add(s, o)
<1>1. CASE UNCHANGED <<cell, obj, entries>>
  BY <1>1
<1>2. ASSUME NEW c \in Cells, NEW n \in Objects \cup {NULL}, Swap(s, c, n)
      PROVE  /\ obj[o] = "reclaimed" => obj'[o] = "reclaimed"
             /\ obj[o] = "retired" => obj'[o] \in {"retired", "reclaimed"}
             /\ obj'[o] = "retired" => obj[o] = "retired"
  <2>1. /\ n = NULL \/ obj[n] = "fresh"
        /\ obj'[o] = IF o = n THEN "shared" ELSE IF o = cell[c] THEN "unlinked" ELSE obj[o]
    BY <1>2 DEF Swap
  <2>2. cell[c] # NULL => obj[cell[c]] = "shared"
    BY DEF Located
  <2> QED
    BY <2>1, <2>2, NullAssumption
<1>3. ASSUME NEW p \in Objects, Add(s, p)
      PROVE  /\ obj[o] = "reclaimed" => obj'[o] = "reclaimed"
             /\ obj[o] = "retired" => obj'[o] \in {"retired", "reclaimed"}
             /\ obj'[o] = "retired" => obj[o] = "retired" \/ Add(s, o)
  <2>1. obj[p] \in {"fresh", "unlinked"} /\ obj' = [obj EXCEPT ![p] = "retired"]
    BY <1>3 DEF Add
  <2>2. CASE o = p
    BY <1>3, <2>1, <2>2
  <2>3. CASE o # p
    BY <2>1, <2>3 DEF SInv, TypeOK
  <2> QED
    BY <2>2, <2>3
<1>4. CASE Reclaim(s) \/ ReclaimCall(s)
  <2>1. PICK x : obj' = [obj EXCEPT ![x] = "reclaimed"]
    BY <1>4, ReclaimEntry
  <2> QED
    BY <2>1 DEF SInv, TypeOK
<1>5. CASE Dealloc(s)
  BY <1>5 DEF Dealloc, clientVars
<1> QED
  BY <1>1, <1>2, <1>3, <1>4, <1>5, SameObjects

\* The entries of a batch that is being freed stay until it is deallocated.
LEMMA BusyEntries ==
  ASSUME SInv, NEW s \in Slots, Step(s), NEW b \in Batches, Busy(b)
  PROVE  entries'[b] = entries[b] \/ entries'[b] = <<>>
<1>1. CASE UNCHANGED <<cell, obj, entries>>
  BY <1>1
<1>2. ASSUME NEW o \in Objects, Add(s, o) PROVE entries'[b] = entries[b]
  <2>1. PICK a \in Batches : a \in GetOrInit(s) /\ \A d \in Batches \ {a} : entries'[d] = entries[d]
    BY <1>2, AddEntries DEF SInv
  <2>2. PICK t \in Slots : b \in BatchesOf(stack[t]) \/ (pc[t] = "free" /\ cur[t] = b)
    BY DEF Busy
  <2>3. b \in Owned(t) /\ b \in alive
    BY <2>2 DEF Owned, Private, SInv, Structure, Ownership
  <2>4. batch[s] # b
    <3>1. CASE t = s
      BY <2>2, <3>1 DEF SInv, Structure, Distinct, Tidy
    <3>2. CASE t # s
      <4>1. b \notin Owned(s)
        BY <2>3, <3>2 DEF SInv, Structure, Ownership
      <4> QED
        BY <4>1, NullAssumption DEF Owned, Private
    <3> QED
      BY <3>1, <3>2
  <2>5. a # b
    BY <2>1, <2>3, <2>4 DEF GetOrInit
  <2> QED
    BY <2>1, <2>5
<1>3. CASE Reclaim(s) \/ ReclaimCall(s)
  BY <1>3 DEF Reclaim, ReclaimCall, batchVars
<1>4. CASE \E c \in Cells, n \in Objects \cup {NULL} : Swap(s, c, n)
  BY <1>4 DEF Swap, batchVars
<1>5. CASE Dealloc(s)
  BY <1>5 DEF Dealloc, SInv, TypeOK
<1> QED
  BY <1>1, <1>2, <1>3, <1>4, <1>5, SameObjects

\* What a free_batch has passed stays reclaimed.
LEMMA SpentStep ==
  ASSUME SInv, Located, Cursors, NEW s \in Slots, Step(s), NEW b \in Batches, Busy(b), NEW n \in Nat,
         Spent(b, n)
  PROVE  Spent(b, n)'
<1>1. \A i \in 1 .. Len(entries[b]) : entries[b][i] \in Objects
  BY DEF SInv, TypeOK
<1>2. CASE entries'[b] = entries[b]
  BY <1>1, <1>2, ObjectsStay DEF Spent
<1>3. CASE entries'[b] = <<>>
  BY <1>3 DEF Spent
<1> QED
  BY <1>2, <1>3, BusyEntries

\* A reclaimer that is called reclaims the entry at the cursor.
LEMMA SpentMore ==
  ASSUME SInv, Located, Cursors, NEW s \in Slots, Reclaim(s) \/ ReclaimCall(s), Spent(cur[s], idx[s])
  PROVE  /\ cur[s] \in Batches /\ idx[s] \in Nat
         /\ \A b \in Batches, n \in Nat : b = cur[s] /\ n = idx[s] => Spent(b, n + 1)'
<1>1. /\ cur[s] \in Batches /\ idx[s] \in 1 .. Len(entries[cur[s]]) /\ UNCHANGED entries
      /\ obj' = [obj EXCEPT ![entries[cur[s]][idx[s]]] = "reclaimed"]
  BY ReclaimEntry
<1>2. ASSUME NEW b \in Batches, NEW n \in Nat, b = cur[s], n = idx[s] PROVE Spent(b, n + 1)'
  <2>1. /\ Len(entries[b]) \in Nat /\ \A i \in 1 .. Len(entries[b]) : entries[b][i] \in Objects
        /\ obj \in [Objects -> {"fresh", "shared", "unlinked", "retired", "reclaimed"}]
    BY DEF SInv, TypeOK
  <2>2. ASSUME NEW i \in 1 .. Len(entries[b]), i < n + 1 PROVE obj'[entries[b][i]] = "reclaimed"
    <3>1. CASE i = n
      BY <1>1, <1>2, <2>1, <3>1
    <3>2. CASE i < n
      <4>1. obj[entries[b][i]] = "reclaimed"
        BY <1>2, <3>2 DEF Spent
      <4> QED
        BY <1>1, <2>1, <4>1
    <3> QED
      BY <2>1, <2>2, <3>1, <3>2
  <2> QED
    BY <1>1, <2>2 DEF Spent
<1> QED
  BY <1>1, <1>2

\* The frames of a stack are calls on batches.
LEMMA FrameOf ==
  ASSUME SInv, NEW t \in Slots, NEW k \in 1 .. Len(stack[t])
  PROVE  /\ stack[t][k] \in Frames
         /\ stack[t][k].batch \in Batches /\ stack[t][k].idx \in Nat
         /\ Busy(stack[t][k].batch)
<1>1. stack[t] \in Seq(Frames)
  BY DEF SInv, TypeOK
<1>2. stack[t][k] \in Frames
  BY <1>1
<1> QED
  BY <1>2 DEF Frames, Busy, BatchesOf

\* Only free_batch deallocates.
LEMMA AliveStays ==
  ASSUME NEW s \in Slots, Step(s), ~Dealloc(s)
  PROVE  alive \subseteq alive'
<1>1. CASE Drain(s)
  BY <1>1 DEF Drain, batchVars
<1>2. CASE Internal(s)
  BY <1>2 DEF Internal, HeavyReturn, Interrupt, Publish, ScanSkip, ScanMark, ScanGiveUp, LinkLoad, LinkSkip,
     LinkCas, LinkRetry, Count, Traverse, Dec, Reclaim, ReclaimCall, batchVars
<1>3. CASE User(s)
  BY <1>3 DEF User, Enter, Leave, LeaveReservation, Refresh, Flush, Reserve, Protect, Swap, Add,
     ReclaimReturn, batchVars
<1> QED
  BY <1>1, <1>2, <1>3 DEF Step

\* Every step keeps each retired object in an allocated batch.
LEMMA NextKept ==
  ASSUME SInv, Located, Cursors, Kept, SInv', NEW s \in Slots, Step(s)
  PROVE  Kept'
<1>0. \A t \in Slots : /\ pc[t] = "free" => cur[t] \in Batches /\ Busy(cur[t])
                       /\ idx[t] \in Nat
  BY DEF SInv, TypeOK, Control, Busy
<1>1. ASSUME NEW o \in Objects, obj'[o] = "retired" PROVE \E b \in alive' : o \in Elems(entries'[b])
  <2>1. ASSUME Add(s, o) PROVE \E b \in alive' : o \in Elems(entries'[b])
    <3>1. PICK b \in Batches : /\ batch' = [batch EXCEPT ![s] = b]
                               /\ Len(entries'[b]) = Len(entries[b]) + 1 /\ Len(entries[b]) \in Nat
                               /\ entries'[b][Len(entries[b]) + 1] = o
      BY <2>1, AddEntries DEF SInv
    <3>2. b \in alive'
      <4>1. batch'[s] = b
        BY <3>1 DEF SInv, TypeOK
      <4> QED
        BY <4>1, NullAssumption DEF SInv, Structure, Ownership, Owned, Private
    <3>3. Len(entries[b]) + 1 \in 1 .. Len(entries'[b])
      BY <3>1
    <3> QED
      BY <3>1, <3>2, <3>3 DEF Elems
  <2>2. ASSUME obj[o] = "retired", ~Add(s, o) PROVE \E b \in alive' : o \in Elems(entries'[b])
    <3>1. PICK b \in alive : o \in Elems(entries[b])
      BY <2>2 DEF Kept
    <3>2. b \in Batches
      BY DEF SInv, TypeOK
    <3>3. CASE Dealloc(s) /\ cur[s] = b
      <4>1. pc[s] = "free" /\ idx[s] > Len(entries[b]) /\ Spent(b, idx[s])
        BY <3>3 DEF Dealloc, Kept
      <4>2. PICK i \in 1 .. Len(entries[b]) : entries[b][i] = o
        BY <3>1 DEF Elems
      <4>3. i < idx[s]
        <5>1. Len(entries[b]) \in Nat
          BY <3>2 DEF SInv, TypeOK
        <5> QED
          BY <1>0, <4>1, <4>2, <5>1
      <4> QED
        BY <2>2, <4>1, <4>2, <4>3 DEF Spent
    <3>4. CASE ~(Dealloc(s) /\ cur[s] = b)
      <4>1. b \in alive'
        <5>1. CASE Dealloc(s)
          BY <3>4, <5>1 DEF Dealloc
        <5>2. CASE ~Dealloc(s)
          BY <5>2, AliveStays
        <5> QED
          BY <5>1, <5>2
      <4>2. Elems(entries[b]) \subseteq Elems(entries'[b])
        <5>1. CASE UNCHANGED entries
          BY <5>1
        <5>2. CASE Dealloc(s)
          BY <3>2, <3>4, <5>2 DEF Dealloc, SInv, TypeOK
        <5>3. ASSUME NEW p \in Objects, Add(s, p) PROVE Elems(entries[b]) \subseteq Elems(entries'[b])
          <6>1. PICK a \in Batches :
                   /\ \A d \in Batches \ {a} : entries'[d] = entries[d]
                   /\ Len(entries'[a]) = Len(entries[a]) + 1
                   /\ \A i \in 1 .. Len(entries[a]) : entries'[a][i] = entries[a][i]
                   /\ Len(entries[a]) \in Nat
            BY <5>3, AddEntries DEF SInv
          <6>2. CASE a # b
            BY <3>2, <6>1, <6>2
          <6>3. CASE a = b
            <7>1. \A i \in 1 .. Len(entries[b]) : i \in 1 .. Len(entries'[b]) /\ entries'[b][i] = entries[b][i]
              BY <6>1, <6>3
            <7> QED
              BY <7>1 DEF Elems
          <6> QED
            BY <6>2, <6>3
        <5>4. CASE Reclaim(s) \/ ReclaimCall(s) \/ \E c \in Cells, n \in Objects \cup {NULL} : Swap(s, c, n)
          BY <5>1, <5>4 DEF Reclaim, ReclaimCall, Swap, batchVars
        <5> QED
          BY <5>1, <5>2, <5>3, <5>4, SameObjects
      <4> QED
        BY <3>1, <4>1, <4>2
    <3> QED
      BY <3>3, <3>4
  <2> QED
    BY <1>1, <2>1, <2>2, ObjectsStay
<1>2. ASSUME NEW t \in Slots, NEW k \in 1 .. Len(stack[t])
      PROVE  \A b \in Batches, n \in Nat : b = stack[t][k].batch /\ n = stack[t][k].idx => Spent(b, n)'
  BY FrameOf, SpentStep DEF Kept
<1>3. ASSUME NEW t \in Slots, pc[t] = "free"
      PROVE  \A b \in Batches, n \in Nat : b = cur[t] /\ n = idx[t] => Spent(b, n)'
  BY <1>0, <1>3, SpentStep DEF Kept
<1>4. ASSUME NEW t \in Slots, pc'[t] = "free" PROVE Spent(cur[t], idx[t])'
  <2>1. CASE t # s
    <3>1. Apart(t)
      BY <2>1, Others DEF SInv
    <3>2. pc[t] = "free" /\ cur'[t] = cur[t] /\ idx'[t] = idx[t]
      BY <1>4, <3>1 DEF Apart
    <3> QED
      BY <1>0, <1>3, <3>2
  <2>2. CASE t = s
    <3>1. CASE Reclaim(s)
      <4>1. pc[s] = "free" /\ Spent(cur[s], idx[s]) /\ cur'[s] = cur[s] /\ idx'[s] = idx[s] + 1
        BY <3>1 DEF Reclaim, Kept, SInv, TypeOK
      <4> QED
        BY <2>2, <3>1, <4>1, SpentMore
    <3>2. CASE ReclaimReturn(s)
      <4>1. PICK k \in 1 .. Len(stack[s]) : k = Len(stack[s])
        BY <3>2 DEF ReclaimReturn, SInv, TypeOK
      <4>2. cur'[s] = stack[s][k].batch /\ idx'[s] = stack[s][k].idx
        BY <3>2, <4>1 DEF ReclaimReturn, SInv, TypeOK
      <4> QED
        BY <1>2, <2>2, <4>2, FrameOf
    <3>3. CASE ReclaimCall(s) \/ Dealloc(s)
      BY <1>4, <2>2, <3>3 DEF ReclaimCall, Dealloc, Resume, SInv, TypeOK
    <3>4. CASE ~Reclaim(s) /\ ~ReclaimCall(s) /\ ~ReclaimReturn(s) /\ ~Dealloc(s)
      <4>1. idx' = idx /\ (pc[s] = "free" => cur'[s] = cur[s])
        BY <3>4, FreeStep
      <4>2. CASE pc[s] = "free"
        BY <1>0, <1>3, <2>2, <4>1, <4>2
      <4>3. CASE pc[s] # "free"
        <5>1. idx'[s] = 1
          BY <4>1, <4>3 DEF SInv, Control
        <5> QED
          BY <2>2, <5>1 DEF Spent
      <4> QED
        BY <4>2, <4>3
    <3> QED
      BY <3>1, <3>2, <3>3, <3>4
  <2> QED
    BY <2>1, <2>2
<1>5. ASSUME NEW t \in Slots, NEW k \in 1 .. Len(stack'[t])
      PROVE  Spent(stack[t][k].batch, stack[t][k].idx)'
  <2>1. ASSUME k \in 1 .. Len(stack[t]), stack'[t][k] = stack[t][k]
        PROVE  Spent(stack[t][k].batch, stack[t][k].idx)'
    BY <1>2, <2>1, FrameOf
  <2>2. CASE UNCHANGED stack \/ t # s
    <3>1. stack'[t] = stack[t]
      BY <2>2, Others DEF SInv, Apart
    <3> QED
      BY <2>1, <3>1
  <2>3. CASE t = s /\ ReclaimCall(s)
    <3>1. pc[s] = "free" /\ Spent(cur[s], idx[s])
      BY <2>3 DEF ReclaimCall, Kept
    <3>2. PICK f : f = [batch |-> cur[s], idx |-> idx[s] + 1, list |-> list[s], base |-> guards[s]]
      OBVIOUS
    <3>3. f \in Frames /\ f.batch = cur[s] /\ f.idx = idx[s] + 1
      <4>1. cur[s] \in Batches /\ idx[s] \in Nat /\ list[s] \in Lists /\ guards[s] \in Nat
        BY <1>0, <3>1 DEF SInv, TypeOK
      <4> QED
        BY <3>2, <4>1 DEF Frames
    <3>4. stack'[s] = Append(stack[s], f) /\ stack[s] \in Seq(Frames) /\ Len(stack[s]) \in Nat
      BY <2>3, <3>2 DEF ReclaimCall, SInv, TypeOK
    <3>5. CASE k \in 1 .. Len(stack[s])
      <4>1. stack'[s][k] = stack[s][k]
        BY <3>3, <3>4, <3>5
      <4> QED
        BY <2>1, <2>3, <3>5, <4>1
    <3>6. CASE k \notin 1 .. Len(stack[s])
      <4>1. k = Len(stack[s]) + 1
        BY <2>3, <3>3, <3>4, <3>6
      <4>2. stack'[s][k] = f
        BY <3>3, <3>4, <4>1
      <4> QED
        BY <2>3, <3>1, <3>3, <4>2, SpentMore
    <3> QED
      BY <3>5, <3>6
  <2>4. CASE t = s /\ ReclaimReturn(s)
    <3>1. stack[s] # <<>> /\ stack'[s] = SubSeq(stack[s], 1, Len(stack[s]) - 1)
          /\ stack[s] \in Seq(Frames) /\ Len(stack[s]) \in Nat
      BY <2>4 DEF ReclaimReturn, SInv, TypeOK
    <3>2. PICK n \in Nat : n = Len(stack[s]) - 1
      <4>1. PICK m \in Nat : m = Len(stack[s]) /\ m # 0
        BY <3>1
      <4>2. m - 1 \in Nat
        BY <4>1
      <4> QED
        BY <4>1, <4>2
    <3>3. Len(stack'[s]) = n /\ \A i \in 1 .. n : stack'[s][i] = stack[s][i]
      BY <3>1, <3>2, StackFront
    <3>4. k \in 1 .. Len(stack[s]) /\ stack'[s][k] = stack[s][k]
      BY <2>4, <3>1, <3>2, <3>3
    <3> QED
      BY <2>1, <2>4, <3>4
  <2>5. CASE Reclaim(s) \/ Dealloc(s)
    BY <2>2, <2>5 DEF Reclaim, Dealloc
  <2> QED
    BY <2>2, <2>3, <2>4, <2>5, FreeStep
<1> QED
  BY <1>1, <1>4, <1>5 DEF Kept

-----------------------------------------------------------------------------
(* Two steps that only reclaim_all takes (see ReclaimAllProofs). *)

\* The sweep takes the batch of slot t, in a quiet collector, to free it in slot s.
TakeBatch(s, t) ==
  /\ \A u \in Slots : pc[u] = "user" /\ stack[u] = <<>> /\ guards[u] = 0
  /\ batch[t] # NULL
  /\ batch' = [batch EXCEPT ![t] = NULL]
  /\ cur' = [cur EXCEPT ![s] = batch[t]]
  /\ pc' = [pc EXCEPT ![s] = "free"]
  /\ UNCHANGED <<resvVars, alive, entries, active, retireVars, list, idx, stack, clientVars>>

\* An object that no cell points to is reclaimed at once, and held no more.
ReclaimNow(o) ==
  /\ obj[o] \in {"fresh", "unlinked"}
  /\ obj' = [obj EXCEPT ![o] = "reclaimed"]
  /\ held' = [s \in Slots |-> held[s] \ {o}]
  /\ UNCHANGED <<resvVars, batchVars, retireVars, callVars, cell>>

\* The batch taken is its sweeper's alone, and nothing in it is reclaimed.
LEMMA TakeBatchKept ==
  ASSUME KInv, NEW s \in Slots, NEW t \in Slots, TakeBatch(s, t)
  PROVE  KInv'
<1> USE DEF resvVars, retireVars, clientVars
<1>0. SInv /\ TypeOK /\ Control /\ Activity /\ Structure
  BY DEF KInv, GInv, SInv
<1>1. PICK b \in Batches : b = batch[t]
  BY <1>0 DEF TakeBatch, TypeOK
<1>2. \A u \in Slots : /\ pc[u] = "user" /\ stack[u] = <<>> /\ guards[u] = 0 /\ list[u] = <<>>
                       /\ head[u] = INACTIVE /\ held[u] = {} /\ marked[u] = {} /\ cnt[u] = 0
                       /\ idx[u] = 1 /\ buffered[u] = FALSE
  BY <1>0 DEF TakeBatch, Control, Activity, Linking, TypeOK
<1>3. \A u \in Slots : /\ head'[u] = head[u] /\ buffered'[u] = buffered[u] /\ guards'[u] = guards[u]
                       /\ list'[u] = list[u] /\ idx'[u] = idx[u] /\ stack'[u] = stack[u]
                       /\ marked'[u] = marked[u] /\ cnt'[u] = cnt[u] /\ held'[u] = held[u]
                       /\ pc'[u] = IF u = s THEN "free" ELSE "user"
                       /\ cur'[u] = IF u = s THEN b ELSE cur[u]
                       /\ batch'[u] = IF u = t THEN NULL ELSE batch[u]
  BY <1>0, <1>1, <1>2 DEF TakeBatch, TypeOK
<1>4. TypeOK'
  BY <1>0, <1>1 DEF TakeBatch, TypeOK
<1>5. Control'
  BY <1>1, <1>2, <1>3 DEF Control, Linking
<1>6. Activity'
  BY <1>0, <1>3 DEF Activity
<1>7. \A u \in Slots : /\ Linked(u)' = {} /\ Pending(u)' = {} /\ Reach(u)' = {} /\ Reach(u) = {}
                       /\ ~Linking(u) /\ ~Linking(u)'
  BY <1>2, <1>3, ElemsEmpty, FramesEmpty DEF Linked, Pending, Reach, Linking
<1>8. \A u \in Slots : /\ Owned(u) = {batch[u]} \ {NULL}
                       /\ Private(u)' = ({batch'[u]} \ {NULL}) \cup (IF u = s THEN {b} ELSE {})
                       /\ Owned(u)' = Private(u)'
  BY <1>2, <1>3, <1>7, FramesEmpty DEF Owned, Private
<1>9. \A u \in Slots \ {t} : batch[u] # b
  BY <1>0, <1>1, <1>8, NullAssumption DEF Structure, Ownership
<1>10. b \in alive /\ alive' = alive /\ entries' = entries /\ active' = active /\ obj' = obj
  BY <1>0, <1>1, <1>8, NullAssumption DEF Structure, Ownership, TakeBatch
<1>11. Ownership'
  <2>1. \A u \in Slots : Owned(u)' \subseteq alive
    BY <1>0, <1>3, <1>8, <1>10 DEF Structure, Ownership
  <2>2. ASSUME NEW u \in Slots, NEW v \in Slots, u # v, NEW a \in Owned(u)', a \in Owned(v)'
        PROVE  FALSE
    <3>1. a \in Batches
      BY <1>0, <2>1 DEF TypeOK
    <3>2. CASE a = b
      <4>1. batch'[u] # b /\ batch'[v] # b
        BY <1>1, <1>3, <1>9, NullAssumption
      <4> QED
        BY <1>8, <2>2, <3>2, <4>1
    <3>3. CASE a # b
      <4>1. a = batch[u] /\ a = batch[v]
        BY <1>3, <1>8, <2>2, <3>3
      <4> QED
        BY <1>0, <1>8, <2>2, <3>1, <4>1, NullAssumption DEF Structure, Ownership
    <3> QED
      BY <3>2, <3>3
  <2> QED
    BY <1>10, <2>1, <2>2 DEF Ownership
<1>12. Distinct'
  BY <1>1, <1>2, <1>3, <1>7, <1>9, ElemsEmpty, FramesEmpty, NullAssumption DEF Distinct, Tidy
<1>13. Reachable' /\ Links'
  BY <1>7 DEF Reachable, Links
<1>14. RefCount'
  <2>1. \A a : Refs(a) = {} /\ Refs(a)' = {} /\ Linkers(a) = {}
    BY <1>7 DEF Refs, Linkers
  <2> QED
    BY <1>0, <1>7, <1>10, <2>1 DEF Structure, RefCount
<1>15. Unallocated'
  BY <1>0, <1>10 DEF Structure, Unallocated
<1>16. SInv'
  BY <1>4, <1>5, <1>6, <1>11, <1>12, <1>13, <1>14, <1>15 DEF SInv, Structure
<1>17. Accounted'
  <2>1. ASSUME NEW a \in alive PROVE \E u \in Slots : a \in Owned(u)'
    <3>1. PICK u \in Slots : a = batch[u] /\ a # NULL
      BY <1>7, <1>8 DEF KInv, GInv, Accounted, Refs
    <3>2. CASE u = t
      BY <1>1, <1>8, <3>1, <3>2
    <3>3. CASE u # t
      BY <1>3, <1>8, <3>1, <3>3
    <3> QED
      BY <3>2, <3>3
  <2> QED
    BY <1>10, <2>1 DEF Accounted
<1>18. Located'
  BY <1>10 DEF KInv, GInv, Located, TakeBatch
<1>19. Cursors'
  <2>1. \A a \in Batches : Waiting(a, 1)'
    <3>1. \A a \in Batches : Waiting(a, 1)
      BY <1>2, FramesEmpty DEF KInv, GInv, Cursors, Busy
    <3> QED
      BY <1>10, <3>1 DEF Waiting
  <2>2. \A u \in Slots : idx'[u] = 1 /\ Len(stack'[u]) = 0
    BY <1>2, <1>3
  <2>3. \A u \in Slots : pc'[u] = "free" => cur'[u] = b
    BY <1>3
  <2> QED
    BY <2>1, <2>2, <2>3 DEF Cursors, Waiting
<1>20. Grace' /\ SelfCaught'
  BY <1>2, <1>3 DEF Grace, SelfCaught
<1>21. Kept'
  <2>1. \A u \in Slots : idx'[u] = 1 /\ Len(stack'[u]) = 0
    BY <1>2, <1>3
  <2> QED
    BY <1>10, <2>1 DEF KInv, Kept, Spent
<1> QED
  BY <1>16, <1>17, <1>18, <1>19, <1>20, <1>21 DEF KInv, GInv

\* What is reclaimed at once is in no cell and in no batch.
LEMMA ReclaimNowKept ==
  ASSUME KInv, NEW o \in Objects, ReclaimNow(o)
  PROVE  KInv'
<1> USE DEF resvVars, batchVars, retireVars, callVars
<1>0. SInv /\ TypeOK /\ Located
  BY DEF KInv, GInv, SInv
<1>1. /\ UNCHANGED <<resvVars, batchVars, retireVars, callVars, cell>>
      /\ obj[o] \in {"fresh", "unlinked"}
      /\ \A p \in Objects : obj'[p] = IF p = o THEN "reclaimed" ELSE obj[p]
      /\ \A s \in Slots : held'[s] = held[s] \ {o}
  BY <1>0 DEF ReclaimNow, TypeOK
<1>2. \A b \in Batches : \A i \in 1 .. Len(entries[b]) : entries[b][i] \in Objects \ {o}
  <2>1. \A b \in Batches : \A i \in 1 .. Len(entries[b]) : entries[b][i] \in Objects
    BY <1>0 DEF TypeOK
  <2> QED
    BY <1>0, <1>1, <2>1, NotInBatch
<1>3. \A c \in Cells : cell[c] \in Objects \cup {NULL} /\ cell[c] # o
  BY <1>0, <1>1, NullAssumption DEF Located, TypeOK
<1>4. TypeOK'
  BY <1>0 DEF ReclaimNow, TypeOK
<1>5. Control' /\ Activity'
  BY <1>0, <1>1 DEF SInv, Control, Activity, Linking
<1>6. Structure'
  <2>1. AllIdle
    BY <1>1 DEF AllIdle, Idle
  <2> QED
    BY <1>0, <1>4, <2>1, IdleStep, QuietStep
<1>7. /\ \A b : Busy(b)' <=> Busy(b)
      /\ \A s : Linked(s)' = Linked(s) /\ (Linking(s)' <=> Linking(s))
      /\ \A s : Reach(s)' = Reach(s) /\ Owned(s)' = Owned(s)
      /\ \A b : Refs(b)' = Refs(b)
  BY <1>1 DEF Busy, Linked, Linking, Reach, Pending, Owned, Private, Refs, BatchesOf, ListsOf, Elems
<1>8. Accounted'
  BY <1>1, <1>7 DEF KInv, GInv, Accounted
<1>9. Located'
  BY <1>0, <1>1, <1>2, <1>3 DEF Located
<1>10. \A b \in Batches : \A n : (Waiting(b, n) => Waiting(b, n)') /\ (Spent(b, n) => Spent(b, n)')
  BY <1>1, <1>2 DEF Waiting, Spent
<1>11. /\ \A s \in Slots : pc[s] = "free" => cur[s] \in Batches
       /\ \A s \in Slots : \A k \in 1 .. Len(stack[s]) : stack[s][k].batch \in Batches
  BY <1>0, FrameOf DEF SInv, Control
<1>12. Cursors'
  <2>1. Cursors
    BY DEF KInv, GInv
  <2>2. \A s \in Slots : idx[s] >= 1 /\ (pc[s] = "free" => Waiting(cur[s], idx[s])')
    BY <1>1, <1>10, <1>11, <2>1 DEF Cursors
  <2>3. \A s \in Slots : \A k \in 1 .. Len(stack[s]) :
          stack[s][k].idx >= 1 /\ Waiting(stack[s][k].batch, stack[s][k].idx)'
    BY <1>1, <1>10, <1>11, <2>1 DEF Cursors
  <2>4. \A b \in Batches : ~Busy(b)' => Waiting(b, 1)'
    BY <1>7, <1>10, <2>1 DEF Cursors
  <2> QED
    BY <1>1, <2>2, <2>3, <2>4 DEF Cursors
<1>13. \A s, t : Caught(t, s)' <=> Caught(t, s)
  BY <1>1, <1>7 DEF Caught
<1>14. SelfCaught'
  BY <1>1, <1>13 DEF KInv, GInv, SelfCaught
<1>15. Grace'
  <2> SUFFICES ASSUME NEW s \in Slots, NEW p \in held'[s]
               PROVE  /\ obj'[p] # "reclaimed"
                      /\ \A b \in Batches : p \in Elems(entries'[b]) =>
                           /\ \A t \in Slots : Retires(t, b)' => Caught(t, s)'
                           /\ b \in Linked(s)' \/ \E t \in Slots : batch'[t] = b \/ (Linking(t)' /\ cur'[t] = b)
    BY DEF Grace
  <2>2. \A t, b : Retires(t, b)' <=> Retires(t, b)
    BY <1>1 DEF Retires
  <2>1. p \in held[s] /\ p # o /\ p \in Objects
    BY <1>0, <1>1 DEF TypeOK
  <2> QED
    BY <1>1, <1>7, <1>13, <2>1, <2>2 DEF KInv, GInv, Grace
<1>16. Kept'
  <2>1. \A p \in Objects : obj'[p] = "retired" => \E b \in alive' : p \in Elems(entries'[b])
    BY <1>1 DEF KInv, Kept
  <2>2. \A s \in Slots : pc[s] = "free" => Spent(cur[s], idx[s])'
    BY <1>1, <1>10, <1>11 DEF KInv, Kept
  <2>3. \A s \in Slots : \A k \in 1 .. Len(stack[s]) : Spent(stack[s][k].batch, stack[s][k].idx)'
    BY <1>1, <1>10, <1>11 DEF KInv, Kept
  <2> QED
    BY <1>1, <2>1, <2>2, <2>3 DEF Kept
<1> QED
  BY <1>4, <1>5, <1>6, <1>8, <1>9, <1>12, <1>14, <1>15, <1>16 DEF KInv, GInv, SInv

-----------------------------------------------------------------------------
(* The theorems. *)

\* In a new collector nothing is held, retired or being freed.
LEMMA InitGrace == Init => GInv
<1> SUFFICES ASSUME Init PROVE GInv
  OBVIOUS
<1>1. SInv
  BY InitStructure
<1>2. Accounted /\ Grace /\ SelfCaught
  BY DEF Init, Accounted, Grace, SelfCaught
<1>3. \A b \in Batches : entries[b] = <<>> /\ Len(entries[b]) = 0
  BY DEF Init
<1>4. Located
  BY <1>3 DEF Init, Located
<1>5. Cursors
  <2>1. \A s \in Slots : idx[s] = 1 /\ pc[s] # "free" /\ stack[s] = <<>>
    BY DEF Init
  <2>2. \A b \in Batches : Waiting(b, 1)
    BY <1>3 DEF Waiting
  <2> QED
    BY <2>1, <2>2 DEF Cursors
<1> QED
  BY <1>1, <1>2, <1>4, <1>5 DEF GInv

\* The same state has the same invariant.
LEMMA StutterGrace == GInv /\ UNCHANGED vars => GInv'
<1> SUFFICES ASSUME GInv, UNCHANGED vars PROVE GInv'
  OBVIOUS
<1> USE DEF vars, resvVars, batchVars, retireVars, callVars, clientVars
<1>1. SInv'
  BY NextStructure DEF GInv
<1>2. /\ \A b : Waiting(b, 1)' <=> Waiting(b, 1)
      /\ \A b : Busy(b)' <=> Busy(b)
      /\ \A s : Linked(s)' = Linked(s) /\ (Linking(s)' <=> Linking(s))
      /\ \A s : Reach(s)' = Reach(s) /\ Owned(s)' = Owned(s)
      /\ \A b : Refs(b)' = Refs(b)
  BY DEF Waiting, Busy, Linked, Linking, Reach, Pending, Owned, Private, Refs, BatchesOf, ListsOf, Elems
<1>3. Accounted'
  BY <1>2 DEF GInv, Accounted
<1>4. Located'
  BY DEF GInv, Located
<1>5. Cursors'
  BY <1>2 DEF GInv, Cursors, Waiting
<1>6. \A s, t : Caught(t, s)' <=> Caught(t, s)
  BY <1>2 DEF Caught
<1>7. SelfCaught'
  BY <1>6 DEF GInv, SelfCaught
<1>8. Grace'
  BY <1>2, <1>6 DEF GInv, Grace, Retires, Elems
<1> QED
  BY <1>1, <1>3, <1>4, <1>5, <1>7, <1>8 DEF GInv

\* Every step of a slot preserves the invariant of this module.
LEMMA NextGInv == GInv /\ [Next]_vars => GInv'
<1> SUFFICES ASSUME GInv, [Next]_vars PROVE GInv'
  OBVIOUS
<1>1. CASE UNCHANGED vars
  BY <1>1, StutterGrace
<1>2. ASSUME NEW s \in Slots, Step(s) PROVE GInv'
  <2>1. SInv'
    BY NextStructure DEF GInv
  <2>2. SInv /\ Accounted /\ Located /\ Cursors /\ Grace /\ SelfCaught /\ Activity'
    BY <2>1 DEF GInv, SInv
  <2>3. Accounted'
    BY <1>2, <2>2, NextAccounted
  <2>4. Located' /\ Cursors'
    BY <1>2, <2>2, NextLocated, NextCursors
  <2>5. Grace'
    BY <1>2, <2>1, <2>2, <2>4, NextGrace
  <2>6. SelfCaught'
    BY <1>2, <2>2, NextSelfCaught
  <2> QED
    BY <2>1, <2>3, <2>4, <2>5, <2>6 DEF GInv
<1> QED
  BY <1>1, <1>2 DEF Next, Step

\* The invariant holds in every reachable state.
THEOREM GraceInvariant == Spec => []GInv
  BY InitGrace, NextGInv, PTL DEF Spec

\* In a new collector nothing is retired, and the same state keeps the same.
LEMMA InitKept == Init => KInv
<1> SUFFICES ASSUME Init PROVE Kept
  BY InitGrace DEF KInv
<1>1. \A o \in Objects : obj[o] = "fresh"
  BY DEF Init
<1>2. \A s \in Slots : pc[s] = "user" /\ stack[s] = <<>> /\ Len(stack[s]) = 0
  BY DEF Init
<1> QED
  BY <1>1, <1>2 DEF Kept

\* Every step preserves the invariant with which nothing is leaked.
LEMMA NextKInv == KInv /\ [Next]_vars => KInv'
<1> SUFFICES ASSUME KInv, [Next]_vars PROVE KInv'
  OBVIOUS
<1>1. GInv /\ GInv' /\ SInv'
  BY NextGInv DEF KInv, GInv
<1>2. CASE UNCHANGED vars
  <2>1. Kept'
    BY <1>2 DEF KInv, Kept, Spent, Elems, vars, resvVars, batchVars, retireVars, callVars, clientVars
  <2> QED
    BY <1>1, <2>1 DEF KInv
<1>3. ASSUME NEW s \in Slots, Step(s) PROVE KInv'
  <2>1. SInv /\ Located /\ Cursors /\ Kept
    BY DEF KInv, GInv
  <2> QED
    BY <1>1, <1>3, <2>1, NextKept DEF KInv
<1> QED
  BY <1>2, <1>3 DEF Next, Step

\* No retired object is lost, in every reachable state.
THEOREM KeptInvariant == Spec => []KInv
  BY InitKept, NextKInv, PTL DEF Spec

\* What a guard is for: an object loaded through a guard, or retired under it,
\* is not reclaimed while the guard lives, for any number of threads, any
\* batch size, either barrier, and reclaimers that use the collector.
THEOREM GuardProtects == Spec => []NoUseAfterReclaim
<1>1. GInv => NoUseAfterReclaim
  BY DEF GInv, Grace, NoUseAfterReclaim
<1> QED
  BY <1>1, GraceInvariant, PTL

\* A free_batch on b is of one slot, and of one call of that slot.
LEMMA OneCall ==
  ASSUME SInv, NEW b \in Batches, NEW f \in Freeing(b), NEW g \in Freeing(b)
  PROVE  f = g
<1> DEFINE Runs(s) == pc[s] = "free" /\ cur[s] = b
           Frame(s, i) == i \in 1 .. Len(stack[s]) /\ stack[s][i].batch = b
<1>1. PICK s \in Slots : \/ Runs(s) /\ f = <<s, idx[s]>>
                         \/ \E i : Frame(s, i) /\ f = <<s, stack[s][i].idx>>
  BY DEF Freeing
<1>2. PICK t \in Slots : \/ Runs(t) /\ g = <<t, idx[t]>>
                         \/ \E i : Frame(t, i) /\ g = <<t, stack[t][i].idx>>
  BY DEF Freeing
<1>3. b \in Owned(s) /\ b \in Owned(t)
  BY <1>1, <1>2 DEF Owned, Private, BatchesOf
<1>4. s = t
  BY <1>3 DEF SInv, Structure, Ownership
<1>5. ~(Runs(s) /\ \E i : Frame(s, i))
  BY DEF SInv, Structure, Distinct, Tidy, BatchesOf
<1>6. \A i, j : Frame(s, i) /\ Frame(s, j) => i = j
  BY DEF SInv, Structure, Distinct, Tidy, DistinctFrames
<1> QED
  BY <1>1, <1>2, <1>4, <1>5, <1>6

\* A batch that is being freed is out of everyone else's reach.
LEMMA FreeAlone == GInv => FreeOnce
<1> SUFFICES ASSUME GInv, NEW b \in Batches, NEW f \in Freeing(b)
             PROVE  /\ Cardinality(Freeing(b)) = 1
                    /\ b \in alive
                    /\ Refs(b) \cup Owners(b) \cup Linkers(b) = {}
                    /\ \A g \in Freeing(b) : \A i \in 1 .. Len(entries[b]) :
                         i >= g[2] => obj[entries[b][i]] = "retired"
  BY DEF FreeOnce
<1>0. SInv
  BY DEF GInv
<1>1. Freeing(b) = {f}
  BY <1>0, OneCall
<1>2. Cardinality(Freeing(b)) = 1
  BY <1>1, FS_Singleton
<1>3. PICK s \in Slots : \/ pc[s] = "free" /\ cur[s] = b /\ f = <<s, idx[s]>>
                         \/ \E i \in 1 .. Len(stack[s]) : stack[s][i].batch = b /\ f = <<s, stack[s][i].idx>>
  BY DEF Freeing
<1>4. (pc[s] = "free" /\ cur[s] = b) \/ b \in BatchesOf(stack[s])
  BY <1>3 DEF BatchesOf
<1>5. b \in Private(s) /\ b \in Owned(s)
  BY <1>4 DEF Private, Owned
<1>6. b \in alive /\ \A t \in Slots \ {s} : b \notin Owned(t)
  BY <1>0, <1>5 DEF SInv, Structure, Ownership
<1>7. Refs(b) = {}
  BY <1>0, <1>5 DEF Refs, SInv, Structure, Reachable
<1>8. batch[s] # b /\ ~(Linking(s) /\ cur[s] = b)
  BY <1>0, <1>4 DEF SInv, Structure, Distinct, Tidy, Linking
<1>9. \A t \in Slots \ {s} : batch[t] # b /\ ~(Linking(t) /\ cur[t] = b)
  BY <1>6, NullAssumption DEF Owned, Private
<1>10. Owners(b) = {} /\ Linkers(b) = {}
  BY <1>8, <1>9 DEF Owners, Linkers
<1>11. Waiting(b, f[2])
  BY <1>3 DEF GInv, Cursors
<1> QED
  BY <1>1, <1>2, <1>6, <1>7, <1>10, <1>11 DEF Waiting

\* Each batch is freed once, by one slot, when no one else can reach it, and
\* each of its objects is reclaimed once.
THEOREM FreedOnce == Spec => []FreeOnce
  BY FreeAlone, GraceInvariant, PTL

\* In a quiet collector nothing is in a list, and what is allocated is local.
LEMMA QuietKeepsAll == KInv => NoLeakWhenQuiescent
<1> SUFFICES ASSUME KInv, \A s \in Slots : pc[s] = "user" /\ stack[s] = <<>> /\ guards[s] = 0
             PROVE  /\ \A b \in alive : Owners(b) # {}
                    /\ \A o \in Objects : obj[o] = "retired" => \E b \in alive : o \in Elems(entries[b])
  BY DEF NoLeakWhenQuiescent
<1>1. \A s \in Slots : head[s] = INACTIVE /\ list[s] = <<>>
  BY DEF KInv, GInv, SInv, Activity, Control
<1>2. \A s \in Slots : Reach(s) = {} /\ Owned(s) = {batch[s]} \ {NULL}
  BY <1>1, ElemsEmpty, FramesEmpty DEF Reach, Linked, Pending, Owned, Private, Linking
<1>3. ASSUME NEW b \in alive PROVE Owners(b) # {}
  <2>1. PICK s \in Slots : b \in Owned(s)
    BY <1>2 DEF KInv, GInv, Accounted, Refs
  <2> QED
    BY <1>2, <2>1 DEF Owners
<1> QED
  BY <1>3 DEF KInv, Kept

\* With no guard alive and no slot in the collector, every batch that has been
\* published has been freed, and every object not yet reclaimed is in a batch.
THEOREM NothingLeaked == Spec => []NoLeakWhenQuiescent
  BY QuietKeepsAll, KeptInvariant, PTL

\* try_retire under a guard of its own slot never frees: the batch is in the
\* slot's own list, so its count is not zero when try_retire adds to it.
THEOREM NoFreeUnderGuard == Spec => NoReclaimUnderGuard
<1>1. ASSUME GInv, [Next]_vars
      PROVE  [\A s \in Slots : pc[s] = "link" /\ pc'[s] = "free" => guards[s] = 0]_vars
  <2> SUFFICES ASSUME NEW u \in Slots, Step(u), NEW s \in Slots, pc[s] = "link", pc'[s] = "free"
               PROVE  guards[s] = 0
    BY <1>1 DEF Next, Step
  <2>0. SInv /\ SelfCaught
    BY <1>1 DEF GInv
  <2>1. u = s
    BY <2>0, Others DEF SInv, Apart
  <2>2. Count(s)
    <3>1. ~Reclaim(s) /\ ~ReclaimCall(s) /\ ~ReclaimReturn(s) /\ ~Dealloc(s)
      BY DEF Reclaim, ReclaimCall, ReclaimReturn, Dealloc
    <3> QED
      BY <2>0, <2>1, <3>1, FreeStep
  <2>3. Linking(s) /\ marked[s] = {} /\ WrapAdd(active[cur[s]], cnt[s]) = 0
    BY <2>0, <2>2 DEF Count, Linking, SInv, TypeOK
  <2>4. Refs(cur[s]) = {}
    <3>1. Cardinality(Refs(cur[s])) = 0
      BY <2>0, <2>3 DEF SInv, Structure, RefCount
    <3> QED
      BY <3>1, SlotSet DEF Refs
  <2>5. guards[s] > 0 => cur[s] \in Linked(s)
    BY <2>0, <2>3 DEF SelfCaught, Caught
  <2>6. cur[s] \notin Linked(s)
    BY <2>4 DEF Refs, Reach
  <2> QED
    BY <2>0, <2>5, <2>6 DEF SInv, TypeOK
<1> QED
  BY <1>1, InitGrace, NextGInv, PTL DEF Spec, NoReclaimUnderGuard
=============================================================================
