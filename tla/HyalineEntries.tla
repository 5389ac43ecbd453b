--------------------------- MODULE HyalineEntries ---------------------------
(***************************************************************************)
(* The entries of a batch suffice for the lists it is linked to, for every  *)
(* value of the constants of Hyaline; with this the whole of IndInv holds.  *)
(* Then, that Hyaline implements Reclamation: every step of a slot is, to   *)
(* the users of the collector, a step of the abstract specification or no   *)
(* step at all.  This rests on the invariant of HyalineGrace, which says    *)
(* what free_batch finds when it runs a reclaimer.                          *)
(***************************************************************************)
EXTENDS HyalineGrace

\* The inductive invariant of this module.
EInv == GInv /\ EntryPerLink /\ Fits

\* A slot comes to reach a batch only when a compare_exchange links it.
LEMMA ReachStep ==
  ASSUME SInv, NEW s \in Slots, Step(s), NEW r \in Slots, ~(LinkCas(s) /\ r = tgt[s])
  PROVE  Reach(r)' \subseteq Reach(r)
<1>1. CASE Quiet
  BY <1>1 DEF Quiet, SameSets
<1>2. CASE AllIdle
  BY <1>1, <1>2, IdleStep
<1>3. CASE \/ Drain(s) \/ HeavyReturn(s) \/ LinkSkip(s) \/ LinkRetry(s) \/ Reclaim(s)
           \/ \E t \in Slots : Interrupt(s, t)
           \/ \E t \in Slots : ScanSkip(s, t) \/ ScanMark(s, t) \/ ScanGiveUp(s, t) \/ LinkLoad(s, t)
           \/ Enter(s) \/ (Leave(s) /\ guards[s] # 1) \/ Flush(s)
           \/ \E c \in Cells : Protect(s, c) \/ \E n \in Objects \cup {NULL} : Swap(s, c, n)
           \/ \E o \in Objects : Add(s, o) /\ batch[s] # NULL
  BY <1>2, <1>3, IdleActions
<1>4. CASE (Leave(s) /\ guards[s] = 1) \/ Refresh(s)
  <2>1. /\ pc[s] = "user" /\ TraverseFrom(s, View(s)) /\ UNCHANGED <<batchVars, retireVars>>
        /\ head' = [head EXCEPT ![s] = INACTIVE] \/ head' = [head EXCEPT ![s] = <<>>]
    BY <1>4 DEF Leave, LeaveReservation, Refresh
  <2> QED
    BY <1>1, <2>1, TakeList
<1>5. CASE Traverse(s) \/ ReclaimCall(s) \/ ReclaimReturn(s)
  BY <1>1, <1>5, TraverseQuiet, CallQuiet, ReturnQuiet
<1>6. ASSUME UNCHANGED <<head, list, stack>>, pc[s] = "dec" \/ pc'[s] # "dec", cur'[s] = cur[s] \/ pc'[s] # "dec"
      PROVE  Reach(r)' \subseteq Reach(r)
  <2>1. CASE r # s
    BY <1>6, <2>1, OthersKeep DEF SameSets
  <2>2. CASE r = s
    BY <1>6, <2>2 DEF Reach, Linked, Pending, ListsOf, Elems
  <2> QED
    BY <2>1, <2>2
<1>7. CASE Reserve(s) \/ \E o \in Objects : Add(s, o) /\ batch[s] = NULL
  <2>1. UNCHANGED <<head, list, stack>> /\ pc'[s] # "dec"
    BY <1>7, AddStep DEF Reserve, Add, SInv, TypeOK, resvVars, callVars
  <2> QED
    BY <1>6, <2>1
<1>8. CASE Publish(s) \/ Count(s)
  <2>1. UNCHANGED <<head, list, stack>> /\ pc'[s] # "dec"
    BY <1>8 DEF Publish, Count, SInv, TypeOK, resvVars
  <2> QED
    BY <1>6, <2>1
<1>9. CASE Dec(s) \/ Dealloc(s)
  <2>1. UNCHANGED <<head, list, stack>> /\ pc'[s] # "dec"
    BY <1>9 DEF Dec, Dealloc, Resume, SInv, TypeOK, resvVars
  <2> QED
    BY <1>6, <2>1
<1>10. CASE LinkCas(s)
  <2>1. head'[r] = head[r] /\ UNCHANGED <<list, stack, cur>> /\ pc[s] = "cas" /\ pc'[s] = "link"
    BY <1>10 DEF LinkCas, LinkNext, SInv, TypeOK
  <2>2. CASE r # s
    BY <2>1, <2>2, OthersKeep DEF SameSets
  <2>3. CASE r = s
    BY <2>1, <2>3 DEF Reach, Linked, Pending, ListsOf, Elems
  <2> QED
    BY <2>2, <2>3
<1>11. CASE User(s)
  BY <1>3, <1>4, <1>5, <1>7, <1>11 DEF User
<1>12. CASE Internal(s)
  BY <1>3, <1>5, <1>8, <1>9, <1>10, <1>12 DEF Internal
<1> QED
  BY <1>3, <1>11, <1>12 DEF Step

\* So a batch gains a reference only by being linked to a marked slot.
LEMMA RefsStep ==
  ASSUME SInv, NEW s \in Slots, Step(s), NEW b \in Batches
  PROVE  /\ ~(LinkCas(s) /\ b = cur[s]) => Refs(b)' \subseteq Refs(b)
         /\ LinkCas(s) => Refs(b)' \subseteq Refs(b) \cup {tgt[s]}
<1>1. ASSUME NEW r \in Slots, b \in Reach(r)', b \notin Reach(r)
      PROVE  LinkCas(s) /\ r = tgt[s] /\ b = cur[s]
  <2>1. LinkCas(s) /\ r = tgt[s]
    BY <1>1, ReachStep
  <2>2. /\ head'[r] = <<cur[s]>> \o head[r] /\ head[r] \in Lists /\ head[r] # INACTIVE /\ cur[s] \in Batches
        /\ UNCHANGED <<list, stack, cur>> /\ pc[s] = "cas" /\ pc'[s] = "link"
    BY <2>1 DEF LinkCas, LinkNext, Top, SInv, TypeOK, Control
  <2>3. Pending(r)' = Pending(r)
    <3>1. CASE r # s
      BY <2>2, <3>1, Others DEF Pending, Apart, SInv
    <3>2. CASE r = s
      BY <2>2, <3>2 DEF Pending
    <3> QED
      BY <3>1, <3>2
  <2>4. Linked(r)' = {cur[s]} \cup Linked(r)
    <3>1. head'[r] # INACTIVE /\ Elems(head'[r]) = {cur[s]} \cup Elems(head[r])
      BY <2>2, ElemsCons, ListIsActive
    <3> QED
      BY <2>2, <3>1 DEF Linked
  <2> QED
    BY <1>1, <2>1, <2>3, <2>4 DEF Reach
<1> QED
  BY <1>1 DEF Refs

\* The entries of a batch that stays allocated are not removed.
LEMMA EntriesStep ==
  ASSUME SInv, NEW s \in Slots, Step(s), NEW b \in Batches, ~(Dealloc(s) /\ cur[s] = b)
  PROVE  Len(entries'[b]) >= Len(entries[b]) /\ Len(entries[b]) \in Nat
<1>0. Len(entries[b]) \in Nat
  BY DEF SInv, TypeOK
<1>1. ASSUME NEW o \in Objects, Add(s, o) PROVE Len(entries'[b]) >= Len(entries[b])
  BY <1>0, <1>1, AddEntries DEF SInv
<1>2. CASE Dealloc(s)
  <2>1. entries'[b] = entries[b]
    BY <1>2 DEF Dealloc, SInv, TypeOK
  <2> QED
    BY <1>0, <2>1
<1>3. CASE UNCHANGED entries
  BY <1>0, <1>3
<1>4. CASE Reclaim(s) \/ ReclaimCall(s) \/ \E c \in Cells, n \in Objects \cup {NULL} : Swap(s, c, n)
  BY <1>3, <1>4 DEF Reclaim, ReclaimCall, Swap, batchVars
<1> QED
  BY <1>0, <1>1, <1>2, <1>3, <1>4, SameObjects

\* A set of slots that does not grow still fits.
LEMMA SmallerFits ==
  ASSUME NEW S \in SUBSET Slots, NEW T \in SUBSET S, NEW m \in Nat, NEW n \in Nat,
         Cardinality(S) <= m, m <= n
  PROVE  Cardinality(T) <= n
<1>1. Cardinality(T) <= Cardinality(S) /\ Cardinality(S) \in Nat
  BY SlotSet
<1>2. Cardinality(T) \in Nat
  BY SlotSet
<1> QED
  BY <1>1, <1>2

\* How the scan and the link loop of slot t change what it has marked.
LEMMA MarkedStep ==
  ASSUME SInv, NEW s \in Slots, Step(s), NEW t \in Slots
  PROVE  /\ Linking(t)' /\ ~Linking(t) => t = s /\ Publish(s)
         /\ Linking(t) => marked'[t] \subseteq marked[t]
         /\ pc'[t] = "scan" => \/ pc[t] = "scan" /\ marked'[t] = marked[t]
                               \/ t = s /\ \E u \in Slots : ScanMark(s, u)
                               \/ t = s /\ HeavyReturn(s) /\ marked'[t] = {}
<1>1. CASE t # s
  BY <1>1, Others DEF SInv, Apart, Linking
<1>2. CASE t = s
  <2> USE DEF Linking, callVars, retireVars
  <2>1. CASE Drain(s)
    BY <1>2, <2>1 DEF Drain
  <2>2. CASE User(s)
    <3>1. pc[s] = "user"
      BY <2>2 DEF User, Enter, Leave, Refresh, Flush, Reserve, Protect, Swap, Add, ReclaimReturn
    <3>2. pc'[s] \notin {"scan", "link", "cas"}
      <4>1. CASE Enter(s) \/ Leave(s) \/ Refresh(s) \/ Flush(s)
        BY <3>1, <4>1 DEF Enter, Leave, LeaveReservation, Refresh, Flush, TryRetire, TraverseFrom, Resume, SInv, TypeOK
      <4>2. CASE Reserve(s) \/ ReclaimReturn(s)
        BY <3>1, <4>2 DEF Reserve, ReclaimReturn, SInv, TypeOK
      <4>3. CASE \E c \in Cells : Protect(s, c) \/ \E n \in Objects \cup {NULL} : Swap(s, c, n)
        BY <3>1, <4>3 DEF Protect, Swap
      <4>4. CASE \E o \in Objects : Add(s, o)
        BY <4>4, AddStep DEF SInv
      <4> QED
        BY <2>2, <4>1, <4>2, <4>3, <4>4 DEF User
    <3> QED
      BY <1>2, <3>1, <3>2
  <2>10. CASE \E u \in Slots : Interrupt(s, u)
    BY <1>2, <2>10 DEF Interrupt
  <2>3. CASE HeavyReturn(s)
    <3>1. pc[s] = "heavy" /\ marked' = marked /\ pc'[s] \in {"user", "scan"}
      BY <2>3 DEF HeavyReturn, SInv, TypeOK
    <3>2. marked[s] = {}
      BY <3>1 DEF SInv, Control
    <3> QED
      BY <1>2, <2>3, <3>1, <3>2
  <2>4. CASE Publish(s)
    BY <1>2, <2>4 DEF Publish, SInv, TypeOK
  <2>5. ASSUME NEW u \in Slots, ScanSkip(s, u) \/ ScanGiveUp(s, u) \/ LinkLoad(s, u)
        PROVE  /\ Linking(s)' => Linking(s) /\ marked'[s] = marked[s]
               /\ Linking(s) => marked'[s] = marked[s]
               /\ pc'[s] = "scan" => pc[s] = "scan" /\ marked'[s] = marked[s]
    BY <2>5 DEF ScanSkip, ScanGiveUp, LinkLoad, SInv, TypeOK
  <2>6. ASSUME NEW u \in Slots, ScanMark(s, u) PROVE ~Linking(s) /\ ~Linking(s)'
    BY <2>6 DEF ScanMark
  <2>7. CASE LinkSkip(s) \/ LinkCas(s) \/ LinkRetry(s)
    BY <1>2, <2>7 DEF LinkSkip, LinkCas, LinkRetry, LinkNext, SInv, TypeOK
  <2>8. CASE Count(s) \/ Traverse(s) \/ Dec(s)
    BY <1>2, <2>8 DEF Count, Traverse, Dec, Resume, SInv, TypeOK
  <2>9. CASE Reclaim(s) \/ ReclaimCall(s) \/ Dealloc(s)
    BY <1>2, <2>9 DEF Reclaim, ReclaimCall, Dealloc, Resume, SInv, TypeOK
  <2> QED
    BY <1>2, <2>1, <2>2, <2>3, <2>4, <2>5, <2>6, <2>7, <2>8, <2>9, <2>10 DEF Step, Internal
<1> QED
  BY <1>1, <1>2

\* A batch that is private to a slot is in no list.
LEMMA PrivateNoRefs ==
  ASSUME SInv, NEW s \in Slots, NEW b \in Private(s)
  PROVE  Refs(b) = {}
  BY DEF SInv, Structure, Reachable, Refs

\* The batch a slot is allocating, and the one it is scanning for.
LEMMA NewIsLocal ==
  ASSUME SInv, NEW s \in Slots, Step(s), NEW b \in alive', b \notin alive
  PROVE  b \in Batches /\ batch'[s] = b
<1>1. CASE Reserve(s) \/ \E o \in Objects : Add(s, o)
  BY <1>1 DEF Reserve, Add, GetOrInit, SInv, TypeOK
<1>2. CASE Internal(s) \/ Drain(s)
  BY <1>2 DEF Drain, Internal, HeavyReturn, Interrupt, Publish, ScanSkip, ScanMark, ScanGiveUp, LinkLoad, LinkSkip,
     LinkCas, LinkRetry, Count, Traverse, Dec, Reclaim, ReclaimCall, Dealloc, batchVars
<1>3. CASE User(s)
  BY <1>1, <1>3 DEF User, Enter, Leave, Refresh, Flush, Protect, Swap, ReclaimReturn, batchVars
<1> QED
  BY <1>2, <1>3 DEF Step

\* Every step leaves the references to an allocated batch within its entries.
LEMMA NextRefsFit ==
  ASSUME SInv, SInv', EntryPerLink, NEW s \in Slots, Step(s), NEW b \in alive'
  PROVE  Cardinality(Refs(b))' <= Len(entries'[b])
<1>1. b \in Batches /\ Len(entries'[b]) \in Nat
  BY DEF SInv, TypeOK
<1>2. CASE b \notin alive
  <2>1. b \in Private(s)'
    BY <1>2, NewIsLocal, NullAssumption DEF Private
  <2>2. Refs(b)' = {}
    BY <2>1 DEF SInv, Structure, Reachable, Refs
  <2> QED
    BY <1>1, <2>2, FS_EmptySet
<1>3. CASE b \in alive
  <2>1. ~(Dealloc(s) /\ cur[s] = b)
    BY DEF Dealloc
  <2>2. Len(entries'[b]) >= Len(entries[b]) /\ Len(entries[b]) \in Nat
    BY <1>1, <2>1, EntriesStep
  <2>3. CASE ~(LinkCas(s) /\ b = cur[s])
    <3>1. Refs(b)' \in SUBSET Refs(b) /\ Refs(b) \in SUBSET Slots
      BY <1>1, <2>3, RefsStep DEF Refs
    <3>2. Cardinality(Refs(b)) <= Len(entries[b])
      BY <1>3 DEF EntryPerLink
    <3> QED
      BY <1>1, <2>2, <3>1, <3>2, SmallerFits
  <2>4. CASE LinkCas(s) /\ b = cur[s]
    <3>1. Linking(s) /\ tgt[s] \in marked[s] /\ marked[s] \in SUBSET Slots
      BY <2>4 DEF LinkCas, Linking, SInv, TypeOK, Control
    <3>2. /\ Refs(b)' \in SUBSET (Refs(b) \cup marked[s])
          /\ Refs(b) \cup marked[s] \in SUBSET Slots
      BY <1>1, <2>4, <3>1, RefsStep DEF Refs
    <3>3. Cardinality(Refs(b) \cup marked[s]) <= Len(entries[b])
      BY <2>4, <3>1 DEF EntryPerLink
    <3> QED
      BY <1>1, <2>2, <3>2, <3>3, SmallerFits
  <2> QED
    BY <2>3, <2>4
<1> QED
  BY <1>2, <1>3

\* Every step leaves what is linked and marked within the entries.
LEMMA NextLinksFit ==
  ASSUME SInv, SInv', EntryPerLink, Fits, NEW s \in Slots, Step(s), NEW t \in Slots, Linking(t)'
  PROVE  (Cardinality(Refs(cur[t]) \cup marked[t]) <= Len(entries[cur[t]]))'
<1>1. PICK b \in Batches : b = cur'[t]
  BY DEF SInv, Control, Linking
<1>2. b \in alive' /\ Len(entries'[b]) \in Nat
  <2>1. b \in Owned(t)'
    BY <1>1 DEF Owned
  <2>2. Owned(t)' \subseteq alive'
    BY DEF SInv, Structure, Ownership
  <2>3. entries'[b] \in Seq(Objects)
    BY DEF SInv, TypeOK
  <2> QED
    BY <2>1, <2>2, <2>3
<1>3. Len(entries'[b]) >= Len(entries[b]) /\ Len(entries[b]) \in Nat
  <2>1. ~(Dealloc(s) /\ cur[s] = b)
    BY <1>2 DEF Dealloc
  <2> QED
    BY <2>1, EntriesStep
<1>4. CASE Linking(t)
  <2>1. cur[t] = b /\ marked'[t] \subseteq marked[t] /\ marked[t] \in SUBSET Slots
    BY <1>1, <1>4, SameRetiring, MarkedStep DEF Linking, Retiring, SInv, TypeOK
  <2>2. Refs(b)' \subseteq Refs(b) \cup marked[t]
    <3>1. CASE ~(LinkCas(s) /\ b = cur[s])
      BY <3>1, RefsStep
    <3>2. CASE LinkCas(s) /\ b = cur[s]
      <4>1. Linking(s) /\ tgt[s] \in marked[s]
        BY <3>2 DEF LinkCas, Linking, SInv, Control
      <4>2. t = s
        BY <1>4, <2>1, <3>2, <4>1, LinkedBatch
      <4> QED
        BY <3>2, <4>1, <4>2, RefsStep
    <3> QED
      BY <3>1, <3>2
  <2>3. /\ Refs(b)' \cup marked'[t] \in SUBSET (Refs(b) \cup marked[t])
        /\ Refs(b) \cup marked[t] \in SUBSET Slots
    BY <2>1, <2>2 DEF Refs
  <2>4. Cardinality(Refs(b) \cup marked[t]) <= Len(entries[b])
    BY <1>4, <2>1 DEF EntryPerLink
  <2>5. Cardinality(Refs(b)' \cup marked'[t]) <= Len(entries'[b])
    BY <1>2, <1>3, <2>3, <2>4, SmallerFits
  <2> QED
    BY <1>1, <2>5 DEF Refs
<1>5. CASE ~Linking(t)
  <2>1. t = s /\ Publish(s)
    BY <1>5, MarkedStep
  <2>2. /\ pc[s] = "scan" /\ batch[s] = cur[s] /\ cur[s] = b /\ marked' = marked
        /\ marked[s] \in SUBSET Slots /\ ~LinkCas(s)
    BY <1>1, <2>1 DEF Publish, LinkCas, retireVars, SInv, TypeOK, Control
  <2>3. Refs(b) = {}
    BY <2>2, PrivateNoRefs, NullAssumption DEF Private
  <2>4. Refs(b)' \cup marked'[t] \in SUBSET marked[s]
    BY <2>1, <2>2, <2>3, RefsStep
  <2>5. Cardinality(marked[s]) <= Len(entries[b])
    BY <2>2 DEF Fits
  <2>6. Cardinality(Refs(b)' \cup marked'[t]) <= Len(entries'[b])
    BY <1>2, <1>3, <2>2, <2>4, <2>5, SmallerFits
  <2> QED
    BY <1>1, <2>6 DEF Refs
<1> QED
  BY <1>4, <1>5

\* Every step of the scan leaves what it has marked within the entries.
LEMMA NextFits ==
  ASSUME SInv, SInv', Fits, NEW s \in Slots, Step(s)
  PROVE  Fits'
<1> SUFFICES ASSUME NEW t \in Slots, pc'[t] = "scan"
             PROVE  (Cardinality(marked[t]) <= Len(entries[cur[t]]))'
  BY DEF Fits
<1>1. PICK b \in Batches : b = cur'[t] /\ b = batch'[t]
  BY DEF SInv, Control
<1>2. b \in alive' /\ Len(entries'[b]) \in Nat
  <2>1. b \in Owned(t)'
    BY <1>1, NullAssumption DEF Owned, Private
  <2>2. Owned(t)' \subseteq alive'
    BY DEF SInv, Structure, Ownership
  <2>3. entries'[b] \in Seq(Objects)
    BY DEF SInv, TypeOK
  <2> QED
    BY <2>1, <2>2, <2>3
<1>3. Len(entries'[b]) >= Len(entries[b]) /\ Len(entries[b]) \in Nat
  <2>1. ~(Dealloc(s) /\ cur[s] = b)
    BY <1>2 DEF Dealloc
  <2> QED
    BY <2>1, EntriesStep
<1>4. CASE pc[t] = "scan" /\ marked'[t] = marked[t]
  <2>1. cur[t] = b
    BY <1>1, <1>4, SameRetiring DEF Retiring
  <2>2. Cardinality(marked[t]) <= Len(entries[b]) /\ marked[t] \in SUBSET Slots
    BY <1>4, <2>1 DEF Fits, SInv, TypeOK
  <2>3. Cardinality(marked[t]) <= Len(entries'[b])
    BY <1>2, <1>3, <2>2, SmallerFits
  <2> QED
    BY <1>1, <1>4, <2>3
<1>5. ASSUME t = s, NEW u \in Slots, ScanMark(s, u)
      PROVE  (Cardinality(marked[t]) <= Len(entries[cur[t]]))'
  <2>1. /\ cur[s] = b /\ marked'[s] = marked[s] \cup {u} /\ marked[s] \in SUBSET Slots /\ u \in Slots
        /\ Cardinality(marked[s]) < Len(entries[b]) /\ UNCHANGED entries
    BY <1>1, <1>5 DEF ScanMark, callVars, batchVars, SInv, TypeOK
  <2>2. Cardinality(marked[s] \cup {u}) <= Cardinality(marked[s]) + 1 /\ Cardinality(marked[s]) \in Nat
    <3>1. CASE u \in marked[s]
      <4>1. marked[s] \cup {u} = marked[s]
        BY <3>1
      <4> QED
        BY <2>1, <4>1, SlotSet
    <3>2. CASE u \notin marked[s]
      BY <2>1, <3>2, SlotAdd, SlotSet
    <3> QED
      BY <3>1, <3>2
  <2>3. Cardinality(marked'[s]) \in Nat
    BY <2>1, SlotSet
  <2>4. Cardinality(marked'[s]) <= Len(entries'[b])
    BY <1>3, <2>1, <2>2, <2>3
  <2> QED
    BY <1>1, <1>5, <2>4
<1>6. CASE marked'[t] = {}
  <2>1. Cardinality(marked'[t]) = 0
    BY <1>6, FS_EmptySet
  <2> QED
    BY <1>1, <1>2, <2>1
<1> QED
  BY <1>4, <1>5, <1>6, MarkedStep

\* A new collector has no batch: its entries suffice.
LEMMA InitEntries == Init => EInv
<1> SUFFICES ASSUME Init PROVE EInv
  OBVIOUS
<1>1. GInv
  BY InitGrace
<1>2. EntryPerLink /\ Fits
  BY DEF Init, EntryPerLink, Fits, Linking
<1> QED
  BY <1>1, <1>2 DEF EInv

\* Every step of a slot keeps the entries of each batch sufficient.
LEMMA NextEntries == EInv /\ [Next]_vars => EInv'
<1> SUFFICES ASSUME EInv, [Next]_vars PROVE EInv'
  OBVIOUS
<1>1. GInv' /\ SInv' /\ SInv
  BY NextGInv DEF EInv, GInv
<1>2. CASE UNCHANGED vars
  <2>1. \A b : Refs(b)' = Refs(b)
    BY <1>2 DEF vars, resvVars, callVars, Refs, Reach, Linked, Pending, ListsOf, Elems
  <2>2. EntryPerLink' /\ Fits'
    BY <1>2, <2>1 DEF EInv, EntryPerLink, Fits, Linking, vars, batchVars, retireVars, callVars
  <2> QED
    BY <1>1, <2>2 DEF EInv
<1>3. ASSUME NEW s \in Slots, Step(s) PROVE EInv'
  <2>1. EntryPerLink /\ Fits
    BY DEF EInv
  <2>2. EntryPerLink'
    BY <1>1, <1>3, <2>1, NextRefsFit, NextLinksFit DEF EntryPerLink
  <2>3. Fits'
    BY <1>1, <1>3, <2>1, NextFits
  <2> QED
    BY <1>1, <2>2, <2>3 DEF EInv
<1> QED
  BY <1>2, <1>3 DEF Next, Step

\* The inductive invariant of HyalineInv holds in every reachable state, for
\* any number of slots, objects and batches.
THEOREM IndInvInvariant == Spec => []IndInv
<1>1. EInv => IndInv
  BY DEF EInv, GInv, SInv, Structure, IndInv
<1> QED
  BY <1>1, InitEntries, NextEntries, PTL DEF Spec

\* try_retire never links a batch to more lists than it has entries, so that
\* no Entry is in two lists at once.
THEOREM EntriesSuffice == Spec => []EntryPerLink
<1>1. EInv => EntryPerLink
  BY DEF EInv
<1> QED
  BY <1>1, InitEntries, NextEntries, PTL DEF Spec

-----------------------------------------------------------------------------
(* Hyaline implements Reclamation. *)

\* What the users of the collector see.
userVars == <<guards, cell, obj, held>>

\* The steps of the algorithm itself, and a reclaimer that returns, change
\* nothing a user sees.
LEMMA HiddenStep ==
  ASSUME NEW s \in Slots, Drain(s) \/ Internal(s) \/ Flush(s) \/ Reserve(s) \/ ReclaimReturn(s),
         ~Reclaim(s), ~ReclaimCall(s)
  PROVE  UNCHANGED userVars
<1> USE DEF userVars, resvVars, clientVars
<1>1. CASE Drain(s)
  BY <1>1 DEF Drain
<1>2. CASE Flush(s) \/ Reserve(s) \/ ReclaimReturn(s)
  BY <1>2 DEF Flush, Reserve, ReclaimReturn
<1>3. CASE Internal(s)
  BY <1>3 DEF Internal, HeavyReturn, Interrupt, Publish, ScanSkip, ScanMark, ScanGiveUp, LinkLoad, LinkSkip, LinkCas,
              LinkRetry, Count, Traverse, Dec, Dealloc
<1> QED
  BY <1>1, <1>2, <1>3

\* A reclaimer runs: its object is retired and no slot holds it.
LEMMA ReclaimStep ==
  ASSUME GInv, NEW s \in Slots, Reclaim(s) \/ ReclaimCall(s)
  PROVE  \E o \in Objects : Abstract!Reclaim(o)
<1> DEFINE o == entries[cur[s]][idx[s]]
<1>1. SInv /\ Cursors /\ Grace
  BY DEF GInv
<1>2. /\ pc[s] = "free" /\ cur[s] \in Batches /\ idx[s] \in 1 .. Len(entries[cur[s]])
      /\ obj' = [obj EXCEPT ![o] = "reclaimed"]
  BY <1>1, ReclaimEntry
<1>3. o \in Objects
  BY <1>1, <1>2 DEF SInv, TypeOK
<1>4. obj[o] = "retired"
  BY <1>1, <1>2 DEF Cursors, Waiting
<1>5. \A r \in Slots : o \notin held[r]
  BY <1>1, ReclaimNotHeld
<1>6. UNCHANGED <<guards, cell, held>>
  BY DEF Reclaim, ReclaimCall, resvVars
<1> HIDE DEF o
<1> QED
  BY <1>2, <1>3, <1>4, <1>5, <1>6 DEF Abstract!Reclaim

\* The calls of a user are those of the abstract specification.
LEMMA UserStep ==
  ASSUME TypeOK, NEW s \in Slots, User(s), ~Flush(s), ~Reserve(s), ~ReclaimReturn(s)
  PROVE  Abstract!Use(s)
<1>0. Base(s) \in Nat /\ guards[s] \in Nat
  BY BaseType DEF TypeOK
<1>1. CASE Enter(s)
  BY <1>1 DEF Enter, clientVars, Abstract!Use, Abstract!Enter
<1>2. CASE Leave(s)
  <2>1. guards[s] > 0 /\ guards' = [guards EXCEPT ![s] = @ - 1]
    BY <1>0, <1>2 DEF Leave
  <2>2. held' = [held EXCEPT ![s] = IF guards[s] = 1 THEN {} ELSE @] /\ UNCHANGED <<cell, obj>>
    BY <1>2 DEF Leave, LeaveReservation, clientVars, TypeOK
  <2> QED
    BY <2>1, <2>2 DEF Abstract!Use, Abstract!Leave
<1>3. CASE Refresh(s)
  BY <1>3 DEF Refresh, Abstract!Use, Abstract!Refresh
<1>4. ASSUME NEW c \in Cells, Protect(s, c) PROVE Abstract!Use(s)
  <2>1. Abstract!Protect(s, c)
    BY <1>0, <1>4 DEF Protect, resvVars, Abstract!Protect
  <2> QED
    BY <2>1 DEF Abstract!Use
<1>5. ASSUME NEW c \in Cells, NEW n \in Objects \cup {NULL}, Swap(s, c, n) PROVE Abstract!Use(s)
  <2>1. Abstract!MayHold(s, {cell[c]} \ {NULL})
    <3>1. CASE guards[s] > Base(s)
      <4>1. held' = [held EXCEPT ![s] = @ \cup ({cell[c]} \ {NULL})]
        BY <1>5, <3>1 DEF Swap
      <4>2. guards[s] > 0
        BY <1>0, <3>1
      <4> QED
        BY <4>1, <4>2 DEF Abstract!MayHold
    <3>2. CASE ~(guards[s] > Base(s))
      BY <1>5, <3>2 DEF Swap, Abstract!MayHold, TypeOK
    <3> QED
      BY <3>1, <3>2
  <2>2. Abstract!Swap(s, c, n)
    BY <1>5, <2>1 DEF Swap, resvVars, Abstract!Swap
  <2> QED
    BY <2>2 DEF Abstract!Use
<1>6. ASSUME NEW o \in Objects, Add(s, o) PROVE Abstract!Use(s)
  <2>1. Abstract!MayHold(s, {o})
    <3>1. CASE guards[s] > Base(s)
      <4>1. held' = [held EXCEPT ![s] = @ \cup {o}]
        BY <1>6, <3>1 DEF Add
      <4>2. guards[s] > 0
        BY <1>0, <3>1
      <4> QED
        BY <4>1, <4>2 DEF Abstract!MayHold
    <3>2. CASE ~(guards[s] > Base(s))
      BY <1>6, <3>2 DEF Add, Abstract!MayHold, TypeOK
    <3> QED
      BY <3>1, <3>2
  <2>2. Abstract!Retire(s, o)
    BY <1>6, <2>1 DEF Add, resvVars, Abstract!Retire
  <2> QED
    BY <2>2 DEF Abstract!Use
<1> QED
  BY <1>1, <1>2, <1>3, <1>4, <1>5, <1>6 DEF User

\* The collector starts as the abstract one does.
LEMMA InitRefines == Init => Abstract!Init
  BY DEF Init, Abstract!Init

\* Every step of the collector is one the abstract specification allows.
LEMMA NextRefines == GInv /\ [Next]_vars => [Abstract!Next]_(Abstract!vars)
<1> SUFFICES ASSUME GInv, [Next]_vars PROVE Abstract!Next \/ UNCHANGED userVars
  BY DEF Abstract!vars, userVars
<1>1. CASE UNCHANGED vars
  BY <1>1 DEF vars, resvVars, clientVars, userVars
<1>2. ASSUME NEW s \in Slots, Drain(s) \/ Internal(s) \/ User(s)
      PROVE  Abstract!Next \/ UNCHANGED userVars
  <2>1. CASE Reclaim(s) \/ ReclaimCall(s)
    BY <2>1, ReclaimStep DEF Abstract!Next
  <2>2. CASE Flush(s) \/ Reserve(s) \/ ReclaimReturn(s)
    BY <2>1, <2>2, HiddenStep
  <2>3. CASE User(s) /\ ~Flush(s) /\ ~Reserve(s) /\ ~ReclaimReturn(s)
    BY <1>2, <2>3, UserStep DEF GInv, SInv, Abstract!Next
  <2>4. CASE Drain(s) \/ Internal(s)
    BY <2>1, <2>4, HiddenStep
  <2> QED
    BY <1>2, <2>2, <2>3, <2>4
<1> QED
  BY <1>1, <1>2 DEF Next

\* raw::Collector, with its batches, counts and lists, any number of slots, either
\* barrier and reclaimers that use it, implements what Guard and Collector
\* promise: objects are reclaimed once, after retirement, and not under a guard
\* that protects them.
THEOREM Implementation == Spec => ImplementsReclamation
  BY InitRefines, NextRefines, GraceInvariant, PTL DEF Spec, ImplementsReclamation, Abstract!Spec
=============================================================================
