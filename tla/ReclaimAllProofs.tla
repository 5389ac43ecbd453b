-------------------------- MODULE ReclaimAllProofs --------------------------
(***************************************************************************)
(* reclaim_all, for every value of the constants.  The collector under the  *)
(* sweep is, step by step, the collector of Hyaline with two steps more     *)
(* (TakeBatch and ReclaimNow of HyalineGrace), so that its invariant holds  *)
(* during a sweep as well; the rest is about the position of the sweep.     *)
(***************************************************************************)
EXTENDS ReclaimAll, TLAPS

\* A thread in the loop of reclaim_all runs no operation of the collector, a
\* marked slot has no batch, and what a retirement reclaimed is held no more.
pcBar == [s \in Slots |-> IF pc[s] = "sweep" THEN "user" ELSE pc[s]]
batchBar == [s \in Slots |-> IF batch[s] = DROP THEN NULL ELSE batch[s]]
heldBar == [s \in Slots |-> held[s] \ early]

H == INSTANCE HyalineGrace WITH pc <- pcBar, batch <- batchBar, held <- heldBar

-----------------------------------------------------------------------------
(* The inductive invariant. *)

States == {"user", "heavy", "scan", "link", "cas", "traverse", "dec", "free", "sweep"}

\* The types of what H does not see.
SweepType ==
  /\ pc \in [Slots -> States]
  /\ batch \in [Slots -> Batches \cup {NULL, DROP}]
  /\ held \in [Slots -> SUBSET Objects]
  /\ sweep \in Slots \cup {NULL}
  /\ left \in SUBSET Slots
  /\ at \in Slots \cup {NULL}
  /\ before \in SUBSET Objects
  /\ early \in SUBSET Objects

\* Slot s has the collector to itself, between two reclaimers of its sweep.
Alone(s) ==
  /\ guards[s] = 0
  /\ pc[s] \in {"sweep", "free"}
  /\ list[s] = <<>>
  /\ \A t \in Slots \ {s} : Idle(t)

\* Where the sweep is: in its loop, in free_batch or in a reclaimer, the first
\* of which found no guard and no traversal; and which slot it has marked.
Position ==
  /\ \A s \in Slots : pc[s] = "sweep" => sweep = s /\ stack[s] = <<>>
  /\ \A s \in Slots : sweep = s =>
       /\ stack[s] = <<>> => Alone(s)
       /\ stack[s] # <<>> => stack[s][1].base = 0 /\ stack[s][1].list = <<>>
       /\ pc[s] = "sweep" <=> at = NULL
  /\ sweep = NULL => at = NULL
  /\ \A t \in Slots : batch[t] = DROP <=> t = at

\* Who may hold what was reclaimed at once.
HeldInv ==
  /\ \A s \in Slots : held[s] # {} => guards[s] > 0
  /\ \A o \in early : obj[o] = "reclaimed"
  /\ sweep = NULL => \A s \in Slots : held[s] \cap early = {}

\* What was retired before the sweep is reclaimed, or in a batch still to be
\* visited or being freed: no slot the sweep is done with has it.
BeforeInv ==
  /\ sweep = NULL => \A o \in before : obj[o] = "reclaimed"
  /\ sweep # NULL =>
       /\ \A o \in before : obj[o] \in {"retired", "reclaimed"}
       /\ \A t \in Slots \ left : batch[t] \in Batches => Elems(entries[batch[t]]) \cap before = {}

SweepInv == H!KInv /\ SweepType /\ Position /\ HeldInv /\ BeforeInv

-----------------------------------------------------------------------------
(* The facts of HyalineGrace, for the collector under the sweep. *)

\* The two copies of the library's definitions are the same.
LEMMA SameFinite ==
  /\ \A S : H!IsFiniteSet(S) <=> IsFiniteSet(S)
  /\ \A S : H!Cardinality(S) = Cardinality(S)
<1>1. \A S : H!IsFiniteSet(S) <=> IsFiniteSet(S)
  BY DEF H!IsFiniteSet, IsFiniteSet
<1>2. \A S : H!Cardinality(S) = Cardinality(S)
  BY DEF H!Cardinality, Cardinality, H!IsFiniteSet, IsFiniteSet
<1> QED
  BY <1>1, <1>2

\* The assumptions of Hyaline on its constants, for the instance.
LEMMA SameConstants ==
  /\ H!IsFiniteSet(Slots)
  /\ Width \in Nat /\ Width > H!Cardinality(Slots)
  /\ BatchSize \in Nat /\ MaxGuards \in Nat /\ MaxDepth \in Nat
  /\ FastBarrier \in BOOLEAN
  /\ NULL \notin Batches \cup Slots \cup Objects
  /\ INACTIVE \notin Batches \cup {NULL}
  /\ INACTIVE \notin Seq(Batches)
  BY SameFinite, SlotsAssumption, WidthAssumption, SizeAssumption, BarrierAssumption,
     NullAssumption, InactiveAssumption

\* A new collector satisfies the invariant.
LEMMA GraceInit == H!Init => H!KInv
  BY H!InitKept, SameConstants

\* Every step of Hyaline preserves it.
LEMMA GraceNext == H!KInv /\ [H!Next]_(H!vars) => H!KInv'
  BY H!NextKInv, SameConstants

\* So does the sweep when it takes a batch to free it.
LEMMA GraceTake ==
  ASSUME H!KInv, NEW s \in Slots, NEW t \in Slots, H!TakeBatch(s, t)
  PROVE  H!KInv'
  BY H!TakeBatchKept, SameConstants

\* So does the retirement of an object on a slot that the sweep has marked.
LEMMA GraceNow ==
  ASSUME H!KInv, NEW o \in Objects, H!ReclaimNow(o)
  PROVE  H!KInv'
  BY H!ReclaimNowKept, SameConstants

\* What a step does to the objects.
LEMMA GraceObjects ==
  ASSUME H!KInv, NEW s \in Slots, H!Step(s), NEW o \in Objects
  PROVE  /\ obj[o] = "reclaimed" => obj'[o] = "reclaimed"
         /\ obj[o] = "retired" => obj'[o] \in {"retired", "reclaimed"}
<1>1. H!SInv /\ H!Located /\ H!Cursors
  BY DEF H!KInv, H!GInv
<1> QED
  BY <1>1, H!ObjectsStay, SameConstants

\* What it does to the variables of another slot.
LEMMA GraceOthers ==
  ASSUME H!KInv, NEW s \in Slots, H!Step(s), NEW t \in Slots, t # s
  PROVE  H!Apart(t)
<1>1. H!TypeOK
  BY DEF H!KInv, H!GInv, H!SInv
<1> QED
  BY <1>1, H!Others, SameConstants

\* Each batch is freed once, and a quiet collector has lost nothing.
LEMMA GraceResults == H!KInv => H!FreeOnce /\ H!NoLeakWhenQuiescent
<1>1. H!GInv => H!FreeOnce
  BY H!FreeAlone, SameConstants
<1>2. H!KInv => H!NoLeakWhenQuiescent
  BY H!QuietKeepsAll, SameConstants
<1> QED
  BY <1>1, <1>2 DEF H!KInv

-----------------------------------------------------------------------------
(* The steps of the collector under a sweep are steps of Hyaline. *)

\* A slot in an operation of the collector is seen as it is.
LEMMA PcOf ==
  ASSUME NEW s \in Slots, pc[s] # "sweep"
  PROVE  pcBar[s] = pc[s]
  BY DEF pcBar

\* It moves as it is seen to move.
LEMMA PcStep ==
  ASSUME SweepType, NEW s \in Slots, NEW x, x # "sweep", pc' = [pc EXCEPT ![s] = x]
  PROVE  pcBar' = [pcBar EXCEPT ![s] = x]
  BY DEF SweepType, pcBar

\* The local batch of a slot changes as it is seen to.
LEMMA BatchStep ==
  ASSUME SweepType, NEW s \in Slots, NEW x, x # DROP, batch' = [batch EXCEPT ![s] = x]
  PROVE  batchBar' = [batchBar EXCEPT ![s] = x]
  BY DEF SweepType, batchBar

\* So does what it holds.
LEMMA HeldStep ==
  ASSUME SweepType, UNCHANGED early, NEW s \in Slots, NEW X, held' = [held EXCEPT ![s] = X]
  PROVE  heldBar' = [heldBar EXCEPT ![s] = X \ early]
  BY DEF SweepType, heldBar

\* What does not change is not seen to change.
LEMMA SameBars ==
  /\ UNCHANGED pc => UNCHANGED pcBar
  /\ UNCHANGED batch => UNCHANGED batchBar
  /\ UNCHANGED held /\ UNCHANGED early => UNCHANGED heldBar
  BY DEF pcBar, batchBar, heldBar

\* try_retire, as long as the slot is not marked.
LEMMA RetireSteps ==
  ASSUME SweepInv, UNCHANGED early, NEW s \in Slots,
         \/ batch[s] # DROP /\ HeavyReturn(s)
         \/ \E t \in Slots : Interrupt(s, t)
         \/ \E t \in Slots : ScanSkip(s, t) \/ ScanMark(s, t) \/ ScanGiveUp(s, t) \/ LinkLoad(s, t)
         \/ Publish(s) \/ LinkSkip(s) \/ LinkCas(s) \/ LinkRetry(s) \/ Count(s)
  PROVE  H!Internal(s)
<1> USE SameBars DEF resvVars, batchVars, retireVars, callVars, clientVars,
        H!resvVars, H!batchVars, H!retireVars, H!callVars, H!clientVars
<1>0. SweepType
  BY DEF SweepInv
<1>1. ASSUME batch[s] # DROP, HeavyReturn(s) PROVE H!HeavyReturn(s)
  <2>1. pc[s] = "heavy" /\ pcBar[s] = "heavy" /\ batchBar[s] = batch[s]
    BY <1>1, PcOf DEF HeavyReturn, batchBar
  <2>2. CASE batch[s] = NULL
    <3>1. pcBar' = [pcBar EXCEPT ![s] = "user"]
      BY <1>0, <1>1, <2>2, PcStep DEF HeavyReturn
    <3> QED
      BY <1>1, <2>1, <2>2, <3>1 DEF HeavyReturn, H!HeavyReturn
  <2>3. CASE batch[s] # NULL
    <3>1. pcBar' = [pcBar EXCEPT ![s] = "scan"]
      BY <1>0, <1>1, <2>3, PcStep DEF HeavyReturn
    <3> QED
      BY <1>1, <2>1, <2>3, <3>1 DEF HeavyReturn, H!HeavyReturn
  <2> QED
    BY <2>2, <2>3
<1>12. ASSUME NEW t \in Slots, Interrupt(s, t) PROVE H!Interrupt(s, t)
  BY <1>12, PcOf DEF Interrupt, H!Interrupt, View, H!View
<1>2. ASSUME NEW t \in Slots, ScanSkip(s, t) PROVE H!ScanSkip(s, t)
  BY <1>2, PcOf DEF ScanSkip, H!ScanSkip
<1>3. ASSUME NEW t \in Slots, ScanMark(s, t) PROVE H!ScanMark(s, t)
  BY <1>3, PcOf, SameFinite DEF ScanMark, H!ScanMark
<1>4. ASSUME NEW t \in Slots, ScanGiveUp(s, t) PROVE H!ScanGiveUp(s, t)
  <2>1. pcBar' = [pcBar EXCEPT ![s] = "user"]
    BY <1>0, <1>4, PcStep DEF ScanGiveUp
  <2> QED
    BY <1>4, <2>1, PcOf, SameFinite DEF ScanGiveUp, H!ScanGiveUp
<1>5. ASSUME NEW t \in Slots, LinkLoad(s, t) PROVE H!LinkLoad(s, t)
  <2>1. pcBar' = [pcBar EXCEPT ![s] = "cas"]
    BY <1>0, <1>5, PcStep DEF LinkLoad
  <2> QED
    BY <1>5, <2>1, PcOf DEF LinkLoad, H!LinkLoad, Top, H!Top
<1>6. ASSUME Publish(s) PROVE H!Publish(s)
  <2>1. pcBar' = [pcBar EXCEPT ![s] = "link"]
    BY <1>0, <1>6, PcStep DEF Publish
  <2>2. batchBar' = [batchBar EXCEPT ![s] = NULL]
    BY <1>0, <1>6, BatchStep, DropAssumption DEF Publish
  <2> QED
    BY <1>6, <2>1, <2>2, PcOf DEF Publish, H!Publish
<1>7. ASSUME LinkNext(s) PROVE H!LinkNext(s)
  <2>1. pcBar' = [pcBar EXCEPT ![s] = "link"]
    BY <1>0, <1>7, PcStep DEF LinkNext
  <2> QED
    BY <1>7, <2>1 DEF LinkNext, H!LinkNext
<1>8. ASSUME LinkSkip(s) PROVE H!LinkSkip(s)
  BY <1>7, <1>8, PcOf DEF LinkSkip, H!LinkSkip
<1>9. ASSUME LinkCas(s) PROVE H!LinkCas(s)
  BY <1>7, <1>9, PcOf DEF LinkCas, H!LinkCas, Top, H!Top
<1>10. ASSUME LinkRetry(s) PROVE H!LinkRetry(s)
  BY <1>10, PcOf DEF LinkRetry, H!LinkRetry, Top, H!Top
<1>11. ASSUME Count(s) PROVE H!Count(s)
  <2>1. pcBar' = [pcBar EXCEPT ![s] = IF WrapAdd(active[cur[s]], cnt[s]) = 0 THEN "free" ELSE "user"]
    BY <1>0, <1>11, PcStep DEF Count
  <2> QED
    BY <1>11, <2>1, PcOf DEF Count, H!Count, WrapAdd, H!WrapAdd
<1> QED
  BY <1>1, <1>2, <1>3, <1>4, <1>5, <1>6, <1>8, <1>9, <1>10, <1>11, <1>12 DEF H!Internal

\* free_batch runs a reclaimer.
LEMMA ReclaimSteps ==
  ASSUME SweepInv, UNCHANGED early, NEW s \in Slots
  PROVE  (Reclaim(s) => H!Reclaim(s)) /\ (ReclaimCall(s) => H!ReclaimCall(s))
<1> USE SameBars DEF resvVars, batchVars, retireVars, H!resvVars, H!batchVars, H!retireVars
<1>0. SweepType
  BY DEF SweepInv
<1>1. ASSUME Reclaim(s) PROVE H!Reclaim(s)
  BY <1>1, PcOf DEF Reclaim, H!Reclaim
<1>2. ASSUME ReclaimCall(s) PROVE H!ReclaimCall(s)
  <2>1. pcBar' = [pcBar EXCEPT ![s] = "user"]
    BY <1>0, <1>2, PcStep DEF ReclaimCall
  <2> QED
    BY <1>2, <2>1, PcOf DEF ReclaimCall, H!ReclaimCall
<1> QED
  BY <1>1, <1>2

\* Traversal and free_batch.
LEMMA FreeSteps ==
  ASSUME SweepInv, UNCHANGED early, NEW s \in Slots,
         Traverse(s) \/ Dec(s) \/ Reclaim(s) \/ ReclaimCall(s) \/ Dealloc(s)
  PROVE  H!Internal(s)
<1> USE SameBars DEF resvVars, batchVars, retireVars, callVars, clientVars,
        H!resvVars, H!batchVars, H!retireVars, H!callVars, H!clientVars
<1>0. SweepType
  BY DEF SweepInv
<1>1. ASSUME Traverse(s) PROVE H!Traverse(s)
  <2>1. pcBar' = [pcBar EXCEPT ![s] = "dec"]
    BY <1>0, <1>1, PcStep DEF Traverse
  <2> QED
    BY <1>1, <2>1, PcOf DEF Traverse, H!Traverse
<1>2. ASSUME Dec(s) PROVE H!Dec(s)
  <2>1. pcBar' = [pcBar EXCEPT ![s] = IF active[cur[s]] = 1 THEN "free" ELSE Resume(list[s])]
    BY <1>0, <1>2, PcStep DEF Dec, Resume
  <2> QED
    BY <1>2, <2>1, PcOf DEF Dec, H!Dec, WrapDec, H!WrapDec, Resume, H!Resume
<1>5. ASSUME Dealloc(s) PROVE H!Dealloc(s)
  <2>1. pcBar' = [pcBar EXCEPT ![s] = Resume(list[s])]
    BY <1>0, <1>5, PcStep DEF Dealloc, Resume
  <2> QED
    BY <1>5, <2>1, PcOf DEF Dealloc, H!Dealloc, Resume, H!Resume
<1> QED
  BY <1>1, <1>2, <1>5, ReclaimSteps DEF H!Internal

\* No cell points to an object that was reclaimed, and no batch has one to retire.
LEMMA NotEarly ==
  ASSUME SweepInv
  PROVE  /\ \A c \in Cells : cell[c] \in Objects \cup {NULL} /\ cell[c] \notin early
         /\ \A o \in Objects : obj[o] \in {"fresh", "unlinked"} => o \notin early
<1>1. \A c \in Cells : cell[c] # NULL => obj[cell[c]] = "shared"
  BY DEF SweepInv, H!KInv, H!GInv, H!Located
<1>2. \A c \in Cells : cell[c] \in Objects \cup {NULL}
  BY DEF SweepInv, H!KInv, H!GInv, H!SInv, H!TypeOK
<1> QED
  BY <1>1, <1>2, NullAssumption DEF SweepInv, HeldInv, SweepType

\* try_retire begins its barrier.
LEMMA TrySteps ==
  ASSUME SweepType, NEW s \in Slots, TryRetire(s)
  PROVE  H!TryRetire(s)
<1>1. pcBar' = [pcBar EXCEPT ![s] = "heavy"]
  BY PcStep DEF TryRetire
<1> QED
  BY <1>1 DEF TryRetire, H!TryRetire, HeavyBarrier, H!HeavyBarrier

\* Guards, and flush.
LEMMA GuardSteps ==
  ASSUME SweepInv, UNCHANGED early, NEW s \in Slots,
         Enter(s) \/ Leave(s) \/ Refresh(s) \/ Flush(s) \/ ReclaimReturn(s)
  PROVE  H!User(s)
<1> USE SameBars DEF resvVars, batchVars, retireVars, callVars, clientVars,
        H!resvVars, H!batchVars, H!retireVars, H!callVars, H!clientVars
<1>0. SweepType
  BY DEF SweepInv
<1>1. ASSUME Enter(s) PROVE H!Enter(s)
  BY <1>1, PcOf DEF Enter, EnterReservation, LightStore, H!Enter, H!EnterReservation, H!LightStore
<1>2. ASSUME NEW h, TraverseFrom(s, h) PROVE H!TraverseFrom(s, h)
  <2>1. pcBar' = [pcBar EXCEPT ![s] = Resume(IF h = INACTIVE THEN <<>> ELSE h)]
    BY <1>0, <1>2, PcStep DEF TraverseFrom, Resume
  <2> QED
    BY <1>2, <2>1 DEF TraverseFrom, H!TraverseFrom, Resume, H!Resume
<1>3. ASSUME held' = [held EXCEPT ![s] = {}] PROVE heldBar' = [heldBar EXCEPT ![s] = {}]
  <2>1. heldBar' = [heldBar EXCEPT ![s] = {} \ early]
    BY <1>0, <1>3, HeldStep
  <2> QED
    BY <2>1
<1>4. View(s) = H!View(s) /\ Base(s) = H!Base(s)
  BY DEF View, H!View, Base, H!Base
<1>5. ASSUME Leave(s) PROVE H!Leave(s)
  <2>1. CASE guards[s] = 1
    <3>1. LeaveReservation(s)
      BY <1>5, <2>1 DEF Leave
    <3>2. H!LeaveReservation(s)
      BY <1>2, <1>3, <1>4, <3>1 DEF LeaveReservation, H!LeaveReservation
    <3> QED
      BY <1>4, <1>5, <2>1, <3>2, PcOf DEF Leave, H!Leave
  <2>2. CASE guards[s] # 1
    BY <1>4, <1>5, <2>2, PcOf DEF Leave, H!Leave
  <2> QED
    BY <2>1, <2>2
<1>6. ASSUME Refresh(s) PROVE H!Refresh(s)
  BY <1>2, <1>3, <1>4, <1>6, PcOf DEF Refresh, H!Refresh
<1>7. ASSUME Flush(s) PROVE H!Flush(s)
  <2>1. H!TryRetire(s)
    BY <1>0, <1>7, TrySteps DEF Flush
  <2> QED
    BY <1>4, <1>7, <2>1, PcOf DEF Flush, H!Flush
<1>8. ASSUME ReclaimReturn(s) PROVE H!ReclaimReturn(s)
  <2>1. pcBar' = [pcBar EXCEPT ![s] = "free"]
    BY <1>0, <1>8, PcStep DEF ReclaimReturn
  <2> QED
    BY <1>4, <1>8, <2>1, PcOf DEF ReclaimReturn, H!ReclaimReturn
<1> QED
  BY <1>1, <1>5, <1>6, <1>7, <1>8 DEF H!User

\* The uses of a guard, and retirement on a slot that is not marked.
LEMMA ClientSteps ==
  ASSUME SweepInv, UNCHANGED early, NEW s \in Slots,
         \/ Reserve(s)
         \/ \E c \in Cells : Protect(s, c) \/ \E n \in Objects \cup {NULL} : Swap(s, c, n)
         \/ batch[s] # DROP /\ \E o \in Objects : Add(s, o)
  PROVE  H!User(s)
<1> USE SameBars DEF resvVars, batchVars, retireVars, callVars, clientVars,
        H!resvVars, H!batchVars, H!retireVars, H!callVars, H!clientVars
<1>0. SweepType /\ heldBar[s] = held[s] \ early /\ Base(s) = H!Base(s)
  BY DEF SweepInv, heldBar, Base, H!Base
<1>1. ASSUME NEW X, X \cap early = {}, held' = [held EXCEPT ![s] = held[s] \cup X]
      PROVE  heldBar' = [heldBar EXCEPT ![s] = heldBar[s] \cup X]
  <2>1. (held[s] \cup X) \ early = heldBar[s] \cup X
    BY <1>0, <1>1
  <2> QED
    BY <1>0, <1>1, <2>1, HeldStep
<1>2. ASSUME Reserve(s) PROVE H!Reserve(s)
  <2>1. PICK b \in Batches \ alive : /\ batch' = [batch EXCEPT ![s] = b]
                                    /\ alive' = alive \cup {b}
    BY <1>2 DEF Reserve
  <2>2. batchBar' = [batchBar EXCEPT ![s] = b]
    BY <1>0, <2>1, BatchStep, DropAssumption
  <2>3. batchBar[s] = NULL
    BY <1>2, DropAssumption DEF Reserve, batchBar
  <2> QED
    BY <1>2, <2>1, <2>2, <2>3, PcOf DEF Reserve, H!Reserve
<1>3. ASSUME NEW c \in Cells, Protect(s, c) PROVE H!Protect(s, c)
  <2>1. held' = [held EXCEPT ![s] = held[s] \cup {cell[c]}]
    BY <1>3 DEF Protect
  <2>2. {cell[c]} \cap early = {}
    BY NotEarly
  <2>3. heldBar' = [heldBar EXCEPT ![s] = heldBar[s] \cup {cell[c]}]
    BY <1>1, <2>1, <2>2
  <2> QED
    BY <1>0, <1>3, <2>3, PcOf DEF Protect, H!Protect
<1>4. ASSUME NEW c \in Cells, NEW n \in Objects \cup {NULL}, Swap(s, c, n) PROVE H!Swap(s, c, n)
  <2>1. PICK X : X = IF guards[s] > Base(s) THEN {cell[c]} \ {NULL} ELSE {}
    OBVIOUS
  <2>2. held' = [held EXCEPT ![s] = held[s] \cup X] /\ X \cap early = {}
    BY <1>4, <2>1, NotEarly DEF Swap
  <2>3. heldBar' = [heldBar EXCEPT ![s] = heldBar[s] \cup X]
    BY <1>1, <2>2
  <2>4. heldBar' = [heldBar EXCEPT ![s] = IF guards[s] > H!Base(s)
                                          THEN heldBar[s] \cup ({cell[c]} \ {NULL}) ELSE heldBar[s]]
    BY <1>0, <2>1, <2>3
  <2> QED
    BY <1>4, <2>4, PcOf DEF Swap, H!Swap
<1>5. ASSUME batch[s] # DROP, NEW o \in Objects, Add(s, o) PROVE H!Add(s, o)
  <2>1. PICK b \in GetOrInit(s) :
          /\ batch' = [batch EXCEPT ![s] = b]
          /\ alive' = alive \cup {b}
          /\ entries' = [entries EXCEPT ![b] = Append(@, o)]
          /\ IF Len(entries[b]) + 1 >= BatchSize THEN TryRetire(s) ELSE UNCHANGED <<pc, todo>>
    BY <1>5 DEF Add
  <2>2. b \in Batches /\ b \in H!GetOrInit(s)
    BY <1>0, <1>5, <2>1 DEF SweepType, GetOrInit, H!GetOrInit, batchBar
  <2>3. batchBar' = [batchBar EXCEPT ![s] = b]
    BY <1>0, <2>1, <2>2, BatchStep, DropAssumption
  <2>4. IF Len(entries[b]) + 1 >= BatchSize THEN H!TryRetire(s) ELSE UNCHANGED <<pcBar, todo>>
    BY <1>0, <2>1, TrySteps
  <2>5. PICK X : X = IF guards[s] > Base(s) THEN {o} ELSE {}
    OBVIOUS
  <2>6. held' = [held EXCEPT ![s] = held[s] \cup X] /\ X \cap early = {}
    <3>1. o \notin early
      BY <1>5, NotEarly DEF Add
    <3>2. held' = [held EXCEPT ![s] = IF guards[s] > Base(s) THEN held[s] \cup {o} ELSE held[s]]
      BY <1>5 DEF Add
    <3> QED
      BY <2>5, <3>1, <3>2
  <2>7. heldBar' = [heldBar EXCEPT ![s] = heldBar[s] \cup X]
    BY <1>1, <2>6
  <2>8. heldBar' = [heldBar EXCEPT ![s] = IF guards[s] > H!Base(s) THEN heldBar[s] \cup {o} ELSE heldBar[s]]
    BY <1>0, <2>5, <2>7
  <2> QED
    BY <1>5, <2>1, <2>2, <2>3, <2>4, <2>8, PcOf DEF Add, H!Add
<1> QED
  BY <1>2, <1>3, <1>4, <1>5 DEF H!User

\* A step of the collector that is not the sweep's own.
CollectorStep(s) ==
  \/ Plain(s) \/ HeavyDrop(s) \/ \E o \in Objects : AddBatch(s, o)
  \/ Drain(s) /\ UNCHANGED <<sweepVars, historyVars>>

\* It is a step of Hyaline, try_retire on a marked slot being one with no batch.
LEMMA CollectorSteps ==
  ASSUME SweepInv, NEW s \in Slots, CollectorStep(s)
  PROVE  H!Step(s) /\ UNCHANGED <<sweep, left, at, before, early>>
<1> USE DEF sweepVars, historyVars
<1>0. SweepType /\ UNCHANGED <<sweep, left, at, before, early>>
  BY DEF SweepInv, CollectorStep, Plain, HeavyDrop, AddBatch
<1>1. CASE Plain(s)
  BY <1>0, <1>1, RetireSteps, FreeSteps, GuardSteps, ClientSteps DEF Plain, Return, H!Step
<1>2. CASE HeavyDrop(s)
  <2>1. batchBar[s] = NULL /\ pcBar[s] = "heavy" /\ pcBar' = [pcBar EXCEPT ![s] = "user"]
    BY <1>0, <1>2, PcOf, PcStep DEF HeavyDrop, batchBar
  <2>2. H!HeavyReturn(s)
    BY <1>0, <1>2, <2>1, SameBars DEF HeavyDrop, H!HeavyReturn, resvVars, batchVars, retireVars, clientVars,
       H!resvVars, H!batchVars, H!clientVars
  <2> QED
    BY <1>0, <2>2 DEF H!Step, H!Internal
<1>3. ASSUME NEW o \in Objects, AddBatch(s, o) PROVE H!Step(s)
  BY <1>0, <1>3, ClientSteps DEF AddBatch, H!Step
<1>4. CASE Drain(s)
  <2>1. H!Drain(s)
    BY <1>0, <1>4, SameBars DEF Drain, H!Drain, batchVars, retireVars, callVars, clientVars,
       H!batchVars, H!retireVars, H!callVars, H!clientVars
  <2> QED
    BY <1>0, <2>1 DEF H!Step
<1> QED
  BY <1>0, <1>1, <1>2, <1>3, <1>4 DEF CollectorStep

\* While the sweep is in its loop, or a call may start, no slot is marked and
\* the collector is quiet.
LEMMA InLoop ==
  ASSUME SweepInv, NEW s \in Slots, pc[s] = "sweep"
  PROVE  /\ sweep = s /\ at = NULL /\ \A t \in Slots : batch[t] # DROP
         /\ \A t \in Slots : pcBar[t] = "user" /\ stack[t] = <<>> /\ guards[t] = 0 /\ held[t] = {}
<1>1. sweep = s /\ stack[s] = <<>> /\ at = NULL /\ Alone(s)
  BY DEF SweepInv, Position
<1>2. \A t \in Slots : batch[t] # DROP
  BY <1>1, NullAssumption DEF SweepInv, Position
<1>3. \A t \in Slots : pcBar[t] = "user" /\ stack[t] = <<>> /\ guards[t] = 0
  BY <1>1 DEF Alone, Idle, pcBar
<1>4. \A t \in Slots : held[t] = {}
  BY <1>3 DEF SweepInv, HeldInv
<1> QED
  BY <1>1, <1>2, <1>3, <1>4

\* The steps of the sweep that free nothing are not seen.
LEMMA LoopSteps ==
  ASSUME SweepInv, NEW s \in Slots,
         \/ \E drop \in BOOLEAN : SweepStart(s, drop)
         \/ \E t \in Slots : SweepSkip(s, t)
         \/ SweepEnd(s)
  PROVE  UNCHANGED H!vars
<1> USE SameBars DEF vars, resvVars, batchVars, retireVars, callVars, clientVars, historyVars,
        H!vars, H!resvVars, H!batchVars, H!retireVars, H!callVars, H!clientVars
<1>1. ASSUME NEW drop \in BOOLEAN, SweepStart(s, drop) PROVE UNCHANGED H!vars
  <2>1. \A t \in Slots : held[t] = {}
    BY <1>1 DEF SweepStart, Idle, SweepInv, HeldInv
  <2>2. UNCHANGED heldBar
    BY <1>1, <2>1 DEF SweepStart, heldBar
  <2>3. UNCHANGED pcBar
    BY <1>1 DEF SweepStart, Idle, pcBar, SweepInv, SweepType
  <2> QED
    BY <1>1, <2>2, <2>3 DEF SweepStart
<1>2. ASSUME NEW t \in Slots, SweepSkip(s, t) PROVE UNCHANGED H!vars
  BY <1>2 DEF SweepSkip
<1>3. CASE SweepEnd(s)
  <2>1. UNCHANGED pcBar
    BY <1>3 DEF SweepEnd, pcBar, SweepInv, SweepType
  <2> QED
    BY <1>3, <2>1 DEF SweepEnd
<1> QED
  BY <1>1, <1>2, <1>3

\* The sweep takes a batch, and frees it.
LEMMA SweepBatchStep ==
  ASSUME SweepInv, NEW s \in Slots, NEW t \in Slots, SweepBatch(s, t)
  PROVE  H!TakeBatch(s, t)
<1> USE SameBars DEF resvVars, retireVars, clientVars, historyVars, H!resvVars, H!retireVars, H!clientVars
<1>0. SweepType
  BY DEF SweepInv
<1>1. /\ \A u \in Slots : pcBar[u] = "user" /\ stack[u] = <<>> /\ guards[u] = 0
      /\ batchBar[t] = batch[t]
  BY InLoop DEF SweepBatch, batchBar
<1>2. pcBar' = [pcBar EXCEPT ![s] = "free"]
  BY <1>0, PcStep DEF SweepBatch
<1>3. batchBar' = [batchBar EXCEPT ![t] = NULL]
  BY <1>0 DEF SweepBatch, SweepType, batchBar
<1> QED
  BY <1>1, <1>2, <1>3 DEF SweepBatch, H!TakeBatch

\* free_batch of the sweep deallocates as every free_batch does, and finds the
\* other slots idle.
LEMMA SweepNextStep ==
  ASSUME SweepInv, NEW s \in Slots, SweepNext(s)
  PROVE  H!Dealloc(s) /\ at \in Slots /\ stack[s] = <<>> /\ Alone(s)
<1> USE SameBars DEF resvVars, batchVars, retireVars, clientVars, historyVars,
        H!resvVars, H!batchVars, H!retireVars, H!clientVars
<1>0. SweepType
  BY DEF SweepInv
<1>1. /\ sweep = s /\ pc[s] = "free" /\ stack[s] = <<>> /\ idx[s] > Len(entries[cur[s]])
      /\ at \in Slots /\ batch[at] = DROP /\ list[s] = <<>> /\ Alone(s)
  BY <1>0 DEF SweepNext, SweepFreed, SweepInv, Position, Alone, SweepType
<1>2. pcBar' = [pcBar EXCEPT ![s] = "user"]
  BY <1>0 DEF SweepNext, FreeSwept, SweepType, pcBar
<1>3. UNCHANGED batchBar
  BY <1>0, <1>1, DropAssumption DEF SweepNext, SweepType, batchBar
<1>4. H!Resume(list[s]) = "user"
  BY <1>1 DEF H!Resume
<1>5. H!Dealloc(s)
  BY <1>1, <1>2, <1>3, <1>4, PcOf DEF SweepNext, FreeSwept, H!Dealloc
<1> QED
  BY <1>1, <1>5

\* What is retired on a marked slot is reclaimed at once.
LEMMA AddDropStep ==
  ASSUME SweepInv, NEW s \in Slots, NEW o \in Objects, AddDrop(s, o)
  PROVE  H!ReclaimNow(o)
<1> USE SameBars DEF resvVars, batchVars, retireVars, callVars,
        H!resvVars, H!batchVars, H!retireVars, H!callVars
<1>1. heldBar' = [t \in Slots |-> heldBar[t] \ {o}]
  <2>1. \A t \in Slots : held'[t] \ early' = (held[t] \ early) \ {o}
    BY DEF AddDrop, SweepInv, SweepType
  <2> QED
    BY <2>1 DEF heldBar
<1> QED
  BY <1>1 DEF AddDrop, H!ReclaimNow

\* So the invariant of Hyaline holds under a sweep.
LEMMA GraceStep ==
  ASSUME SweepInv, NEW s \in Slots, SweepStep(s)
  PROVE  H!KInv'
<1>0. H!KInv
  BY DEF SweepInv
<1>1. ASSUME H!Step(s) PROVE H!KInv'
  BY <1>0, <1>1, GraceNext DEF H!Step, H!Next
<1>2. ASSUME CollectorStep(s) PROVE H!KInv'
  BY <1>1, <1>2, CollectorSteps
<1>3. ASSUME NEW o \in Objects, AddDrop(s, o) PROVE H!KInv'
  BY <1>0, <1>3, AddDropStep, GraceNow
<1>4. CASE Sweep(s)
  <2>1. ASSUME UNCHANGED H!vars PROVE H!KInv'
    BY <1>0, <2>1, GraceNext
  <2>2. ASSUME NEW t \in Slots, SweepBatch(s, t) PROVE H!KInv'
    BY <1>0, <2>2, SweepBatchStep, GraceTake
  <2>3. ASSUME SweepNext(s) PROVE H!KInv'
    BY <1>1, <2>3, SweepNextStep DEF H!Step, H!Internal
  <2> QED
    BY <1>4, <2>1, <2>2, <2>3, LoopSteps DEF Sweep
<1> QED
  BY <1>2, <1>3, <1>4 DEF SweepStep, CollectorStep

-----------------------------------------------------------------------------
(* What a step of the collector does to what Hyaline does not see. *)

\* A slot that takes a step is in no loop, and goes to none.
LEMMA PcMoves ==
  ASSUME SweepInv, NEW s \in Slots, CollectorStep(s)
  PROVE  /\ Drain(s) \/ pc[s] # "sweep"
         /\ UNCHANGED pc \/ \E x \in States \ {"sweep"} : pc' = [pc EXCEPT ![s] = x]
<1> USE DEF States, callVars
<1>1. CASE Drain(s)
  BY <1>1 DEF Drain
<1>2. CASE HeavyDrop(s)
  BY <1>2 DEF HeavyDrop
<1>3. ASSUME NEW o \in Objects, AddBatch(s, o)
      PROVE  /\ pc[s] # "sweep"
             /\ UNCHANGED pc \/ \E x \in States \ {"sweep"} : pc' = [pc EXCEPT ![s] = x]
  BY <1>3 DEF AddBatch, Add, TryRetire
<1>4. CASE \/ HeavyReturn(s) \/ Publish(s) \/ LinkSkip(s) \/ LinkCas(s) \/ LinkRetry(s) \/ Count(s)
           \/ \E t \in Slots : Interrupt(s, t)
           \/ \E t \in Slots : ScanSkip(s, t) \/ ScanMark(s, t) \/ ScanGiveUp(s, t) \/ LinkLoad(s, t)
  BY <1>4 DEF HeavyReturn, Interrupt, Publish, LinkSkip, LinkCas, LinkRetry, LinkNext, Count, ScanSkip, ScanMark, ScanGiveUp,
     LinkLoad
<1>5. CASE Traverse(s) \/ Dec(s) \/ Reclaim(s) \/ ReclaimCall(s) \/ Dealloc(s) \/ ReclaimReturn(s)
  BY <1>5 DEF Traverse, Dec, Reclaim, ReclaimCall, Dealloc, ReclaimReturn, Resume
<1>6. CASE Enter(s) \/ Leave(s) \/ Refresh(s) \/ Flush(s) \/ Reserve(s)
  BY <1>6 DEF Enter, Leave, LeaveReservation, Refresh, TraverseFrom, Flush, TryRetire, Reserve, Resume
<1>7. CASE \E c \in Cells : Protect(s, c) \/ \E n \in Objects \cup {NULL} : Swap(s, c, n)
  BY <1>7 DEF Protect, Swap
<1> QED
  BY <1>1, <1>2, <1>3, <1>4, <1>5, <1>6, <1>7 DEF CollectorStep, Plain, Return

\* No step of the collector marks a slot, or resets a marked one; a slot's batch
\* is new and empty, or the one it had, with the object retired.
LEMMA BatchMoves ==
  ASSUME SweepInv, NEW s \in Slots, CollectorStep(s)
  PROVE  /\ \/ UNCHANGED batch
            \/ batch[s] # DROP /\ \E x \in Batches \cup {NULL} : batch' = [batch EXCEPT ![s] = x]
         /\ \A t \in Slots : \A o \in Objects :
              batch'[t] \in Batches /\ o \in Elems(entries'[batch'[t]]) =>
                \/ obj[o] \in {"fresh", "unlinked"}
                \/ batch[t] \in Batches /\ o \in Elems(entries[batch[t]])
<1> USE DEF batchVars
<1>0. SweepType /\ H!TypeOK /\ H!Control /\ H!Unallocated
  BY DEF SweepInv, H!KInv, H!GInv, H!SInv, H!Structure
<1>1. CASE UNCHANGED <<batch, entries>>
  BY <1>1
<1>2. CASE Publish(s)
  <2>1. pcBar[s] = "scan" /\ batchBar[s] \in Batches
    BY <1>0, <1>2, PcOf DEF Publish, H!Control
  <2>2. batch[s] # DROP /\ batch' = [batch EXCEPT ![s] = NULL] /\ entries' = entries
    BY <1>2, <2>1, NullAssumption DEF batchBar, Publish
  <2> QED
    BY <1>0, <2>2, NullAssumption DEF SweepType
<1>3. CASE Reserve(s)
  <2>1. PICK b \in Batches \ alive : batch' = [batch EXCEPT ![s] = b]
    BY <1>3 DEF Reserve
  <2>2. entries' = entries /\ entries[b] = <<>> /\ batch[s] = NULL
    BY <1>0, <1>3, <2>1 DEF Reserve, H!Unallocated
  <2>3. Elems(entries[b]) = {}
    BY <2>2 DEF Elems
  <2> QED
    BY <1>0, <2>1, <2>2, <2>3, DropAssumption DEF SweepType
<1>4. CASE Dealloc(s)
  <2>1. entries' = [entries EXCEPT ![cur[s]] = <<>>] /\ batch' = batch
    BY <1>4 DEF Dealloc
  <2>2. \A b \in Batches : entries'[b] = entries[b] \/ entries'[b] = <<>>
    BY <1>0, <2>1 DEF H!TypeOK
  <2>3. Elems(<<>>) = {}
    BY DEF Elems
  <2> QED
    BY <2>1, <2>2, <2>3
<1>5. ASSUME NEW p \in Objects, AddBatch(s, p)
      PROVE  /\ batch[s] # DROP /\ \E x \in Batches \cup {NULL} : batch' = [batch EXCEPT ![s] = x]
             /\ \A t \in Slots : \A o \in Objects :
                  batch'[t] \in Batches /\ o \in Elems(entries'[batch'[t]]) =>
                    \/ obj[o] \in {"fresh", "unlinked"}
                    \/ batch[t] \in Batches /\ o \in Elems(entries[batch[t]])
  <2>1. PICK b \in GetOrInit(s) : /\ batch' = [batch EXCEPT ![s] = b]
                                  /\ entries' = [entries EXCEPT ![b] = Append(@, p)]
    BY <1>5 DEF AddBatch, Add
  <2>2. batch[s] # DROP /\ obj[p] \in {"fresh", "unlinked"}
    BY <1>5 DEF AddBatch, Add
  <2>3. b \in Batches /\ (batch[s] = b \/ (batch[s] = NULL /\ entries[b] = <<>>))
    BY <1>0, <2>1, <2>2 DEF SweepType, GetOrInit, H!Unallocated
  <2>4. ASSUME NEW a \in Batches, NEW o \in Objects, o \in Elems(entries'[a])
        PROVE  o = p \/ o \in Elems(entries[a])
    <3>1. CASE a = b
      <4>1. PICK q \in Seq(Objects) : q = entries[b] /\ entries'[b] = Append(q, p)
        BY <1>0, <2>1, <2>3 DEF H!TypeOK
      <4>2. PICK i \in 1 .. Len(Append(q, p)) : o = Append(q, p)[i]
        BY <2>4, <3>1, <4>1 DEF Elems
      <4>3. (i \in 1 .. Len(q) /\ o = q[i]) \/ o = p
        BY <4>1, <4>2
      <4> QED
        BY <3>1, <4>1, <4>3 DEF Elems
    <3>2. CASE a # b
      BY <1>0, <2>1, <2>3, <2>4, <3>2 DEF H!TypeOK
    <3> QED
      BY <3>1, <3>2
  <2>5. ASSUME NEW t \in Slots, NEW o \in Objects, batch'[t] \in Batches, o \in Elems(entries'[batch'[t]])
        PROVE  \/ obj[o] \in {"fresh", "unlinked"}
               \/ batch[t] \in Batches /\ o \in Elems(entries[batch[t]])
    <3>1. o = p \/ o \in Elems(entries[batch'[t]])
      BY <2>4, <2>5
    <3>2. CASE batch'[t] = batch[t]
      BY <2>2, <2>5, <3>1, <3>2
    <3>3. CASE batch'[t] # batch[t]
      <4>1. batch'[t] = b /\ entries[b] = <<>>
        BY <1>0, <2>1, <2>3, <3>3 DEF SweepType
      <4>2. Elems(entries[b]) = {}
        BY <4>1 DEF Elems
      <4> QED
        BY <2>2, <3>1, <4>1, <4>2
    <3> QED
      BY <3>2, <3>3
  <2> QED
    BY <2>1, <2>2, <2>3, <2>5
<1>6. CASE HeavyDrop(s) \/ Drain(s)
  BY <1>1, <1>6 DEF HeavyDrop, Drain
<1>7. CASE \/ HeavyReturn(s) \/ (\E t \in Slots : Interrupt(s, t))
           \/ LinkSkip(s) \/ LinkCas(s) \/ LinkRetry(s) \/ Count(s) \/ Traverse(s) \/ Dec(s)
           \/ \E t \in Slots : ScanSkip(s, t) \/ ScanMark(s, t) \/ ScanGiveUp(s, t) \/ LinkLoad(s, t)
           \/ Reclaim(s) \/ ReclaimCall(s)
  BY <1>1, <1>7 DEF HeavyReturn, Interrupt, LinkSkip, LinkCas, LinkRetry, Count, Traverse, Dec, ScanSkip, ScanMark, ScanGiveUp,
     LinkLoad, Reclaim, ReclaimCall
<1>8. CASE \/ ReclaimReturn(s) \/ Enter(s) \/ Leave(s) \/ Refresh(s) \/ Flush(s)
           \/ \E c \in Cells : Protect(s, c) \/ \E n \in Objects \cup {NULL} : Swap(s, c, n)
  BY <1>1, <1>8 DEF ReclaimReturn, Enter, Leave, Refresh, Flush, Protect, Swap
<1> QED
  BY <1>2, <1>3, <1>4, <1>5, <1>6, <1>7, <1>8 DEF CollectorStep, Plain, Return

\* What a slot comes to hold is not reclaimed, and it holds nothing without a guard.
LEMMA HeldMoves ==
  ASSUME SweepInv, NEW s \in Slots, CollectorStep(s)
  PROVE  /\ held' \in [Slots -> SUBSET Objects]
         /\ \A t \in Slots \ {s} : held'[t] = held[t] /\ guards'[t] = guards[t]
         /\ held'[s] # {} => guards'[s] > 0
         /\ held'[s] \cap early \subseteq held[s]
<1> USE DEF resvVars, clientVars
<1>0. /\ SweepType /\ HeldInv /\ guards \in [Slots -> Nat] /\ guards[s] \in Nat
      /\ obj \in [Objects -> {"fresh", "shared", "unlinked", "retired", "reclaimed"}]
  BY DEF SweepInv, H!KInv, H!GInv, H!SInv, H!TypeOK
<1>1. ASSUME guards[s] > Base(s) PROVE guards[s] > 0
  <2>1. Base(s) \in Nat
    <3>1. H!TypeOK
      BY DEF SweepInv, H!KInv, H!GInv, H!SInv
    <3>2. H!Base(s) \in Nat
      BY <3>1, H!BaseType, SameConstants
    <3> QED
      BY <3>2 DEF Base, H!Base
  <2> QED
    BY <1>0, <1>1, <2>1
<1>2. ASSUME UNCHANGED <<held, guards>>
      PROVE  /\ held' \in [Slots -> SUBSET Objects]
             /\ \A t \in Slots \ {s} : held'[t] = held[t] /\ guards'[t] = guards[t]
             /\ held'[s] # {} => guards'[s] > 0
             /\ held'[s] \cap early \subseteq held[s]
  BY <1>0, <1>2 DEF SweepType, HeldInv
<1>3. CASE Enter(s)
  <2>1. held' = held /\ guards' = [guards EXCEPT ![s] = guards[s] + 1]
    BY <1>3 DEF Enter
  <2> QED
    BY <1>0, <2>1 DEF SweepType
<1>4. CASE Leave(s)
  <2>1. guards' = [guards EXCEPT ![s] = guards[s] - 1] /\ guards[s] > 0
    BY <1>1, <1>4 DEF Leave
  <2>2. CASE guards[s] = 1
    <3>1. held' = [held EXCEPT ![s] = {}]
      BY <1>4, <2>2 DEF Leave, LeaveReservation
    <3> QED
      BY <1>0, <2>1, <3>1 DEF SweepType
  <2>3. CASE guards[s] # 1
    <3>1. held' = held
      BY <1>4, <2>3 DEF Leave
    <3> QED
      BY <1>0, <2>1, <2>3, <3>1 DEF SweepType
  <2> QED
    BY <2>2, <2>3
<1>5. CASE Refresh(s)
  BY <1>0, <1>5 DEF Refresh, SweepType
<1>6. ASSUME NEW X \in SUBSET Objects, X \cap early = {}, X # {} => guards[s] > 0, UNCHANGED guards,
             held' = [held EXCEPT ![s] = held[s] \cup X]
      PROVE  /\ held' \in [Slots -> SUBSET Objects]
             /\ \A t \in Slots \ {s} : held'[t] = held[t] /\ guards'[t] = guards[t]
             /\ held'[s] # {} => guards'[s] > 0
             /\ held'[s] \cap early \subseteq held[s]
  BY <1>0, <1>6 DEF SweepType, HeldInv
<1>7. ASSUME NEW c \in Cells, Protect(s, c)
      PROVE  \E X \in SUBSET Objects :
               /\ X \cap early = {} /\ (X # {} => guards[s] > 0) /\ UNCHANGED guards
               /\ held' = [held EXCEPT ![s] = held[s] \cup X]
  <2>1. {cell[c]} \in SUBSET Objects /\ {cell[c]} \cap early = {}
    BY <1>7, NotEarly DEF Protect
  <2> QED
    BY <1>1, <1>7, <2>1 DEF Protect
<1>8. ASSUME NEW c \in Cells, NEW n \in Objects \cup {NULL}, Swap(s, c, n)
      PROVE  \E X \in SUBSET Objects :
               /\ X \cap early = {} /\ (X # {} => guards[s] > 0) /\ UNCHANGED guards
               /\ held' = [held EXCEPT ![s] = held[s] \cup X]
  <2>1. PICK X : X = IF guards[s] > Base(s) THEN {cell[c]} \ {NULL} ELSE {}
    OBVIOUS
  <2>2. X \in SUBSET Objects /\ X \cap early = {} /\ (X # {} => guards[s] > 0)
    BY <1>1, <2>1, NotEarly
  <2>3. held' = [held EXCEPT ![s] = held[s] \cup X] /\ UNCHANGED guards
    BY <1>8, <2>1 DEF Swap
  <2> QED
    BY <2>2, <2>3
<1>9. ASSUME NEW o \in Objects, AddBatch(s, o)
      PROVE  \E X \in SUBSET Objects :
               /\ X \cap early = {} /\ (X # {} => guards[s] > 0) /\ UNCHANGED guards
               /\ held' = [held EXCEPT ![s] = held[s] \cup X]
  <2>1. PICK X : X = IF guards[s] > Base(s) THEN {o} ELSE {}
    OBVIOUS
  <2>2. o \notin early /\ UNCHANGED guards
    BY <1>9, NotEarly DEF AddBatch, Add
  <2>3. X \in SUBSET Objects /\ X \cap early = {} /\ (X # {} => guards[s] > 0)
    BY <1>1, <2>1, <2>2
  <2>4. held' = [held EXCEPT ![s] = IF guards[s] > Base(s) THEN held[s] \cup {o} ELSE held[s]]
    BY <1>9 DEF AddBatch, Add
  <2>5. held' = [held EXCEPT ![s] = held[s] \cup X]
    BY <2>1, <2>4
  <2> QED
    BY <2>2, <2>3, <2>5
<1>10. CASE HeavyDrop(s) \/ Drain(s)
  BY <1>2, <1>10 DEF HeavyDrop, Drain
<1>11. CASE \/ HeavyReturn(s) \/ (\E t \in Slots : Interrupt(s, t))
            \/ LinkSkip(s) \/ LinkCas(s) \/ LinkRetry(s) \/ Count(s) \/ Traverse(s) \/ Dec(s)
            \/ \E t \in Slots : ScanSkip(s, t) \/ ScanMark(s, t) \/ ScanGiveUp(s, t) \/ LinkLoad(s, t)
            \/ Publish(s)
  BY <1>2, <1>11 DEF HeavyReturn, Interrupt, LinkSkip, LinkCas, LinkRetry, Count, Traverse, Dec, ScanSkip, ScanMark,
     ScanGiveUp, LinkLoad, Publish
<1>12. CASE Reclaim(s) \/ ReclaimCall(s) \/ Dealloc(s) \/ ReclaimReturn(s) \/ Flush(s) \/ Reserve(s)
  BY <1>2, <1>12 DEF Reclaim, ReclaimCall, Dealloc, ReclaimReturn, Flush, Reserve
<1>13. CASE \E c \in Cells : Protect(s, c) \/ \E n \in Objects \cup {NULL} : Swap(s, c, n)
  BY <1>6, <1>7, <1>8, <1>13
<1>14. CASE \E o \in Objects : AddBatch(s, o)
  BY <1>6, <1>9, <1>14
<1> QED
  BY <1>3, <1>4, <1>5, <1>10, <1>11, <1>12, <1>13, <1>14 DEF CollectorStep, Plain, Return

-----------------------------------------------------------------------------
(* The position of the sweep. *)

\* In free_batch, a slot reclaims, calls a reclaimer or deallocates, but a batch
\* that was swept is deallocated by the sweep.
LEMMA FreeOnly ==
  ASSUME NEW s \in Slots, CollectorStep(s), ~Drain(s), pc[s] = "free"
  PROVE  Reclaim(s) \/ ReclaimCall(s) \/ (~SweepFreed(s) /\ Dealloc(s))
  BY DEF CollectorStep, Plain, HeavyDrop, AddBatch, Add, HeavyReturn, Interrupt, ScanSkip, ScanMark,
     ScanGiveUp, LinkLoad, Publish, LinkSkip, LinkCas, LinkRetry, Count, Traverse, Dec, Return, ReclaimReturn, Enter, Leave,
     Refresh, Flush, Reserve, Protect, Swap

\* A stack of calls grows when a reclaimer is called, and shrinks when it returns.
LEMMA StackMoves ==
  ASSUME NEW s \in Slots, CollectorStep(s)
  PROVE  UNCHANGED stack \/ ReclaimCall(s) \/ Return(s)
<1> USE DEF callVars
<1>1. CASE HeavyDrop(s) \/ Drain(s) \/ \E o \in Objects : AddBatch(s, o)
  BY <1>1 DEF HeavyDrop, Drain, AddBatch, Add
<1>2. CASE \/ HeavyReturn(s) \/ (\E t \in Slots : Interrupt(s, t))
           \/ LinkSkip(s) \/ LinkCas(s) \/ LinkRetry(s) \/ Count(s) \/ Traverse(s) \/ Dec(s)
           \/ \E t \in Slots : ScanSkip(s, t) \/ ScanMark(s, t) \/ ScanGiveUp(s, t) \/ LinkLoad(s, t)
           \/ Publish(s) \/ Reclaim(s) \/ Dealloc(s)
  BY <1>2 DEF HeavyReturn, Interrupt, LinkSkip, LinkCas, LinkRetry, LinkNext, Count, Traverse, Dec, ScanSkip, ScanMark,
     ScanGiveUp, LinkLoad, Publish, Reclaim, Dealloc
<1>3. CASE \/ Enter(s) \/ Leave(s) \/ Refresh(s) \/ Flush(s) \/ Reserve(s)
           \/ \E c \in Cells : Protect(s, c) \/ \E n \in Objects \cup {NULL} : Swap(s, c, n)
  BY <1>3 DEF Enter, Leave, LeaveReservation, Refresh, TraverseFrom, Flush, Reserve, Protect, Swap
<1> QED
  BY <1>1, <1>2, <1>3 DEF CollectorStep, Plain

\* The sweeper's own steps: it leaves a reclaimer as it called it, without guards,
\* and finds the other slots idle.
LEMMA SweeperMoves ==
  ASSUME SweepInv, NEW s \in Slots, CollectorStep(s), ~Drain(s), sweep = s
  PROVE  /\ stack'[s] = <<>> => Alone(s)'
         /\ stack'[s] # <<>> => stack'[s][1].base = 0 /\ stack'[s][1].list = <<>>
<1>0. /\ SweepType /\ H!TypeOK /\ H!Step(s) /\ pc[s] # "sweep"
      /\ stack[s] \in Seq(Frames) /\ Len(stack[s]) \in Nat
  <2>1. /\ SweepType /\ H!TypeOK /\ H!Step(s) /\ pc[s] # "sweep"
    BY PcMoves, CollectorSteps DEF SweepInv, H!KInv, H!GInv, H!SInv
  <2>2. stack[s] \in Seq(Frames)
    BY <2>1 DEF H!TypeOK, H!Frames, Frames, H!Lists, Lists
  <2> QED
    BY <2>1, <2>2
<1>1. ASSUME \A t \in Slots \ {s} : Idle(t) PROVE \A t \in Slots \ {s} : Idle(t)'
  <2>1. \A t \in Slots \ {s} : pc'[t] = pc[t]
    BY <1>0, PcMoves DEF SweepType
  <2>2. \A t \in Slots \ {s} : stack'[t] = stack[t] /\ guards'[t] = guards[t]
    BY <1>0, GraceOthers DEF SweepInv, H!Apart
  <2> QED
    BY <1>1, <2>1, <2>2 DEF Idle
<1>2. ASSUME ReclaimCall(s)
      PROVE  /\ stack'[s] # <<>>
             /\ stack[s] # <<>> => stack'[s][1] = stack[s][1]
             /\ stack[s] = <<>> => stack'[s][1].base = guards[s] /\ stack'[s][1].list = list[s]
  <2>1. PICK f : f = [batch |-> cur[s], idx |-> idx[s] + 1, list |-> list[s], base |-> guards[s]]
    OBVIOUS
  <2>2. f \in Frames /\ f.base = guards[s] /\ f.list = list[s]
    <3>1. pcBar[s] = "free"
      BY <1>2, PcOf DEF ReclaimCall
    <3>2. cur[s] \in Batches
      BY <3>1 DEF SweepInv, H!KInv, H!GInv, H!SInv, H!Control
    <3>3. idx[s] \in Nat /\ list[s] \in Lists /\ guards[s] \in Nat
      BY <1>0 DEF H!TypeOK, H!Lists, Lists
    <3> QED
      BY <2>1, <3>2, <3>3 DEF Frames
  <2>3. stack'[s] = Append(stack[s], f)
    BY <1>0, <1>2, <2>1 DEF ReclaimCall, H!TypeOK
  <2>4. PICK st \in Seq(Frames) : st = stack[s] /\ Len(st) \in Nat
    BY <1>0
  <2>5. Append(st, f) # <<>> /\ Append(st, f)[Len(st) + 1] = f
    BY <2>2
  <2>6. st # <<>> => Append(st, f)[1] = st[1]
    <3>1. ASSUME st # <<>> PROVE 1 \in 1 .. Len(st)
      BY <2>4, <3>1
    <3> QED
      BY <2>2, <3>1
  <2>7. st = <<>> => Append(st, f)[1] = f
    BY <2>2, <2>5
  <2> QED
    BY <2>2, <2>3, <2>4, <2>5, <2>6, <2>7
<1>3. CASE stack[s] = <<>>
  <2>1. Alone(s) /\ pc[s] = "free"
    BY <1>0, <1>3 DEF SweepInv, Position, Alone
  <2>2. Reclaim(s) \/ ReclaimCall(s) \/ (~SweepFreed(s) /\ Dealloc(s))
    BY <2>1, FreeOnly
  <2>3. CASE Reclaim(s)
    <3>1. UNCHANGED <<pc, list, guards, stack>>
      BY <2>3 DEF Reclaim, resvVars
    <3> QED
      BY <1>1, <1>3, <2>1, <3>1 DEF Alone
  <2>4. CASE ReclaimCall(s)
    BY <1>2, <1>3, <2>1, <2>4 DEF Alone
  <2>5. ~(~SweepFreed(s) /\ Dealloc(s))
    BY <1>3, <2>1 DEF SweepFreed, Dealloc
  <2> QED
    BY <2>2, <2>3, <2>4, <2>5
<1>4. CASE stack[s] # <<>>
  <2>1. stack[s][1].base = 0 /\ stack[s][1].list = <<>>
    BY <1>4 DEF SweepInv, Position
  <2>2. CASE UNCHANGED stack
    BY <1>4, <2>1, <2>2
  <2>3. CASE ReclaimCall(s)
    BY <1>2, <1>4, <2>1, <2>3
  <2>4. CASE Return(s)
    <3>1. /\ pc[s] = "user" /\ guards[s] = Base(s) /\ guards' = guards
          /\ stack' = [stack EXCEPT ![s] = SubSeq(@, 1, Len(@) - 1)]
          /\ list' = [list EXCEPT ![s] = stack[s][Len(stack[s])].list]
          /\ pc' = [pc EXCEPT ![s] = "free"]
      BY <2>4 DEF Return, ReclaimReturn, resvVars
    <3>2. PICK n \in Nat : n = Len(stack[s]) - 1
      <4>1. PICK m \in Nat : m = Len(stack[s]) /\ m # 0
        BY <1>0, <1>4
      <4>2. m - 1 \in Nat
        BY <4>1
      <4> QED
        BY <4>1, <4>2
    <3>3. stack'[s] = SubSeq(stack[s], 1, n)
      BY <1>0, <3>1, <3>2 DEF H!TypeOK
    <3>4. CASE n = 0
      <4>1. Len(stack[s]) = 1
        BY <1>0, <3>2, <3>4
      <4>2. guards'[s] = 0 /\ list'[s] = <<>> /\ pc'[s] = "free"
        BY <1>0, <1>4, <2>1, <3>1, <4>1 DEF Base, H!TypeOK, SweepType
      <4>3. \A t \in Slots \ {s} : Idle(t)
        BY <2>4, <4>1 DEF Return
      <4>4. stack'[s] = <<>>
        BY <1>0, <3>3, <3>4
      <4> QED
        BY <1>1, <4>2, <4>3, <4>4 DEF Alone
    <3>5. CASE n # 0
      <4>1. PICK st \in Seq(Frames) : st = stack[s]
        BY <1>0
      <4>2. 1 \in 1 .. n /\ SubSeq(st, 1, n) # <<>> /\ SubSeq(st, 1, n)[1] = st[1]
        <5>1. Len(SubSeq(st, 1, n)) = n /\ \A i \in 1 .. n : SubSeq(st, 1, n)[i] = st[i]
          BY <3>2, <4>1, H!StackFront, SameConstants DEF H!Frames, Frames, H!Lists, Lists
        <5>2. 1 \in 1 .. n
          BY <3>5
        <5>3. Len(<<>>) = 0
          OBVIOUS
        <5> QED
          BY <3>5, <5>1, <5>2, <5>3
      <4> QED
        BY <2>1, <3>3, <4>1, <4>2
    <3> QED
      BY <3>4, <3>5
  <2> QED
    BY <2>2, <2>3, <2>4, StackMoves
<1> QED
  BY <1>3, <1>4

\* No step of the collector moves the sweep.
LEMMA CollectorPosition ==
  ASSUME SweepInv, NEW s \in Slots, CollectorStep(s), MayRun(s) \/ Drain(s)
  PROVE  Position'
<1>0. SweepType /\ Position /\ H!Step(s) /\ UNCHANGED <<sweep, left, at, before, early>>
  BY CollectorSteps DEF SweepInv
<1>1. \A t \in Slots : batch'[t] = DROP <=> t = at
  <2>1. \A t \in Slots : batch'[t] = DROP <=> batch[t] = DROP
    BY <1>0, BatchMoves, DropAssumption DEF SweepType
  <2> QED
    BY <1>0, <2>1 DEF Position
<1>2. CASE Drain(s)
  <2>1. UNCHANGED <<pc, stack, guards, list>>
    BY <1>2 DEF Drain, callVars
  <2> QED
    BY <1>0, <1>1, <2>1 DEF Position, Alone, Idle
<1>3. CASE ~Drain(s)
  <2>1. pc[s] # "sweep" /\ pc'[s] # "sweep" /\ \A t \in Slots \ {s} : pc'[t] = pc[t]
    BY <1>0, <1>3, PcMoves DEF SweepType
  <2>2. \A t \in Slots \ {s} : stack'[t] = stack[t]
    BY <1>0, GraceOthers DEF SweepInv, H!Apart
  <2>3. \A t \in Slots : pc'[t] = "sweep" => sweep = t /\ stack'[t] = <<>>
    BY <1>0, <2>1, <2>2 DEF Position
  <2>4. ASSUME NEW t \in Slots, sweep = t
        PROVE  /\ stack'[t] = <<>> => Alone(t)'
               /\ stack'[t] # <<>> => stack'[t][1].base = 0 /\ stack'[t][1].list = <<>>
               /\ pc'[t] = "sweep" <=> at = NULL
    <3>1. CASE t = s
      BY <1>0, <1>3, <2>1, <2>4, <3>1, SweeperMoves DEF Position
    <3>2. CASE t # s
      <4>1. stack[t] # <<>>
        BY <1>3, <2>4, <3>2, NullAssumption DEF MayRun
      <4> QED
        BY <1>0, <2>1, <2>2, <2>4, <3>2, <4>1 DEF Position
    <3> QED
      BY <3>1, <3>2
  <2> QED
    BY <1>0, <1>1, <2>3, <2>4 DEF Position
<1> QED
  BY <1>2, <1>3

\* A step of the collector preserves the invariant of the sweep.
LEMMA CollectorInv ==
  ASSUME SweepInv, NEW s \in Slots, CollectorStep(s), MayRun(s) \/ Drain(s)
  PROVE  SweepType' /\ Position' /\ HeldInv' /\ BeforeInv'
<1>0. /\ SweepType /\ Position /\ HeldInv /\ BeforeInv /\ H!KInv /\ H!Step(s)
      /\ UNCHANGED <<sweep, left, at, before, early>>
  BY CollectorSteps DEF SweepInv
<1>1. SweepType'
  <2>1. pc' \in [Slots -> States]
    BY <1>0, PcMoves DEF SweepType
  <2>2. batch' \in [Slots -> Batches \cup {NULL, DROP}]
    BY <1>0, BatchMoves DEF SweepType
  <2> QED
    BY <1>0, <2>1, <2>2, HeldMoves DEF SweepType
<1>2. Position'
  BY CollectorPosition
<1>3. /\ \A o \in early : obj[o] = "reclaimed" => obj'[o] = "reclaimed"
      /\ \A o \in before : /\ obj[o] = "reclaimed" => obj'[o] = "reclaimed"
                           /\ obj[o] = "retired" => obj'[o] \in {"retired", "reclaimed"}
  BY <1>0, GraceObjects DEF SweepType
<1>4. HeldInv'
  BY <1>0, <1>3, HeldMoves DEF HeldInv
<1>5. BeforeInv'
  <2>1. CASE sweep = NULL
    BY <1>0, <1>3, <2>1 DEF BeforeInv
  <2>2. CASE sweep # NULL
    <3>1. \A o \in before : obj[o] \in {"retired", "reclaimed"} /\ o \in Objects
      BY <1>0, <2>2 DEF BeforeInv, SweepType
    <3>2. ASSUME NEW t \in Slots \ left, batch'[t] \in Batches, NEW o \in before,
                 o \in Elems(entries'[batch'[t]])
          PROVE  FALSE
      <4>1. batch[t] \in Batches /\ o \in Elems(entries[batch[t]])
        BY <3>1, <3>2, BatchMoves
      <4> QED
        BY <1>0, <2>2, <4>1 DEF BeforeInv
    <3>3. \A t \in Slots \ left : batch'[t] \in Batches => Elems(entries'[batch'[t]]) \cap before = {}
      BY <3>2
    <3>4. \A o \in before : obj'[o] \in {"retired", "reclaimed"}
      BY <1>3, <3>1
    <3> QED
      BY <1>0, <2>2, <3>3, <3>4 DEF BeforeInv, Elems
  <2> QED
    BY <2>1, <2>2
<1> QED
  BY <1>1, <1>2, <1>4, <1>5

-----------------------------------------------------------------------------
(* The steps of the sweep. *)

\* reclaim_all starts in a quiet collector, and takes note of what is retired.
LEMMA StartInv ==
  ASSUME SweepInv, NEW s \in Slots, NEW drop \in BOOLEAN, SweepStart(s, drop)
  PROVE  SweepType' /\ Position' /\ HeldInv' /\ BeforeInv'
<1> USE DEF resvVars, batchVars, retireVars, clientVars
<1>0. SweepType /\ Position /\ HeldInv /\ s # NULL
  BY NullAssumption DEF SweepInv
<1>1. /\ sweep = NULL /\ at = NULL /\ sweep' = s /\ left' = Slots /\ at' = NULL /\ early' = {}
      /\ before' = {o \in Objects : obj[o] = "retired"}
      /\ UNCHANGED <<obj, held, guards, batch, stack, list>>
      /\ \A t \in Slots : Idle(t)
  BY <1>0 DEF SweepStart, Position
<1>2. \A t \in Slots : pc'[t] = IF t = s THEN "sweep" ELSE "user"
  BY <1>0, <1>1 DEF SweepStart, SweepType, Idle
<1>3. SweepType'
  BY <1>0, <1>1 DEF SweepStart, SweepType, States
<1>4. list[s] = <<>>
  <2>1. pcBar[s] = "user"
    BY <1>1 DEF Idle, pcBar
  <2> QED
    BY <2>1 DEF SweepInv, H!KInv, H!GInv, H!SInv, H!Control
<1>5. Position'
  <2>1. Alone(s)'
    BY <1>1, <1>2, <1>4 DEF Alone, Idle
  <2> QED
    BY <1>0, <1>1, <1>2, <2>1 DEF Position, Idle
<1>6. HeldInv' /\ BeforeInv'
  BY <1>0, <1>1 DEF HeldInv, BeforeInv
<1> QED
  BY <1>3, <1>5, <1>6

\* A slot without a batch is skipped.
LEMMA SkipInv ==
  ASSUME SweepInv, NEW s \in Slots, NEW t \in Slots, SweepSkip(s, t)
  PROVE  SweepType' /\ Position' /\ HeldInv' /\ BeforeInv'
<1> USE DEF vars, resvVars, batchVars, retireVars, callVars, clientVars, historyVars
<1>0. SweepType /\ Position /\ HeldInv /\ BeforeInv
  BY DEF SweepInv
<1>1. /\ UNCHANGED <<sweep, at, before, early, obj, held, guards, batch, entries, stack, list, pc>>
      /\ left' = left \ {t} /\ batch[t] = NULL
  BY DEF SweepSkip
<1>2. SweepType' /\ Position' /\ HeldInv'
  BY <1>0, <1>1 DEF SweepType, Position, Alone, Idle, HeldInv
<1>3. BeforeInv'
  BY <1>0, <1>1, NullAssumption DEF BeforeInv
<1> QED
  BY <1>2, <1>3

\* A batch that the sweep takes is no slot's any more, and the slot is marked.
LEMMA TakeInv ==
  ASSUME SweepInv, NEW s \in Slots, NEW t \in Slots, SweepBatch(s, t)
  PROVE  SweepType' /\ Position' /\ HeldInv' /\ BeforeInv'
<1> USE DEF resvVars, retireVars, clientVars, historyVars
<1>0. SweepType /\ Position /\ HeldInv /\ BeforeInv /\ pc[s] = "sweep" /\ t # NULL
  BY NullAssumption DEF SweepInv, SweepBatch
<1>1. /\ UNCHANGED <<sweep, before, early, obj, held, guards, entries, stack, list>>
      /\ left' = left \ {t} /\ at' = t
      /\ \A u \in Slots : pc'[u] = IF u = s THEN "free" ELSE pc[u]
      /\ \A u \in Slots : batch'[u] = IF u = t THEN DROP ELSE batch[u]
  BY <1>0 DEF SweepBatch, SweepType
<1>2. sweep = s /\ (\A u \in Slots : batch[u] # DROP) /\ stack[s] = <<>> /\ Alone(s)
  BY <1>0, InLoop DEF Position
<1>3. SweepType'
  BY <1>0 DEF SweepBatch, SweepType, States
<1>4. Position'
  <2>1. Alone(s)' /\ stack'[s] = <<>>
    BY <1>1, <1>2 DEF Alone, Idle
  <2>2. \A u \in Slots : pc'[u] # "sweep"
    BY <1>1, <1>2 DEF Alone, Idle
  <2> QED
    BY <1>0, <1>1, <1>2, <2>1, <2>2 DEF Position
<1>5. HeldInv'
  BY <1>0, <1>1 DEF HeldInv
<1>6. BeforeInv'
  BY <1>0, <1>1, <1>2, DropAssumption DEF BeforeInv
<1> QED
  BY <1>3, <1>4, <1>5, <1>6

\* When the batch is freed, its slot has none.
LEMMA FreedInv ==
  ASSUME SweepInv, NEW s \in Slots, SweepNext(s)
  PROVE  SweepType' /\ Position' /\ HeldInv' /\ BeforeInv'
<1> USE DEF resvVars, retireVars, clientVars, historyVars
<1>0. SweepType /\ Position /\ HeldInv /\ BeforeInv /\ H!TypeOK
  BY DEF SweepInv, H!KInv, H!GInv, H!SInv
<1>1. at \in Slots /\ stack[s] = <<>> /\ Alone(s) /\ sweep = s
  BY SweepNextStep DEF SweepNext, SweepFreed
<1>2. /\ UNCHANGED <<sweep, left, before, early, obj, held, guards, stack, list>>
      /\ at' = NULL
      /\ \A u \in Slots : pc'[u] = IF u = s THEN "sweep" ELSE pc[u]
      /\ \A u \in Slots : batch'[u] = IF u = at THEN NULL ELSE batch[u]
      /\ entries' = [entries EXCEPT ![cur[s]] = <<>>]
  BY <1>0 DEF SweepNext, FreeSwept, SweepType
<1>3. SweepType'
  BY <1>0, <1>1 DEF SweepNext, FreeSwept, SweepType, States
<1>4. Position'
  <2>1. Alone(s)' /\ stack'[s] = <<>>
    BY <1>1, <1>2 DEF Alone, Idle
  <2>2. \A u \in Slots \ {s} : pc'[u] # "sweep"
    BY <1>1, <1>2 DEF Alone, Idle
  <2>3. \A u \in Slots : batch'[u] # DROP /\ u # NULL
    BY <1>0, <1>2, DropAssumption, NullAssumption DEF Position
  <2>4. s # NULL
    BY NullAssumption
  <2> QED
    BY <1>1, <1>2, <2>1, <2>2, <2>3, <2>4 DEF Position
<1>5. HeldInv'
  BY <1>0, <1>2 DEF HeldInv
<1>6. BeforeInv'
  <2>1. \A b \in Batches : entries'[b] = entries[b] \/ entries'[b] = <<>>
    BY <1>0, <1>2 DEF H!TypeOK
  <2>2. Elems(<<>>) = {}
    BY DEF Elems
  <2>3. s # NULL
    BY NullAssumption
  <2>4. ASSUME NEW u \in Slots \ left, batch'[u] \in Batches
        PROVE  Elems(entries'[batch'[u]]) \cap before = {}
    <3>1. batch'[u] = batch[u]
      BY <1>2, <2>4, NullAssumption
    <3>2. Elems(entries[batch[u]]) \cap before = {}
      BY <1>0, <1>1, <2>3, <2>4, <3>1 DEF BeforeInv
    <3>3. entries'[batch'[u]] = entries[batch[u]] \/ entries'[batch'[u]] = <<>>
      BY <2>1, <2>4, <3>1
    <3> QED
      BY <2>2, <3>2, <3>3
  <2> QED
    BY <1>0, <1>1, <1>2, <2>3, <2>4 DEF BeforeInv, Elems
<1> QED
  BY <1>3, <1>4, <1>5, <1>6

\* When every slot has been visited, what was retired before is reclaimed: the
\* collector is quiet, and an object not reclaimed would be in a local batch.
LEMMA EndInv ==
  ASSUME SweepInv, NEW s \in Slots, SweepEnd(s)
  PROVE  SweepType' /\ Position' /\ HeldInv' /\ BeforeInv'
<1> USE DEF resvVars, batchVars, retireVars, clientVars, historyVars
<1>0. SweepType /\ Position /\ HeldInv /\ BeforeInv /\ pc[s] = "sweep" /\ s # NULL
  BY NullAssumption DEF SweepInv, SweepEnd
<1>1. /\ UNCHANGED <<left, at, before, early, obj, held, guards, batch, entries, stack, list>>
      /\ sweep' = NULL /\ left = {}
      /\ \A u \in Slots : pc'[u] = IF u = s THEN "user" ELSE pc[u]
  BY <1>0 DEF SweepEnd, SweepType
<1>2. /\ sweep = s /\ at = NULL /\ \A t \in Slots : batch[t] # DROP
      /\ \A t \in Slots : pcBar[t] = "user" /\ stack[t] = <<>> /\ guards[t] = 0 /\ held[t] = {}
  BY <1>0, InLoop
<1>3. SweepType'
  BY <1>0 DEF SweepEnd, SweepType, States
<1>4. Position'
  <2>1. \A u \in Slots : pc'[u] # "sweep"
    BY <1>0, <1>1, <1>2 DEF Position
  <2> QED
    BY <1>0, <1>1, <1>2, <2>1, NullAssumption DEF Position
<1>5. HeldInv'
  BY <1>0, <1>1, <1>2 DEF HeldInv
<1>6. BeforeInv'
  <2>1. ASSUME NEW o \in before, obj[o] = "retired" PROVE FALSE
    <3>1. H!NoLeakWhenQuiescent
      BY GraceResults DEF SweepInv
    <3>2. o \in Objects
      BY <1>0 DEF SweepType
    <3>3. PICK b \in alive : o \in H!Elems(entries[b]) /\ H!Owners(b) # {}
      BY <1>2, <2>1, <3>1, <3>2 DEF H!NoLeakWhenQuiescent
    <3>4. b \in Batches /\ o \in Elems(entries[b])
      BY <3>3 DEF SweepInv, H!KInv, H!GInv, H!SInv, H!TypeOK, H!Elems, Elems
    <3>5. PICK t \in Slots : batchBar[t] = b
      BY <3>3 DEF H!Owners
    <3>6. batch[t] = b
      BY <1>2, <3>5 DEF batchBar
    <3> QED
      BY <1>0, <1>1, <1>2, <3>4, <3>6 DEF BeforeInv
  <2>2. \A o \in before : obj[o] = "reclaimed"
    BY <1>0, <1>2, <2>1 DEF BeforeInv
  <2> QED
    BY <1>1, <2>2 DEF BeforeInv
<1> QED
  BY <1>3, <1>4, <1>5, <1>6

\* What is retired on a marked slot was not retired before, and the sweep goes on.
LEMMA AddDropInv ==
  ASSUME SweepInv, NEW s \in Slots, NEW o \in Objects, AddDrop(s, o)
  PROVE  SweepType' /\ Position' /\ HeldInv' /\ BeforeInv'
<1> USE DEF sweepVars, resvVars, batchVars, retireVars, callVars
<1>0. /\ SweepType /\ Position /\ HeldInv /\ BeforeInv /\ guards[s] \in Nat
      /\ obj \in [Objects -> {"fresh", "shared", "unlinked", "retired", "reclaimed"}]
  BY DEF SweepInv, H!KInv, H!GInv, H!SInv, H!TypeOK
<1>1. /\ UNCHANGED <<sweep, left, at, before, guards, batch, entries, stack, list, pc>>
      /\ early' = early \cup {o} /\ obj[o] \in {"fresh", "unlinked"} /\ batch[s] = DROP
      /\ \A p \in Objects : obj'[p] = IF p = o THEN "reclaimed" ELSE obj[p]
      /\ \A t \in Slots \ {s} : held'[t] = held[t]
      /\ held'[s] = IF guards[s] > Base(s) THEN held[s] \cup {o} ELSE held[s]
  BY <1>0 DEF AddDrop, SweepType
<1>2. sweep # NULL
  BY <1>0, <1>1, NullAssumption DEF Position
<1>3. SweepType'
  BY <1>0 DEF AddDrop, SweepType
<1>4. Position'
  BY <1>0, <1>1 DEF Position, Alone, Idle
<1>5. HeldInv'
  <2>1. Base(s) \in Nat
    <3>1. H!TypeOK
      BY DEF SweepInv, H!KInv, H!GInv, H!SInv
    <3>2. H!Base(s) \in Nat
      BY <3>1, H!BaseType, SameConstants
    <3> QED
      BY <3>2 DEF Base, H!Base
  <2>2. \A t \in Slots : held'[t] # {} => guards'[t] > 0
    BY <1>0, <1>1, <2>1 DEF HeldInv
  <2>3. \A p \in early' : obj'[p] = "reclaimed"
    BY <1>0, <1>1 DEF HeldInv, SweepType
  <2> QED
    BY <1>1, <1>2, <2>2, <2>3 DEF HeldInv
<1>6. BeforeInv'
  BY <1>0, <1>1, <1>2 DEF BeforeInv, SweepType, Elems
<1> QED
  BY <1>3, <1>4, <1>5, <1>6

-----------------------------------------------------------------------------
(* The theorems. *)

\* A new collector satisfies the invariant.
LEMMA InitSweep == SweepInit => SweepInv
<1> SUFFICES ASSUME SweepInit PROVE SweepInv
  OBVIOUS
<1> USE DEF SweepInit, Init
<1>1. /\ pcBar = [s \in Slots |-> "user"] /\ batchBar = [s \in Slots |-> NULL]
      /\ heldBar = [s \in Slots |-> {}]
  BY DropAssumption DEF pcBar, batchBar, heldBar
<1>2. H!Init
  BY <1>1 DEF H!Init
<1>3. H!KInv
  BY <1>2, GraceInit
<1>4. SweepType
  BY DEF SweepType, States
<1>5. Position
  BY NullAssumption, DropAssumption DEF Position
<1>6. HeldInv /\ BeforeInv
  BY DEF HeldInv, BeforeInv
<1> QED
  BY <1>3, <1>4, <1>5, <1>6 DEF SweepInv

\* Every step preserves it, of the collector or of the sweep.
LEMMA NextSweep == SweepInv /\ [\E s \in Slots : SweepStep(s)]_allVars => SweepInv'
<1> SUFFICES ASSUME SweepInv, [\E s \in Slots : SweepStep(s)]_allVars PROVE SweepInv'
  OBVIOUS
<1>1. CASE UNCHANGED allVars
  <2>1. /\ UNCHANGED vars
        /\ UNCHANGED <<sweep, left, at, before, early>>
    BY <1>1 DEF allVars, sweepVars, historyVars
  <2>2. UNCHANGED H!vars
    BY <2>1, SameBars DEF vars, resvVars, batchVars, retireVars, callVars, clientVars,
       H!vars, H!resvVars, H!batchVars, H!retireVars, H!callVars, H!clientVars
  <2>3. H!KInv'
    BY <2>2, GraceNext DEF SweepInv
  <2>4. SweepType' /\ Position' /\ HeldInv' /\ BeforeInv'
    BY <2>1 DEF SweepInv, SweepType, Position, Alone, Idle, HeldInv, BeforeInv, Elems, vars, resvVars, batchVars,
       callVars, clientVars
  <2> QED
    BY <2>3, <2>4 DEF SweepInv
<1>2. ASSUME NEW s \in Slots, SweepStep(s) PROVE SweepInv'
  <2>1. H!KInv'
    BY <1>2, GraceStep
  <2>2. CASE Sweep(s)
    BY <2>1, <2>2, StartInv, SkipInv, TakeInv, FreedInv, EndInv DEF Sweep, SweepInv
  <2>3. ASSUME NEW o \in Objects, AddDrop(s, o) PROVE SweepInv'
    BY <2>1, <2>3, AddDropInv DEF SweepInv
  <2>4. CASE CollectorStep(s) /\ (MayRun(s) \/ Drain(s))
    BY <2>1, <2>4, CollectorInv DEF SweepInv
  <2> QED
    BY <1>2, <2>2, <2>3, <2>4 DEF SweepStep, CollectorStep
<1> QED
  BY <1>1, <1>2

\* The invariant holds in every reachable state, during a sweep and after it.
THEOREM SweepInvariant == SweepSpec => []SweepInv
  BY InitSweep, NextSweep, PTL DEF SweepSpec

\* Whatever the reclaimers of a sweep do, each batch is freed once, by the sweep
\* or by a traversal, when no one else can reach it.
THEOREM SweptOnce == SweepSpec => []FreeOnce
<1>1. SweepInv => FreeOnce
  <2> SUFFICES ASSUME SweepInv, NEW b \in Batches, Freeing(b) # {}
               PROVE  /\ Cardinality(Freeing(b)) = 1
                      /\ b \in alive
                      /\ Refs(b) \cup Owners(b) \cup Linkers(b) = {}
                      /\ \A f \in Freeing(b) : \A i \in 1 .. Len(entries[b]) :
                           i >= f[2] => obj[entries[b][i]] = "retired"
    BY DEF FreeOnce
  <2>1. H!FreeOnce
    BY GraceResults DEF SweepInv
  <2>2. \A r \in Slots : (pcBar[r] = "free" <=> pc[r] = "free")
    BY DEF pcBar
  <2>3. H!Freeing(b) = Freeing(b)
    BY <2>2 DEF H!Freeing, Freeing
  <2>4. H!Owners(b) = Owners(b)
    BY NullAssumption, DropAssumption DEF H!Owners, Owners, batchBar
  <2>5. H!Refs(b) = Refs(b) /\ H!Linkers(b) = Linkers(b)
    BY DEF H!Refs, Refs, H!Reach, Reach, H!Linked, Linked, H!Pending, Pending, H!Elems, Elems, H!ListsOf, ListsOf,
       H!Linkers, Linkers, H!Linking, Linking, pcBar
  <2> QED
    BY <2>1, <2>3, <2>4, <2>5, SameFinite DEF H!FreeOnce
<1> QED
  BY <1>1, SweepInvariant, PTL

\* After reclaim_all, everything retired before the call, on any slot, has been
\* reclaimed, although reclaimers publish and refill batches under the sweep.
THEOREM SweepReclaimsAll == SweepSpec => []RetiredBeforeReclaimed
<1>1. SweepInv => RetiredBeforeReclaimed
  BY DEF SweepInv, BeforeInv, RetiredBeforeReclaimed
<1> QED
  BY <1>1, SweepInvariant, PTL

\* No guard sees an object reclaimed, before, during or after a sweep, but for
\* what is retired on a slot while the sweep has marked it.
THEOREM SweepSparesGuards == SweepSpec => []GuardsOutliveSweep
<1>1. SweepInv => GuardsOutliveSweep
  <2> SUFFICES ASSUME SweepInv, NEW s \in Slots, NEW o \in held[s], obj[o] = "reclaimed"
               PROVE  sweep # NULL /\ o \in early
    BY DEF GuardsOutliveSweep
  <2>1. o \notin heldBar[s]
    BY DEF SweepInv, H!KInv, H!GInv, H!Grace
  <2>2. o \in early
    BY <2>1 DEF heldBar
  <2> QED
    BY <2>2 DEF SweepInv, HeldInv
<1> QED
  BY <1>1, SweepInvariant, PTL

\* When reclaim_all returns, no batch is left but the local ones.
THEOREM SweepLeaksNothing == SweepSpec => []NoLeakAfterSweep
<1>1. SweepInv => NoLeakAfterSweep
  <2> SUFFICES ASSUME SweepInv, \A s \in Slots : Idle(s), NEW b \in alive
               PROVE  Owners(b) # {}
    BY DEF NoLeakAfterSweep
  <2>1. \A s \in Slots : pcBar[s] = "user" /\ stack[s] = <<>> /\ guards[s] = 0
    BY DEF Idle, pcBar
  <2>2. H!Owners(b) # {} /\ b \in Batches
    BY <2>1, GraceResults DEF H!NoLeakWhenQuiescent, SweepInv, H!KInv, H!GInv, H!SInv, H!TypeOK
  <2> QED
    BY <2>2, NullAssumption DEF H!Owners, Owners, batchBar
<1> QED
  BY <1>1, SweepInvariant, PTL
-----------------------------------------------------------------------------
(* The collector with its sweep implements Sweeping. *)

\* What the users of the collector see of it, and of the sweep.
userVars == <<guards, cell, obj, held>>
callerVars == <<sweep, closing, gone, before>>

\* A guard that protects what its slot takes out of a cell or retires.
LEMMA HoldStep ==
  ASSUME SweepInv, NEW s \in Slots, NEW X,
         held' = [held EXCEPT ![s] = IF guards[s] > Base(s) THEN @ \cup X ELSE @]
  PROVE  Promise!MayHold(s, X)
<1>1. guards[s] \in Nat /\ Base(s) \in Nat
  <2>1. H!TypeOK
    BY DEF SweepInv, H!KInv, H!GInv, H!SInv
  <2>2. H!Base(s) \in Nat
    BY <2>1, H!BaseType, SameConstants
  <2> QED
    BY <2>1, <2>2 DEF H!TypeOK, Base, H!Base
<1>2. CASE guards[s] > Base(s)
  <2>1. guards[s] > 0
    BY <1>1, <1>2
  <2>2. held' = [held EXCEPT ![s] = @ \cup X]
    BY <1>2
  <2> QED
    BY <2>1, <2>2 DEF Promise!MayHold
<1>3. CASE ~(guards[s] > Base(s))
  BY <1>3 DEF Promise!MayHold, SweepInv, SweepType
<1> QED
  BY <1>2, <1>3

\* The uses of a guard, and the retirement of an object on a slot not marked, are
\* what they are without a sweep.
LEMMA UseStep ==
  ASSUME SweepInv, NEW s \in Slots,
         \/ Enter(s) \/ Leave(s) \/ Refresh(s)
         \/ \E c \in Cells : Protect(s, c) \/ \E n \in Objects \cup {NULL} : Swap(s, c, n)
         \/ \E o \in Objects : Add(s, o)
  PROVE  Promise!Use(s)
<1>0. guards[s] \in Nat /\ Base(s) \in Nat /\ held \in [Slots -> SUBSET Objects]
  <2>1. H!TypeOK
    BY DEF SweepInv, H!KInv, H!GInv, H!SInv
  <2>2. H!Base(s) \in Nat
    BY <2>1, H!BaseType, SameConstants
  <2> QED
    BY <2>1, <2>2 DEF H!TypeOK, Base, H!Base, SweepInv, SweepType
<1>1. CASE Enter(s)
  BY <1>1 DEF Enter, clientVars, Promise!Use, Promise!Enter
<1>2. CASE Leave(s)
  <2>1. guards[s] > 0 /\ guards' = [guards EXCEPT ![s] = @ - 1]
    BY <1>0, <1>2 DEF Leave
  <2>2. held' = [held EXCEPT ![s] = IF guards[s] = 1 THEN {} ELSE @] /\ UNCHANGED <<cell, obj>>
    BY <1>0, <1>2 DEF Leave, LeaveReservation, clientVars
  <2> QED
    BY <2>1, <2>2 DEF Promise!Use, Promise!Leave
<1>3. CASE Refresh(s)
  BY <1>3 DEF Refresh, Promise!Use, Promise!Refresh
<1>4. ASSUME NEW c \in Cells, Protect(s, c) PROVE Promise!Use(s)
  <2>1. Promise!Protect(s, c)
    BY <1>0, <1>4 DEF Protect, resvVars, Promise!Protect
  <2> QED
    BY <2>1 DEF Promise!Use
<1>5. ASSUME NEW c \in Cells, NEW n \in Objects \cup {NULL}, Swap(s, c, n) PROVE Promise!Use(s)
  <2>1. Promise!MayHold(s, {cell[c]} \ {NULL})
    BY <1>5, HoldStep DEF Swap
  <2>2. Promise!Swap(s, c, n)
    BY <1>5, <2>1 DEF Swap, resvVars, Promise!Swap
  <2> QED
    BY <2>2 DEF Promise!Use
<1>6. ASSUME NEW o \in Objects, Add(s, o) PROVE Promise!Use(s)
  <2>1. Promise!MayHold(s, {o})
    BY <1>6, HoldStep DEF Add
  <2>2. Promise!Retire(s, o)
    BY <1>6, <2>1 DEF Add, resvVars, Promise!Retire
  <2> QED
    BY <2>2 DEF Promise!Use
<1> QED
  BY <1>1, <1>2, <1>3, <1>4, <1>5, <1>6

\* A reclaimer that free_batch runs, in a sweep or not, finds its object retired
\* and held by no slot: what a guard still holds is not in a batch.
LEMMA ReclaimPromised ==
  ASSUME SweepInv, UNCHANGED early, NEW s \in Slots, Reclaim(s) \/ ReclaimCall(s)
  PROVE  \E o \in Objects : Promise!Reclaim(o)
<1> DEFINE o == entries[cur[s]][idx[s]]
<1>1. H!SInv /\ H!Cursors /\ H!Grace /\ HeldInv
  BY DEF SweepInv, H!KInv, H!GInv
<1>2. H!Reclaim(s) \/ H!ReclaimCall(s)
  BY ReclaimSteps
<1>3. /\ pcBar[s] = "free" /\ cur[s] \in Batches /\ idx[s] \in 1 .. Len(entries[cur[s]])
      /\ obj' = [obj EXCEPT ![o] = "reclaimed"]
  BY <1>1, <1>2, H!ReclaimEntry, SameConstants
<1>4. o \in Objects
  BY <1>1, <1>3 DEF H!SInv, H!TypeOK
<1>5. obj[o] = "retired"
  BY <1>1, <1>3 DEF H!Cursors, H!Waiting
<1>6. ASSUME NEW r \in Slots PROVE o \notin held[r]
  <2>1. o \notin heldBar[r]
    BY <1>1, <1>2, H!ReclaimNotHeld, SameConstants
  <2>2. o \notin early
    BY <1>1, <1>5 DEF HeldInv
  <2> QED
    BY <2>1, <2>2 DEF heldBar
<1>7. UNCHANGED <<guards, cell, held>>
  BY DEF Reclaim, ReclaimCall, resvVars
<1> HIDE DEF o
<1> QED
  BY <1>3, <1>4, <1>5, <1>6, <1>7 DEF Promise!Reclaim

\* The other steps inside the collector change nothing a user sees.
LEMMA HiddenPlain ==
  ASSUME NEW s \in Slots,
         \/ HeavyReturn(s) \/ Dealloc(s) \/ \E t \in Slots : Interrupt(s, t)
         \/ \E t \in Slots : ScanSkip(s, t) \/ ScanMark(s, t) \/ ScanGiveUp(s, t) \/ LinkLoad(s, t)
         \/ Publish(s) \/ LinkSkip(s) \/ LinkCas(s) \/ LinkRetry(s) \/ Count(s)
         \/ Traverse(s) \/ Dec(s) \/ Flush(s) \/ Reserve(s) \/ Return(s)
         \/ HeavyDrop(s) \/ Drain(s)
  PROVE  UNCHANGED userVars
<1> USE DEF userVars, resvVars, clientVars
<1>1. CASE Flush(s) \/ Reserve(s) \/ Return(s) \/ HeavyDrop(s) \/ Drain(s)
  BY <1>1 DEF Flush, Reserve, Return, ReclaimReturn, HeavyDrop, Drain
<1>2. CASE \/ HeavyReturn(s) \/ Dealloc(s) \/ \E t \in Slots : Interrupt(s, t)
           \/ Publish(s) \/ LinkSkip(s) \/ LinkCas(s) \/ LinkRetry(s) \/ Count(s)
           \/ Traverse(s) \/ Dec(s)
  BY <1>2 DEF HeavyReturn, Dealloc, Interrupt, Publish, LinkSkip, LinkCas, LinkRetry, Count, Traverse, Dec
<1>3. CASE \E t \in Slots : ScanSkip(s, t) \/ ScanMark(s, t) \/ ScanGiveUp(s, t) \/ LinkLoad(s, t)
  BY <1>3 DEF ScanSkip, ScanMark, ScanGiveUp, LinkLoad
<1> QED
  BY <1>1, <1>2, <1>3

\* A slot that may take a step may use the collector.
LEMMA RunStep ==
  ASSUME SweepInv, NEW s \in Slots, MayRun(s)
  PROVE  ~gone /\ Promise!MayUse(s)
  BY HelpersAssumption DEF MayRun, Promise!MayUse, SweepInv, SweepType

\* A step of the collector is one that Sweeping allows, during a sweep or not.
LEMMA CollectorPromised ==
  ASSUME SweepInv, NEW s \in Slots, MayRun(s),
         Plain(s) \/ HeavyDrop(s) \/ \E o \in Objects : AddBatch(s, o)
  PROVE  Promise!SweepingNext \/ UNCHANGED <<userVars, callerVars>>
<1>1. UNCHANGED <<callerVars, early>>
  BY DEF Plain, HeavyDrop, AddBatch, sweepVars, historyVars, callerVars
<1>2. UNCHANGED Promise!callVars
  BY <1>1 DEF callerVars, Promise!callVars
<1>3. ASSUME Promise!Use(s) PROVE Promise!SweepingNext
  BY <1>2, <1>3, RunStep DEF Promise!SweepingNext
<1>4. ASSUME Reclaim(s) \/ ReclaimCall(s) PROVE Promise!SweepingNext
  <2>1. PICK o \in Objects : Promise!Reclaim(o)
    BY <1>1, <1>4, ReclaimPromised
  <2> QED
    BY <1>2, <2>1, RunStep DEF Promise!SweepingNext
<1>5. ASSUME NEW o \in Objects, AddBatch(s, o) PROVE Promise!Use(s)
  BY <1>5, UseStep DEF AddBatch
<1>6. CASE HeavyDrop(s)
  BY <1>1, <1>6, HiddenPlain
<1>7. CASE Plain(s)
  <2>1. CASE Enter(s) \/ Leave(s) \/ Refresh(s)
             \/ \E c \in Cells : Protect(s, c) \/ \E n \in Objects \cup {NULL} : Swap(s, c, n)
    BY <1>3, <2>1, UseStep
  <2>2. CASE Reclaim(s) \/ ReclaimCall(s)
    BY <1>4, <2>2
  <2> QED
    BY <1>1, <1>7, <2>1, <2>2, HiddenPlain DEF Plain
<1> QED
  BY <1>3, <1>5, <1>6, <1>7

\* What is retired on a marked slot is reclaimed at once, by a reclaimer of the sweep.
LEMMA AddDropPromised ==
  ASSUME SweepInv, NEW s \in Slots, MayRun(s), NEW o \in Objects, AddDrop(s, o)
  PROVE  Promise!SweepingNext
<1>1. sweep # NULL
  BY NullAssumption DEF AddDrop, SweepInv, Position
<1>2. Promise!MayHold(s, {o})
  BY HoldStep DEF AddDrop
<1>3. Promise!RetireNow(s, o)
  BY <1>1, <1>2 DEF AddDrop, resvVars, Promise!RetireNow
<1>4. UNCHANGED Promise!callVars
  BY DEF AddDrop, sweepVars, Promise!callVars
<1> QED
  BY <1>3, <1>4, RunStep DEF Promise!SweepingNext

\* The steps of the sweep itself: only its call and its return are seen.  At its
\* return no guard is alive, and nothing retired before the call is left.
LEMMA SweepPromised ==
  ASSUME SweepInv, SweepInv', NEW s \in Slots, Sweep(s)
  PROVE  Promise!SweepingNext \/ UNCHANGED <<userVars, callerVars>>
<1> USE DEF userVars, callerVars, resvVars, clientVars, historyVars
<1>1. ASSUME NEW drop \in BOOLEAN, SweepStart(s, drop) PROVE Promise!SweepingNext
  <2>1. Promise!Begin(s, drop)
    BY <1>1 DEF SweepStart, Idle, Promise!Begin, Promise!NoGuards, Promise!vars
  <2> QED
    BY <2>1 DEF Promise!SweepingNext
<1>2. CASE \E t \in Slots : SweepSkip(s, t) \/ SweepBatch(s, t)
  BY <1>2 DEF SweepSkip, SweepBatch, vars
<1>3. CASE SweepNext(s)
  BY <1>3 DEF SweepNext
<1>4. CASE SweepEnd(s)
  <2>1. sweep = s /\ s # NULL /\ \A t \in Slots : guards[t] = 0
    BY <1>4, InLoop, NullAssumption DEF SweepEnd
  <2>2. sweep' = NULL /\ gone' = closing /\ UNCHANGED <<closing, before, userVars>>
    BY <1>4 DEF SweepEnd
  <2>3. \A o \in before : obj[o] = "reclaimed"
    BY <2>2 DEF SweepInv, BeforeInv
  <2>4. Promise!End
    BY <2>1, <2>2, <2>3 DEF Promise!End, Promise!NoGuards, Promise!vars
  <2> QED
    BY <2>4 DEF Promise!SweepingNext
<1> QED
  BY <1>1, <1>2, <1>3, <1>4 DEF Sweep

\* A new collector is one of Sweeping.
LEMMA InitPromised == SweepInit => Promise!SweepingInit
  BY DEF SweepInit, Init, Promise!SweepingInit, Promise!Init

\* Every step of the collector and of its sweep is one that Sweeping allows.
LEMMA NextPromised ==
  SweepInv /\ SweepInv' /\ [\E s \in Slots : SweepStep(s)]_allVars
    => [Promise!SweepingNext]_(<<Promise!vars, Promise!callVars>>)
<1> SUFFICES ASSUME SweepInv, SweepInv', [\E s \in Slots : SweepStep(s)]_allVars
             PROVE  Promise!SweepingNext \/ UNCHANGED <<userVars, callerVars>>
  BY DEF userVars, callerVars, Promise!vars, Promise!callVars
<1>1. CASE UNCHANGED allVars
  BY <1>1 DEF allVars, vars, resvVars, clientVars, sweepVars, historyVars, userVars, callerVars
<1>2. ASSUME NEW s \in Slots, SweepStep(s)
      PROVE  Promise!SweepingNext \/ UNCHANGED <<userVars, callerVars>>
  <2>1. CASE Drain(s) /\ UNCHANGED <<sweepVars, historyVars>>
    BY <2>1, HiddenPlain DEF sweepVars, historyVars, callerVars
  <2> QED
    BY <1>2, <2>1, SweepPromised, CollectorPromised, AddDropPromised DEF SweepStep
<1> QED
  BY <1>1, <1>2

\* raw::Collector with reclaim_all and Drop, its batches, marks and iterator, any
\* number of slots and reclaimers that use the collector under the sweep,
\* implements what they promise: objects are reclaimed once, not under a guard
\* that protects them, and a call leaves nothing that was retired before it.
THEOREM SweepImplementation == SweepSpec => ImplementsSweeping
  BY InitPromised, NextPromised, SweepInvariant, PTL
  DEF SweepSpec, ImplementsSweeping, Promise!SweepingSpec
=============================================================================
