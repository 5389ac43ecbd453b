-------------------------- MODULE HyalineStructure --------------------------
(***************************************************************************)
(* Type correctness of Hyaline, for every value of its constants, after     *)
(* what its operations on reservation lists and call stacks do to the sets  *)
(* of batches in them.  Then, who owns and who refers to a batch, and what  *)
(* its count says about them: the structural part of the invariant.         *)
(***************************************************************************)
EXTENDS HyalineInv, TLAPS, FiniteSetTheorems

USE DEF Lists

\* A list is not INACTIVE, and the empty list is a list.
LEMMA ListIsActive == <<>> \in Lists /\ \A q \in Lists : q # INACTIVE
<1>1. <<>> \in Lists
  OBVIOUS
<1>2. ASSUME NEW q \in Lists PROVE q # INACTIVE
  BY InactiveAssumption
<1> QED
  BY <1>1, <1>2

\* An empty list holds nothing.
LEMMA ElemsEmpty == Elems(<<>>) = {} /\ NoDup(<<>>)
  BY DEF Elems, NoDup

\* Linking an entry adds its batch to the list.
LEMMA ElemsCons ==
  ASSUME NEW q \in Lists, NEW x \in Batches
  PROVE  /\ <<x>> \o q \in Lists
         /\ Elems(<<x>> \o q) = {x} \cup Elems(q)
         /\ NoDup(q) /\ x \notin Elems(q) => NoDup(<<x>> \o q)
<1> DEFINE p == <<x>> \o q
<1>1. /\ p \in Lists /\ Len(p) = Len(q) + 1 /\ Len(q) \in Nat
      /\ p[1] = x
      /\ \A i \in 1 .. Len(q) : p[i + 1] = q[i]
  OBVIOUS
<1> HIDE DEF p
<1>2. \A i \in 1 .. Len(p) : i = 1 \/ (i - 1 \in 1 .. Len(q) /\ p[i] = q[i - 1])
  BY <1>1
<1>3. Elems(p) = {x} \cup Elems(q)
  <2>1. ASSUME NEW y \in Elems(p) PROVE y \in {x} \cup Elems(q)
    BY <1>1, <1>2, <2>1 DEF Elems
  <2>2. x \in Elems(p)
    BY <1>1 DEF Elems
  <2>3. ASSUME NEW y \in Elems(q) PROVE y \in Elems(p)
    <3>1. PICK i \in 1 .. Len(q) : y = q[i]
      BY <2>3 DEF Elems
    <3>2. i + 1 \in 1 .. Len(p) /\ p[i + 1] = y
      BY <1>1, <3>1
    <3> QED
      BY <3>2 DEF Elems
  <2> QED
    BY <2>1, <2>2, <2>3
<1>4. ASSUME NoDup(q), x \notin Elems(q) PROVE NoDup(p)
  <2> SUFFICES ASSUME NEW i \in 1 .. Len(p), NEW j \in 1 .. Len(p), p[i] = p[j] PROVE i = j
    BY DEF NoDup
  <2>1. \A k \in 1 .. Len(q) : q[k] # x
    BY <1>4 DEF Elems
  <2>2. CASE i = 1 \/ j = 1
    BY <1>1, <1>2, <2>1, <2>2
  <2>3. CASE i # 1 /\ j # 1
    <3>1. /\ i - 1 \in 1 .. Len(q) /\ j - 1 \in 1 .. Len(q)
          /\ q[i - 1] = q[j - 1]
      BY <1>2, <2>3
    <3>2. i - 1 = j - 1
      BY <1>4, <3>1 DEF NoDup
    <3> QED
      BY <1>1, <3>2
  <2> QED
    BY <2>2, <2>3
<1> QED
  BY <1>1, <1>3, <1>4 DEF p

\* Advancing the cursor of a traversal takes one batch out of the list.
LEMMA ElemsTail ==
  ASSUME NEW q \in Lists, q # <<>>, NoDup(q)
  PROVE  /\ Head(q) \in Elems(q)
         /\ Elems(Tail(q)) = Elems(q) \ {Head(q)}
         /\ NoDup(Tail(q))
<1> DEFINE p == Tail(q)
<1>1. /\ p \in Lists /\ Len(p) = Len(q) - 1 /\ Len(q) \in Nat /\ Len(q) > 0
      /\ Head(q) = q[1]
      /\ \A i \in 1 .. Len(p) : p[i] = q[i + 1]
  OBVIOUS
<1> HIDE DEF p
<1>2. Head(q) \in Elems(q)
  BY <1>1 DEF Elems
<1>3. Elems(p) = Elems(q) \ {Head(q)}
  <2>1. ASSUME NEW y \in Elems(p) PROVE y \in Elems(q) \ {Head(q)}
    <3>1. PICK i \in 1 .. Len(p) : y = p[i]
      BY <2>1 DEF Elems
    <3>2. i + 1 \in 1 .. Len(q) /\ y = q[i + 1] /\ i + 1 # 1 /\ 1 \in 1 .. Len(q)
      BY <1>1, <3>1
    <3>3. y # q[1]
      BY <3>2 DEF NoDup
    <3> QED
      BY <1>1, <3>2, <3>3 DEF Elems
  <2>2. ASSUME NEW y \in Elems(q), y # Head(q) PROVE y \in Elems(p)
    <3>1. PICK i \in 1 .. Len(q) : y = q[i]
      BY <2>2 DEF Elems
    <3>2. i - 1 \in 1 .. Len(p) /\ y = p[i - 1]
      BY <1>1, <2>2, <3>1
    <3> QED
      BY <3>2 DEF Elems
  <2> QED
    BY <2>1, <2>2
<1>4. NoDup(p)
  <2> SUFFICES ASSUME NEW i \in 1 .. Len(p), NEW j \in 1 .. Len(p), p[i] = p[j] PROVE i = j
    BY DEF NoDup
  <2>1. /\ i + 1 \in 1 .. Len(q) /\ j + 1 \in 1 .. Len(q)
        /\ q[i + 1] = q[j + 1]
    BY <1>1
  <2>2. i + 1 = j + 1
    BY <2>1 DEF NoDup
  <2> QED
    BY <1>1, <2>2
<1> QED
  BY <1>2, <1>3, <1>4 DEF p

\* An empty stack suspends nothing.
LEMMA FramesEmpty == ListsOf(<<>>) = {} /\ BatchesOf(<<>>) = {} /\ DistinctFrames(<<>>)
  BY DEF ListsOf, BatchesOf, DistinctFrames

\* Calling a reclaimer suspends one more free_batch and traversal.
LEMMA FramesPush ==
  ASSUME NEW st \in Seq(Frames), NEW f \in Frames
  PROVE  /\ ListsOf(Append(st, f)) = ListsOf(st) \cup Elems(f.list)
         /\ BatchesOf(Append(st, f)) = BatchesOf(st) \cup {f.batch}
         /\ DistinctFrames(st) /\ NoDup(f.list) /\ f.batch \notin BatchesOf(st)
              /\ Elems(f.list) \cap ListsOf(st) = {} => DistinctFrames(Append(st, f))
<1> DEFINE p == Append(st, f)
<1>1. /\ Len(p) = Len(st) + 1 /\ Len(st) \in Nat
      /\ p[Len(st) + 1] = f
      /\ \A i \in 1 .. Len(st) : p[i] = st[i]
  OBVIOUS
<1> HIDE DEF p
<1>2. \A i \in 1 .. Len(p) : i \in 1 .. Len(st) \/ i = Len(st) + 1
  BY <1>1
<1>3. \A i \in 1 .. Len(st) : i \in 1 .. Len(p)
  BY <1>1
<1>4. Len(st) + 1 \in 1 .. Len(p)
  BY <1>1
<1>5. ListsOf(p) = ListsOf(st) \cup Elems(f.list)
  BY <1>1, <1>2, <1>3, <1>4 DEF ListsOf
<1>6. BatchesOf(p) = BatchesOf(st) \cup {f.batch}
  BY <1>1, <1>2, <1>3, <1>4 DEF BatchesOf
<1>7. ASSUME DistinctFrames(st), NoDup(f.list), f.batch \notin BatchesOf(st),
             Elems(f.list) \cap ListsOf(st) = {}
      PROVE  DistinctFrames(p)
  <2>1. \A i \in 1 .. Len(st) :
          st[i].batch # f.batch /\ Elems(st[i].list) \cap Elems(f.list) = {}
    BY <1>7 DEF BatchesOf, ListsOf
  <2> SUFFICES ASSUME NEW i \in 1 .. Len(p), NEW j \in 1 .. Len(p)
               PROVE  /\ NoDup(p[i].list)
                      /\ i # j => /\ p[i].batch # p[j].batch
                                  /\ Elems(p[i].list) \cap Elems(p[j].list) = {}
    BY DEF DistinctFrames
  <2>2. CASE i \in 1 .. Len(st) /\ j \in 1 .. Len(st)
    BY <1>1, <1>7, <2>2 DEF DistinctFrames
  <2>3. CASE i = Len(st) + 1 /\ j \in 1 .. Len(st)
    BY <1>1, <1>7, <2>1, <2>3
  <2>4. CASE i \in 1 .. Len(st) /\ j = Len(st) + 1
    BY <1>1, <1>7, <2>1, <2>4 DEF DistinctFrames
  <2>5. CASE i = Len(st) + 1 /\ j = Len(st) + 1
    BY <1>1, <1>7, <2>5
  <2> QED
    BY <1>2, <2>2, <2>3, <2>4, <2>5
<1> QED
  BY <1>5, <1>6, <1>7 DEF p

\* A stack without its last frame.
LEMMA StackFront ==
  ASSUME NEW st \in Seq(Frames), NEW n \in Nat, n = Len(st) - 1
  PROVE  Len(SubSeq(st, 1, n)) = n /\ \A i \in 1 .. n : SubSeq(st, 1, n)[i] = st[i]
<1>1. Len(SubSeq(st, 1, n)) = n
  OBVIOUS
<1>2. ASSUME NEW i \in 1 .. n PROVE SubSeq(st, 1, n)[i] = st[i]
  OBVIOUS
<1> QED
  BY <1>1, <1>2

\* The return of a reclaimer resumes the topmost suspended call.
LEMMA FramesPop ==
  ASSUME NEW st \in Seq(Frames), st # <<>>, DistinctFrames(st)
  PROVE  LET f  == st[Len(st)]
             up == SubSeq(st, 1, Len(st) - 1)
         IN  /\ f \in Frames
             /\ f.batch \in BatchesOf(st) /\ Elems(f.list) \subseteq ListsOf(st)
             /\ NoDup(f.list)
             /\ ListsOf(up) = ListsOf(st) \ Elems(f.list)
             /\ BatchesOf(up) = BatchesOf(st) \ {f.batch}
             /\ DistinctFrames(up)
<1> DEFINE f  == st[Len(st)]
           p == SubSeq(st, 1, Len(st) - 1)
<1>1. /\ Len(p) = Len(st) - 1 /\ Len(st) \in Nat /\ Len(st) > 0
      /\ f \in Frames
      /\ \A i \in 1 .. Len(p) : p[i] = st[i]
  <2>1. Len(st) \in Nat /\ Len(st) > 0
    OBVIOUS
  <2>2. f \in Frames
    BY <2>1
  <2>3. Len(st) - 1 \in Nat
    BY <2>1
  <2>4. Len(p) = Len(st) - 1 /\ \A i \in 1 .. Len(st) - 1 : p[i] = st[i]
    BY <2>3, StackFront
  <2> QED
    BY <2>1, <2>2, <2>4
<1> HIDE DEF p
<1>2. \A i \in 1 .. Len(st) : i \in 1 .. Len(p) \/ i = Len(st)
  BY <1>1
<1>3. \A i \in 1 .. Len(p) : i \in 1 .. Len(st) /\ i # Len(st)
  BY <1>1
<1>4. Len(st) \in 1 .. Len(st)
  BY <1>1
<1>5. NoDup(f.list)
  BY <1>4 DEF DistinctFrames
<1>6. f.batch \in BatchesOf(st) /\ Elems(f.list) \subseteq ListsOf(st)
  BY <1>4 DEF BatchesOf, ListsOf
<1>7. \A i \in 1 .. Len(p) : p[i].batch # f.batch /\ Elems(p[i].list) \cap Elems(f.list) = {}
  BY <1>1, <1>3, <1>4 DEF DistinctFrames
<1>8. ListsOf(p) = ListsOf(st) \ Elems(f.list)
  <2>1. ASSUME NEW y \in ListsOf(p) PROVE y \in ListsOf(st) \ Elems(f.list)
    <3>1. PICK i \in 1 .. Len(p) : y \in Elems(p[i].list)
      BY <2>1 DEF ListsOf
    <3> QED
      BY <1>1, <1>3, <1>7, <3>1 DEF ListsOf
  <2>2. ASSUME NEW y \in ListsOf(st), y \notin Elems(f.list) PROVE y \in ListsOf(p)
    <3>1. PICK i \in 1 .. Len(st) : y \in Elems(st[i].list)
      BY <2>2 DEF ListsOf
    <3>2. i \in 1 .. Len(p) /\ p[i] = st[i]
      BY <1>1, <1>2, <2>2, <3>1
    <3> QED
      BY <3>1, <3>2 DEF ListsOf
  <2> QED
    BY <2>1, <2>2
<1>9. BatchesOf(p) = BatchesOf(st) \ {f.batch}
  <2>1. ASSUME NEW y \in BatchesOf(p) PROVE y \in BatchesOf(st) \ {f.batch}
    BY <1>1, <1>3, <1>7, <2>1 DEF BatchesOf
  <2>2. ASSUME NEW y \in BatchesOf(st), y # f.batch PROVE y \in BatchesOf(p)
    BY <1>1, <1>2, <2>2 DEF BatchesOf
  <2> QED
    BY <2>1, <2>2
<1>10. DistinctFrames(p)
  BY <1>1, <1>3 DEF DistinctFrames
<1> QED
  BY <1>1, <1>5, <1>6, <1>8, <1>9, <1>10 DEF p

-----------------------------------------------------------------------------

\* A suspended call on top of the stack, and the stack below it.
LEMMA StackTop ==
  ASSUME NEW st \in Seq(Frames), st # <<>>
  PROVE  /\ Len(st) \in 1 .. Len(st)
         /\ st[Len(st)] \in Frames
         /\ SubSeq(st, 1, Len(st) - 1) \in Seq(Frames)
  OBVIOUS

\* The guards held by the caller of a reclaimer are a number.
LEMMA BaseType ==
  ASSUME TypeOK, NEW s \in Slots
  PROVE  Base(s) \in Nat
<1>1. CASE stack[s] = <<>>
  BY <1>1 DEF Base
<1>2. CASE stack[s] # <<>>
  <2>1. stack[s] \in Seq(Frames)
    BY DEF TypeOK
  <2>2. stack[s][Len(stack[s])] \in Frames
    BY <1>2, <2>1, StackTop
  <2> QED
    BY <1>2, <2>2 DEF Base, Frames
<1> QED
  BY <1>1, <1>2

\* The pointer loaded from a reservation is a batch, null or INACTIVE.
LEMMA TopType ==
  ASSUME NEW h \in Lists \cup {INACTIVE}
  PROVE  Top(h) \in Batches \cup {NULL, INACTIVE}
  BY DEF Top

\* The reference count can represent every number of slots.
LEMMA WidthType ==
  /\ Width \in Nat /\ Width > 0
  /\ Cardinality(Slots) \in Nat /\ Cardinality(Slots) < Width
  BY SlotsAssumption, WidthAssumption, FS_CardinalityType

\* Arithmetic modulo Width, of operands whose sum is below twice Width.
LEMMA WrapType ==
  ASSUME NEW a \in Nat, NEW n \in Nat
  PROVE  WrapAdd(a, n) \in 0 .. Width - 1 /\ WrapDec(a) \in 0 .. Width - 1
<1>1. ASSUME NEW x \in Nat PROVE x % Width \in 0 .. Width - 1
  BY WidthType
<1> QED
  BY <1>1, WidthType DEF WrapAdd, WrapDec

\* A new collector has its type.
LEMMA InitType == Init => TypeOK
  BY WidthType DEF Init, TypeOK

\* Inside try_retire, traverse and free_batch there is a batch at hand.
LEMMA CurType ==
  ASSUME TypeOK, Control, NEW s \in Slots, pc[s] \in {"link", "cas", "dec", "free"}
  PROVE  /\ cur[s] \in Batches
         /\ active[cur[s]] \in Nat
         /\ cnt[s] \in Nat
         /\ idx[s] \in Nat
         /\ entries[cur[s]] \in Seq(Objects)
<1>1. cur[s] \in Batches
  BY DEF Control
<1> QED
  BY <1>1, WidthType DEF TypeOK

\* A call of try_retire, at the end of add or by flush.
LEMMA TryRetireStep ==
  ASSUME TypeOK, NEW s \in Slots, TryRetire(s)
  PROVE  /\ pc' \in [Slots -> {"user", "heavy", "scan", "link", "cas", "traverse", "dec", "free"}]
         /\ todo' \in [Slots -> SUBSET Slots]
         /\ pc'[s] = "heavy" /\ todo'[s] = HeavyBarrier
         /\ \A r \in Slots \ {s} : pc'[r] = pc[r] /\ todo'[r] = todo[r]
<1>1. HeavyBarrier \in SUBSET Slots
  BY DEF HeavyBarrier
<1> QED
  BY <1>1 DEF TypeOK, TryRetire

\* What add does to the position of its slot.
LEMMA AddStep ==
  ASSUME TypeOK, NEW s \in Slots, NEW o \in Objects, Add(s, o)
  PROVE  /\ pc' \in [Slots -> {"user", "heavy", "scan", "link", "cas", "traverse", "dec", "free"}]
         /\ todo' \in [Slots -> SUBSET Slots]
         /\ pc[s] = "user" /\ pc'[s] \in {"user", "heavy"}
         /\ pc'[s] = "heavy" => todo'[s] = HeavyBarrier
         /\ \A r \in Slots \ {s} : pc'[r] = pc[r] /\ todo'[r] = todo[r]
<1>1. pc[s] = "user" /\ (TryRetire(s) \/ UNCHANGED <<pc, todo>>)
  BY DEF Add
<1>2. CASE TryRetire(s)
  BY <1>1, <1>2, TryRetireStep
<1>3. CASE UNCHANGED <<pc, todo>>
  BY <1>1, <1>3 DEF TypeOK
<1> QED
  BY <1>1, <1>2, <1>3

\* Every step preserves the types: what the code dereferences is there (Control).
LEMMA NextType == TypeOK /\ Control /\ [Next]_vars => TypeOK'
<1> SUFFICES ASSUME TypeOK, Control, [Next]_vars PROVE TypeOK'
  OBVIOUS
<1> USE WidthType, SizeAssumption
<1>1. ASSUME NEW s \in Slots, Drain(s) PROVE TypeOK'
  BY <1>1, SMTT(30) DEF TypeOK, Drain, batchVars, retireVars, callVars, clientVars
<1>2. ASSUME NEW s \in Slots, Internal(s) PROVE TypeOK'
  <2>1. CASE HeavyReturn(s)
    <3>1. /\ pc' \in [Slots -> {"user", "heavy", "scan", "link", "cas", "traverse", "dec", "free"}]
          /\ cur' \in [Slots -> Batches \cup {NULL}]
          /\ todo' \in [Slots -> SUBSET Slots]
      <4>1. CASE batch[s] = NULL
        BY <2>1, <4>1 DEF TypeOK, HeavyReturn
      <4>2. CASE batch[s] # NULL
        <5>1. /\ pc' = [pc EXCEPT ![s] = "scan"]
              /\ cur' = [cur EXCEPT ![s] = batch[s]]
              /\ todo' = [todo EXCEPT ![s] = Slots]
          BY <2>1, <4>2 DEF HeavyReturn
        <5> QED
          BY <5>1, SMTT(30) DEF TypeOK
      <4> QED
        BY <4>1, <4>2
    <3>2. UNCHANGED <<resvVars, batchVars, marked, tgt, prev, cnt, list, idx, stack, clientVars>>
      BY <2>1 DEF HeavyReturn
    <3> QED
      BY <3>1, <3>2, SMTT(30) DEF TypeOK, resvVars, batchVars, clientVars
  <2>16. ASSUME NEW t \in Slots, Interrupt(s, t) PROVE TypeOK'
    <3>1. View(t) \in Lists \cup {INACTIVE}
      BY DEF TypeOK, View
    <3>2. /\ head' \in [Slots -> Lists \cup {INACTIVE}]
          /\ buffered' \in [Slots -> BOOLEAN]
          /\ todo' \in [Slots -> SUBSET Slots]
      BY <2>16, <3>1, SMTT(30) DEF TypeOK, Interrupt
    <3>3. UNCHANGED <<guards, batchVars, marked, tgt, prev, cnt, callVars, clientVars>>
      BY <2>16 DEF Interrupt
    <3> QED
      BY <3>2, <3>3, SMTT(30) DEF TypeOK, batchVars, callVars, clientVars
  <2>2. CASE Publish(s)
    BY <2>2, SMTT(30) DEF TypeOK, Publish, resvVars, retireVars, clientVars
  <2>3. ASSUME NEW t \in Slots, ScanSkip(s, t) PROVE TypeOK'
    BY <2>3, SMTT(30) DEF TypeOK, ScanSkip, resvVars, batchVars, callVars, clientVars
  <2>4. ASSUME NEW t \in Slots, ScanMark(s, t) PROVE TypeOK'
    BY <2>4 DEF TypeOK, ScanMark, resvVars, batchVars, callVars, clientVars
  <2>5. ASSUME NEW t \in Slots, ScanGiveUp(s, t) PROVE TypeOK'
    BY <2>5, SMTT(30) DEF TypeOK, ScanGiveUp, resvVars, batchVars, clientVars
  <2>6. ASSUME NEW t \in Slots, LinkLoad(s, t) PROVE TypeOK'
    <3>1. Top(head[t]) \in Batches \cup {NULL, INACTIVE}
      BY TopType, SMTT(30) DEF TypeOK
    <3> QED
      BY <2>6, <3>1, SMTT(30) DEF TypeOK, LinkLoad, resvVars, batchVars, clientVars
  <2>7. CASE LinkSkip(s)
    BY <2>7, SMTT(30) DEF TypeOK, Control, Linking, LinkSkip, LinkNext, resvVars, batchVars, clientVars
  <2>8. CASE LinkCas(s)
    <3>1. tgt[s] \in Slots /\ cur[s] \in Batches
      <4>1. tgt[s] \in marked[s] /\ cur[s] \in Batches
        BY <2>8 DEF Control, LinkCas
      <4> QED
        BY <4>1, SMTT(30) DEF TypeOK
    <3>2. head[tgt[s]] \in Lists
      BY <2>8, <3>1, SMTT(30) DEF TypeOK, LinkCas, Top
    <3>3. <<cur[s]>> \o head[tgt[s]] \in Lists
      BY <3>1, <3>2
    <3>4. head' \in [Slots -> Lists \cup {INACTIVE}]
      BY <2>8, <3>1, <3>3, SMTT(30) DEF TypeOK, LinkCas
    <3>5. /\ pc' \in [Slots -> {"user", "heavy", "scan", "link", "cas", "traverse", "dec", "free"}]
          /\ tgt' \in [Slots -> Slots \cup {NULL}]
          /\ prev' \in [Slots -> Batches \cup {NULL, INACTIVE}]
      BY <2>8, SMTT(30) DEF TypeOK, LinkCas, LinkNext
    <3>6. marked' \in [Slots -> SUBSET Slots] /\ cnt' \in [Slots -> Nat]
      BY <2>8, SMTT(30) DEF TypeOK, LinkCas, LinkNext
    <3>7. UNCHANGED <<buffered, guards, batchVars, todo, cur, list, idx, stack, clientVars>>
      BY <2>8 DEF LinkCas, LinkNext
    <3> QED
      BY <3>4, <3>5, <3>6, <3>7, SMTT(30) DEF TypeOK, batchVars, clientVars
  <2>9. CASE LinkRetry(s)
    <3>1. Top(head[tgt[s]]) \in Batches \cup {NULL, INACTIVE}
      BY <2>9, TopType, SMTT(30) DEF TypeOK, Control, LinkRetry
    <3> QED
      BY <2>9, <3>1, SMTT(30) DEF TypeOK, LinkRetry, resvVars, batchVars, callVars, clientVars
  <2>10. CASE Count(s)
    <3>1. WrapAdd(active[cur[s]], cnt[s]) \in 0 .. Width - 1
      BY <2>10, CurType, WrapType DEF Count
    <3>2. active' = [active EXCEPT ![cur[s]] = WrapAdd(active[cur[s]], cnt[s])]
      BY <2>10 DEF Count
    <3>3. active' \in [Batches -> 0 .. Width - 1]
      BY <3>1, <3>2 DEF TypeOK
    <3>4. /\ pc' \in [Slots -> {"user", "heavy", "scan", "link", "cas", "traverse", "dec", "free"}]
          /\ cur' \in [Slots -> Batches \cup {NULL}]
      BY <2>10, SMTT(30) DEF TypeOK, Count
    <3>5. cnt' \in [Slots -> Nat]
      BY <2>10, SMTT(30) DEF TypeOK, Count
    <3>6. /\ UNCHANGED <<head, buffered, guards, batch, alive, entries>>
          /\ UNCHANGED <<todo, marked, tgt, prev, list, idx, stack, cell, obj, held>>
      BY <2>10 DEF Count, resvVars, clientVars
    <3> QED
      BY <3>3, <3>4, <3>5, <3>6, SMTT(60) DEF TypeOK
  <2>11. CASE Traverse(s)
    BY <2>11, SMTT(30) DEF TypeOK, Control, Linking, Traverse, resvVars, batchVars, retireVars, clientVars
  <2>12. CASE Dec(s)
    <3>1. WrapDec(active[cur[s]]) \in 0 .. Width - 1
      BY <2>12, CurType, WrapType DEF Dec
    <3>2. active' \in [Batches -> 0 .. Width - 1]
      BY <2>12, <3>1 DEF TypeOK, Dec
    <3> QED
      BY <2>12, <3>2, SMTT(60) DEF TypeOK, Dec, Resume, resvVars, retireVars, clientVars
  <2>13. CASE Reclaim(s)
    <3>1. idx' \in [Slots -> Nat]
      BY <2>13, SMTT(30) DEF TypeOK, Reclaim
    <3>2. obj' \in [Objects -> {"fresh", "shared", "unlinked", "retired", "reclaimed"}]
      BY <2>13 DEF TypeOK, Reclaim
    <3> QED
      BY <2>13, <3>1, <3>2, SMTT(60) DEF TypeOK, Reclaim, resvVars, batchVars, retireVars
  <2>14. CASE ReclaimCall(s)
    <3> DEFINE f == [batch |-> cur[s], idx |-> idx[s] + 1, list |-> list[s], base |-> guards[s]]
    <3>1. f \in Frames
      <4>1. cur[s] \in Batches /\ idx[s] \in Nat /\ list[s] \in Lists /\ guards[s] \in Nat
        BY <2>14, CurType, SMTT(30) DEF TypeOK, ReclaimCall
      <4> QED
        BY <4>1 DEF Frames
    <3>2. Append(stack[s], f) \in Seq(Frames)
      BY <3>1, SMTT(30) DEF TypeOK
    <3>3. stack' = [stack EXCEPT ![s] = Append(stack[s], f)]
      BY <2>14 DEF ReclaimCall
    <3> HIDE DEF f
    <3>4. stack' \in [Slots -> Seq(Frames)]
      BY <3>2, <3>3, SMTT(30) DEF TypeOK
    <3>5. obj' \in [Objects -> {"fresh", "shared", "unlinked", "retired", "reclaimed"}]
      BY <2>14 DEF TypeOK, ReclaimCall
    <3>6. /\ pc' \in [Slots -> {"user", "heavy", "scan", "link", "cas", "traverse", "dec", "free"}]
          /\ cur' \in [Slots -> Batches \cup {NULL}]
      BY <2>14, SMTT(30) DEF TypeOK, ReclaimCall
    <3>7. list' \in [Slots -> Lists] /\ idx' \in [Slots -> Nat]
      BY <2>14, SMTT(30) DEF TypeOK, ReclaimCall, Lists
    <3>8. /\ UNCHANGED <<head, buffered, guards, batch, alive, entries, active>>
          /\ UNCHANGED <<todo, marked, tgt, prev, cnt, cell, held>>
      BY <2>14 DEF ReclaimCall, resvVars, batchVars, retireVars
    <3> QED
      BY <3>4, <3>5, <3>6, <3>7, <3>8, SMTT(60) DEF TypeOK
  <2>15. CASE Dealloc(s)
    BY <2>15, SMTT(30) DEF TypeOK, Control, Linking, Dealloc, Resume, resvVars, retireVars, clientVars
  <2> QED
    BY <1>2, <2>1, <2>2, <2>3, <2>4, <2>5, <2>6, <2>7, <2>8, <2>9, <2>10, <2>11, <2>12,
       <2>13, <2>14, <2>15, <2>16 DEF Internal
<1>3. ASSUME NEW s \in Slots, User(s) PROVE TypeOK'
  <2> Base(s) \in Nat
    BY BaseType
  <2>1. CASE Enter(s)
    <3>1. head' \in [Slots -> Lists \cup {INACTIVE}] /\ buffered' \in [Slots -> BOOLEAN]
      <4>1. CASE guards[s] = 0 /\ FastBarrier
        <5>1. buffered' = [buffered EXCEPT ![s] = TRUE] /\ head' = head
          BY <2>1, <4>1 DEF Enter, EnterReservation, LightStore
        <5> QED
          BY <5>1, SMTT(30) DEF TypeOK
      <4>2. CASE guards[s] = 0 /\ ~FastBarrier
        <5>1. head' = [head EXCEPT ![s] = <<>>] /\ buffered' = buffered
          BY <2>1, <4>2 DEF Enter, EnterReservation, LightStore
        <5> QED
          BY <5>1, SMTT(30) DEF TypeOK
      <4>3. CASE guards[s] # 0
        BY <2>1, <4>3, SMTT(30) DEF TypeOK, Enter
      <4> QED
        BY <4>1, <4>2, <4>3
    <3>2. guards' \in [Slots -> Nat]
      BY <2>1, SMTT(30) DEF TypeOK, Enter
    <3>3. UNCHANGED <<batchVars, retireVars, callVars, clientVars>>
      BY <2>1 DEF Enter
    <3> QED
      BY <3>1, <3>2, <3>3, SMTT(30) DEF TypeOK, batchVars, retireVars, callVars, clientVars
  <2>2. CASE Leave(s)
    <3>1. guards' \in [Slots -> Nat]
      BY <2>2, SMTT(30) DEF TypeOK, Leave
    <3>2. CASE guards[s] = 1
      <4>1. View(s) \in Lists \cup {INACTIVE}
        BY DEF TypeOK, View
      <4>2. /\ list' \in [Slots -> Lists]
            /\ pc' \in [Slots -> {"user", "heavy", "scan", "link", "cas", "traverse", "dec", "free"}]
        <5>1. TraverseFrom(s, View(s))
          BY <2>2, <3>2 DEF Leave, LeaveReservation
        <5> QED
          BY <4>1, <5>1, SMTT(30) DEF TypeOK, TraverseFrom, Resume
      <4>3. UNCHANGED <<batchVars, retireVars, cur, idx, stack, cell, obj>>
        BY <2>2, <3>2 DEF Leave, LeaveReservation, TraverseFrom
      <4>4. /\ head' = [head EXCEPT ![s] = INACTIVE]
            /\ buffered' = [buffered EXCEPT ![s] = FALSE]
            /\ held' = [held EXCEPT ![s] = {}]
        BY <2>2, <3>2 DEF Leave, LeaveReservation
      <4> QED
        BY <3>1, <4>2, <4>3, <4>4, SMTT(30) DEF TypeOK, batchVars, retireVars
    <3>3. CASE guards[s] # 1
      BY <2>2, <3>1, <3>3, SMTT(30) DEF TypeOK, Leave, batchVars, retireVars, callVars, clientVars
    <3> QED
      BY <3>2, <3>3
  <2>3. CASE Refresh(s)
    BY <2>3, SMTT(30) DEF TypeOK, Refresh, TraverseFrom, Resume, View, batchVars, retireVars
  <2>4. CASE Flush(s)
    BY <2>4, TryRetireStep, SMTT(30) DEF TypeOK, Flush, resvVars, batchVars, clientVars
  <2>5. CASE Reserve(s)
    <3>1. PICK b \in Batches \ alive :
            /\ batch' = [batch EXCEPT ![s] = b]
            /\ alive' = alive \cup {b}
      BY <2>5 DEF Reserve
    <3>2. UNCHANGED <<resvVars, entries, active, retireVars, callVars, clientVars>>
      BY <2>5 DEF Reserve
    <3> QED
      BY <3>1, <3>2, SMTT(30) DEF TypeOK, resvVars, retireVars, callVars, clientVars
  <2>6. ASSUME NEW c \in Cells, Protect(s, c) PROVE TypeOK'
    BY <2>6, SMTT(30) DEF TypeOK, Protect, resvVars, batchVars, retireVars, callVars
  <2>7. ASSUME NEW c \in Cells, NEW n \in Objects \cup {NULL}, Swap(s, c, n) PROVE TypeOK'
    BY <2>7, SMTT(30) DEF TypeOK, Swap, resvVars, batchVars, retireVars, callVars
  <2>8. ASSUME NEW o \in Objects, Add(s, o) PROVE TypeOK'
    <3>1. PICK b \in GetOrInit(s) : Add(s, o)!3!(b)
      BY <2>8 DEF Add
    <3>2. b \in Batches
      BY <3>1, SMTT(30) DEF TypeOK, GetOrInit
    <3>3. entries' \in [Batches -> Seq(Objects)]
      BY <3>1, <3>2, SMTT(30) DEF TypeOK
    <3>4. batch' \in [Slots -> Batches \cup {NULL}] /\ alive' \in SUBSET Batches
      BY <3>1, <3>2, SMTT(30) DEF TypeOK
    <3>5. /\ obj' \in [Objects -> {"fresh", "shared", "unlinked", "retired", "reclaimed"}]
          /\ held' \in [Slots -> SUBSET Objects]
      BY <2>8, SMTT(30) DEF TypeOK, Add
    <3>6. UNCHANGED <<resvVars, active, marked, tgt, prev, cnt, cur, list, idx, stack, cell>>
      BY <2>8 DEF Add
    <3> QED
      BY <2>8, <3>3, <3>4, <3>5, <3>6, AddStep, SMTT(30) DEF TypeOK, resvVars
  <2>9. CASE ReclaimReturn(s)
    BY <2>9, StackTop DEF TypeOK, ReclaimReturn, Frames, resvVars, batchVars, retireVars, clientVars
  <2> QED
    BY <1>3, <2>1, <2>2, <2>3, <2>4, <2>5, <2>6, <2>7, <2>8, <2>9 DEF User
<1>4. CASE UNCHANGED vars
  BY <1>4, SMTT(30) DEF TypeOK, vars, resvVars, batchVars, retireVars, callVars, clientVars
<1> QED
  BY <1>1, <1>2, <1>3, <1>4 DEF Next

\* Every slot starts in user code.
LEMMA InitControl == Init => Control
  BY DEF Init, Control, Linking

\* Every step leaves its slot with the local variables its place in the code needs.
LEMMA NextControl == TypeOK /\ Control /\ [Next]_vars => Control'
<1> SUFFICES ASSUME TypeOK, Control, [Next]_vars PROVE Control'
  OBVIOUS
<1>1. ASSUME NEW s \in Slots, Drain(s) PROVE Control'
  BY <1>1 DEF Control, Linking, Drain, batchVars, retireVars, callVars
<1>2. ASSUME NEW s \in Slots, Internal(s) PROVE Control'
  <2>1. CASE HeavyReturn(s)
    <3>1. pc[s] = "heavy" /\ UNCHANGED <<batchVars, marked, tgt, prev, cnt, list, idx>>
      BY <2>1 DEF HeavyReturn
    <3>2. CASE batch[s] = NULL
      <4>1. pc' = [pc EXCEPT ![s] = "user"] /\ cur' = cur
        BY <2>1, <3>2 DEF HeavyReturn
      <4> QED
        BY <3>1, <4>1, SMTT(30) DEF TypeOK, Control, Linking, batchVars
    <3>3. CASE batch[s] # NULL
      <4>1. pc' = [pc EXCEPT ![s] = "scan"] /\ cur' = [cur EXCEPT ![s] = batch[s]]
        BY <2>1, <3>3 DEF HeavyReturn
      <4> QED
        BY <3>1, <3>3, <4>1, SMTT(30) DEF TypeOK, Control, Linking, batchVars
    <3> QED
      BY <3>2, <3>3
  <2>16. ASSUME NEW t \in Slots, Interrupt(s, t) PROVE Control'
    BY <2>16 DEF Control, Linking, Interrupt, batchVars, callVars
  <2>2. CASE Publish(s)
    BY <2>2, SMTT(30) DEF TypeOK, Control, Linking, Publish, retireVars
  <2>3. ASSUME NEW t \in Slots, ScanSkip(s, t) PROVE Control'
    BY <2>3, SMTT(30) DEF TypeOK, Control, Linking, ScanSkip, batchVars, callVars
  <2>4. ASSUME NEW t \in Slots, ScanMark(s, t) PROVE Control'
    BY <2>4, SMTT(60) DEF TypeOK, Control, Linking, ScanMark, batchVars, callVars
  <2>5. ASSUME NEW t \in Slots, ScanGiveUp(s, t) PROVE Control'
    BY <2>5, SMTT(30) DEF TypeOK, Control, Linking, ScanGiveUp, batchVars
  <2>6. ASSUME NEW t \in Slots, LinkLoad(s, t) PROVE Control'
    BY <2>6 DEF TypeOK, Control, Linking, LinkLoad, batchVars
  <2>7. CASE LinkSkip(s)
    BY <2>7, SMTT(30) DEF TypeOK, Control, Linking, LinkSkip, LinkNext, batchVars
  <2>8. CASE LinkCas(s)
    BY <2>8 DEF TypeOK, Control, Linking, LinkCas, LinkNext, batchVars
  <2>9. CASE LinkRetry(s)
    BY <2>9, SMTT(30) DEF TypeOK, Control, Linking, LinkRetry, batchVars, callVars
  <2>10. CASE Count(s)
    BY <2>10, SMTT(30) DEF TypeOK, Control, Linking, Count
  <2>11. CASE Traverse(s)
    <3>1. /\ pc[s] = "traverse" /\ list[s] \in Seq(Batches) /\ list[s] # <<>>
          /\ pc' = [pc EXCEPT ![s] = "dec"]
          /\ cur' = [cur EXCEPT ![s] = Head(list[s])]
          /\ list' = [list EXCEPT ![s] = Tail(@)]
          /\ UNCHANGED <<batchVars, retireVars, idx>>
      BY <2>11, SMTT(30) DEF TypeOK, Lists, Control, Traverse
    <3>2. Head(list[s]) \in Batches
      BY <3>1
    <3> QED
      BY <3>1, <3>2, SMTT(30) DEF TypeOK, Control, Linking, batchVars, retireVars
  <2>12. CASE Dec(s)
    BY <2>12, SMTT(30) DEF TypeOK, Control, Linking, Dec, Resume, retireVars
  <2>13. CASE Reclaim(s)
    BY <2>13, SMTT(30) DEF TypeOK, Control, Linking, Reclaim, batchVars, retireVars
  <2>14. CASE ReclaimCall(s)
    BY <2>14, SMTT(30) DEF TypeOK, Control, Linking, ReclaimCall, batchVars, retireVars
  <2>15. CASE Dealloc(s)
    BY <2>15, SMTT(30) DEF TypeOK, Control, Linking, Dealloc, Resume, retireVars
  <2> QED
    BY <1>2, <2>1, <2>2, <2>3, <2>4, <2>5, <2>6, <2>7, <2>8, <2>9, <2>10, <2>11, <2>12,
       <2>13, <2>14, <2>15, <2>16 DEF Internal
<1>3. ASSUME NEW s \in Slots, User(s) PROVE Control'
  <2>1. CASE Enter(s)
    BY <2>1 DEF Control, Linking, Enter, batchVars, retireVars, callVars
  <2>2. CASE Leave(s)
    <3>1. CASE guards[s] = 1
      <4>1. TraverseFrom(s, View(s)) /\ UNCHANGED <<batchVars, retireVars>>
        BY <2>2, <3>1 DEF Leave, LeaveReservation
      <4>2. pc[s] = "user"
        BY <2>2 DEF Leave
      <4> QED
        BY <4>1, <4>2, SMTT(30) DEF TypeOK, Control, Linking, TraverseFrom, Resume, batchVars, retireVars
    <3>2. CASE guards[s] # 1
      BY <2>2, <3>2 DEF Control, Linking, Leave, batchVars, retireVars, callVars
    <3> QED
      BY <3>1, <3>2
  <2>3. CASE Refresh(s)
    BY <2>3, SMTT(30) DEF TypeOK, Control, Linking, Refresh, TraverseFrom, Resume, View, batchVars, retireVars
  <2>4. CASE Flush(s)
    <3>1. pc[s] = "user" /\ TryRetire(s) /\ UNCHANGED <<batchVars, marked, tgt, cnt, cur, list, idx>>
      BY <2>4 DEF Flush
    <3>2. pc'[s] = "heavy" /\ \A r \in Slots \ {s} : pc'[r] = pc[r]
      BY <3>1, TryRetireStep
    <3> QED
      BY <3>1, <3>2 DEF Control, Linking, batchVars
  <2>5. CASE Reserve(s)
    BY <2>5, SMTT(30) DEF TypeOK, Control, Linking, Reserve, retireVars, callVars
  <2>6. ASSUME NEW c \in Cells, Protect(s, c) PROVE Control'
    BY <2>6 DEF Control, Linking, Protect, batchVars, retireVars, callVars
  <2>7. ASSUME NEW c \in Cells, NEW n \in Objects \cup {NULL}, Swap(s, c, n) PROVE Control'
    BY <2>7 DEF Control, Linking, Swap, batchVars, retireVars, callVars
  <2>8. ASSUME NEW o \in Objects, Add(s, o) PROVE Control'
    <3>1. PICK b \in GetOrInit(s) : batch' = [batch EXCEPT ![s] = b]
      BY <2>8 DEF Add
    <3>2. UNCHANGED <<marked, tgt, cnt, cur, list, idx>>
      BY <2>8 DEF Add
    <3>3. \A u \in Slots : u # s => batch'[u] = batch[u]
      BY <3>1 DEF TypeOK
    <3> QED
      BY <2>8, <3>2, <3>3, AddStep, SMTT(30) DEF TypeOK, Control, Linking
  <2>9. CASE ReclaimReturn(s)
    BY <2>9, StackTop DEF TypeOK, Control, Linking, ReclaimReturn, Frames, batchVars, retireVars
  <2> QED
    BY <1>3, <2>1, <2>2, <2>3, <2>4, <2>5, <2>6, <2>7, <2>8, <2>9 DEF User
<1>4. CASE UNCHANGED vars
  BY <1>4 DEF Control, Linking, vars, batchVars, retireVars, callVars
<1> QED
  BY <1>1, <1>2, <1>3, <1>4 DEF Next

\* No slot is active in a new collector.
LEMMA InitActivity == Init => Activity
  BY DEF Init, Activity

\* The steps that do not touch reservations, guards or held objects.
LEMMA SameActivity ==
  ASSUME Activity, UNCHANGED <<head, buffered, guards, held>>
  PROVE  Activity'
  BY DEF Activity

\* enter, leave, refresh and the barriers keep a slot active exactly while it has guards.
LEMMA NextActivity == TypeOK /\ Control /\ Activity /\ [Next]_vars => Activity'
<1> SUFFICES ASSUME TypeOK, Control, Activity, [Next]_vars PROVE Activity'
  OBVIOUS
<1> <<>> \in Lists /\ <<>> # INACTIVE
  BY ListIsActive, Zenon
<1>1. ASSUME NEW s \in Slots, Drain(s) PROVE Activity'
  BY <1>1 DEF TypeOK, Activity, Drain, clientVars
<1>2. ASSUME NEW s \in Slots, Internal(s) PROVE Activity'
  <2>1. ASSUME NEW t \in Slots, Interrupt(s, t) PROVE Activity'
    BY <2>1 DEF TypeOK, Activity, Interrupt, View, clientVars
  <2>2. CASE LinkCas(s)
    <3>1. tgt[s] \in Slots /\ cur[s] \in Batches
      <4>1. tgt[s] \in marked[s] /\ cur[s] \in Batches
        BY <2>2 DEF Control, LinkCas
      <4> QED
        BY <4>1 DEF TypeOK
    <3>2. head[tgt[s]] \in Lists /\ head[tgt[s]] # INACTIVE
      BY <2>2, <3>1, InactiveAssumption DEF TypeOK, LinkCas, Top
    <3>3. <<cur[s]>> \o head[tgt[s]] # INACTIVE
      BY <3>1, <3>2, InactiveAssumption, ElemsCons
    <3>4. /\ head' = [head EXCEPT ![tgt[s]] = <<cur[s]>> \o head[tgt[s]]]
          /\ UNCHANGED <<buffered, guards, held>>
      BY <2>2 DEF LinkCas, clientVars
    <3> QED
      BY <3>1, <3>2, <3>3, <3>4 DEF TypeOK, Activity
  <2>3. CASE ~LinkCas(s) /\ \A t \in Slots : ~Interrupt(s, t)
    BY <1>2, <2>3, SameActivity DEF Internal, HeavyReturn, Publish, ScanSkip, ScanMark, ScanGiveUp, LinkLoad,
       LinkSkip, LinkRetry, Count, Traverse, Dec, Reclaim, ReclaimCall, Dealloc, resvVars, clientVars
  <2> QED
    BY <2>1, <2>2, <2>3
<1>3. ASSUME NEW s \in Slots, User(s) PROVE Activity'
  <2> Base(s) \in Nat
    BY BaseType
  <2>1. CASE Enter(s)
    <3>1. CASE guards[s] = 0 /\ FastBarrier
      <4>1. /\ buffered' = [buffered EXCEPT ![s] = TRUE]
            /\ guards' = [guards EXCEPT ![s] = @ + 1]
            /\ UNCHANGED <<head, held>>
        BY <2>1, <3>1 DEF Enter, EnterReservation, LightStore, clientVars
      <4> QED
        BY <3>1, <4>1 DEF TypeOK, Activity
    <3>2. CASE guards[s] = 0 /\ ~FastBarrier
      <4>1. /\ head' = [head EXCEPT ![s] = <<>>]
            /\ guards' = [guards EXCEPT ![s] = @ + 1]
            /\ UNCHANGED <<buffered, held>>
        BY <2>1, <3>2 DEF Enter, EnterReservation, LightStore, clientVars
      <4> QED
        BY <3>2, <4>1 DEF TypeOK, Activity
    <3>3. CASE guards[s] # 0
      BY <2>1, <3>3 DEF TypeOK, Activity, Enter, clientVars
    <3> QED
      BY <3>1, <3>2, <3>3
  <2>2. CASE Leave(s)
    <3>1. CASE guards[s] = 1
      <4>1. /\ head' = [head EXCEPT ![s] = INACTIVE]
            /\ buffered' = [buffered EXCEPT ![s] = FALSE]
            /\ guards' = [guards EXCEPT ![s] = @ - 1]
            /\ held' = [held EXCEPT ![s] = {}]
        BY <2>2, <3>1 DEF Leave, LeaveReservation
      <4> QED
        BY <3>1, <4>1 DEF TypeOK, Activity
    <3>2. CASE guards[s] # 1
      BY <2>2, <3>2 DEF TypeOK, Activity, Leave, clientVars
    <3> QED
      BY <3>1, <3>2
  <2>3. CASE Refresh(s)
    <3>1. /\ head' = [head EXCEPT ![s] = <<>>]
          /\ buffered' = [buffered EXCEPT ![s] = FALSE]
          /\ guards' = guards /\ guards[s] = 1
          /\ held' = [held EXCEPT ![s] = {}]
      BY <2>3 DEF Refresh
    <3> QED
      BY <3>1 DEF TypeOK, Activity
  <2>4. CASE Flush(s) \/ Reserve(s) \/ ReclaimReturn(s)
    BY <2>4, SameActivity DEF Flush, Reserve, ReclaimReturn, resvVars, clientVars
  <2>5. ASSUME NEW c \in Cells, Protect(s, c) PROVE Activity'
    BY <2>5 DEF TypeOK, Activity, Protect, resvVars
  <2>6. ASSUME NEW c \in Cells, NEW n \in Objects \cup {NULL}, Swap(s, c, n) PROVE Activity'
    BY <2>6 DEF TypeOK, Activity, Swap, resvVars
  <2>7. ASSUME NEW o \in Objects, Add(s, o) PROVE Activity'
    <3>1. UNCHANGED resvVars
      BY <2>7 DEF Add
    <3>2. held' = [held EXCEPT ![s] = IF guards[s] > Base(s) THEN @ \cup {o} ELSE @]
      BY <2>7 DEF Add
    <3> QED
      BY <3>1, <3>2 DEF TypeOK, Activity, resvVars
  <2> QED
    BY <1>3, <2>1, <2>2, <2>3, <2>4, <2>5, <2>6, <2>7 DEF User
<1>4. CASE UNCHANGED vars
  BY <1>4, SameActivity DEF vars, resvVars, clientVars
<1> QED
  BY <1>1, <1>2, <1>3, <1>4 DEF Next

\* Every variable keeps its type, whatever the slots, the objects and the bounds.
THEOREM TypeCorrect == Spec => []TypeOK
<1>1. Init => TypeOK /\ Control
  BY InitType, InitControl
<1>2. TypeOK /\ Control /\ [Next]_vars => (TypeOK /\ Control)'
  BY NextType, NextControl
<1> QED
  BY <1>1, <1>2, PTL DEF Spec

-----------------------------------------------------------------------------
(* Ownership and references. *)

\* The structural invariant, without and with the types it rests on.
Structure == Ownership /\ Distinct /\ Reachable /\ Links /\ RefCount /\ Unallocated
SInv == TypeOK /\ Control /\ Activity /\ Structure

-----------------------------------------------------------------------------
(* Steps that leave every batch where it is. *)

\* Slot r keeps its batches, and its list but for a store becoming visible.
Idle(r) ==
  /\ head'[r] = head[r] \/ (head[r] = INACTIVE /\ head'[r] = <<>>)
  /\ list'[r] = list[r] /\ stack'[r] = stack[r] /\ batch'[r] = batch[r]
  /\ pc[r] = "dec" <=> pc'[r] = "dec"
  /\ pc[r] = "free" <=> pc'[r] = "free"
  /\ pc[r] \in {"link", "cas"} <=> pc'[r] \in {"link", "cas"}
  /\ pc[r] \in {"dec", "free", "link", "cas"} => cur'[r] = cur[r]

\* The sets of batches that the invariant is about are those of the last state.
SameSets(r) ==
  /\ Owned(r)' = Owned(r)
  /\ Private(r)' = Private(r)
  /\ Reach(r)' = Reach(r)

\* An idle slot keeps the batches it owns and reaches.
LEMMA IdleSlot ==
  ASSUME NEW r \in Slots, Idle(r)
  PROVE  SameSets(r) /\ (Tidy(r) => Tidy(r)')
<1>1. Linked(r)' = Linked(r)
  BY ElemsEmpty, InactiveAssumption DEF Idle, Linked
<1>2. Pending(r)' = Pending(r)
  BY DEF Idle, Pending
<1>3. Private(r)' = Private(r) /\ Owned(r)' = Owned(r)
  BY DEF Idle, Private, Owned, Linking
<1>4. Tidy(r) => Tidy(r)'
  BY <1>1, <1>2, ElemsEmpty, InactiveAssumption DEF Idle, Tidy
<1> QED
  BY <1>1, <1>2, <1>3, <1>4 DEF SameSets, Reach

\* No batch changes hands, and no count changes.
Quiet ==
  /\ alive' = alive /\ active' = active
  /\ \A b \in Batches \ alive : entries'[b] = entries[b]
  /\ \A r \in Slots :
       /\ SameSets(r) /\ Tidy(r)'
       /\ Linking(r)' <=> Linking(r)
       /\ Linking(r) => cur'[r] = cur[r] /\ cnt'[r] = cnt[r] /\ marked'[r] \subseteq marked[r]

\* A set of slots is finite.
LEMMA SlotSet ==
  ASSUME NEW S \in SUBSET Slots
  PROVE  /\ IsFiniteSet(S)
         /\ Cardinality(S) \in Nat
         /\ Cardinality(S) <= Cardinality(Slots)
         /\ Cardinality(S) = 0 <=> S = {}
         /\ \A T \in SUBSET S : Cardinality(T) <= Cardinality(S)
<1>1. IsFiniteSet(S) /\ Cardinality(S) <= Cardinality(Slots)
  BY SlotsAssumption, FS_Subset
<1>2. \A T \in SUBSET S : Cardinality(T) <= Cardinality(S)
  BY <1>1, FS_Subset
<1>3. Cardinality(S) \in Nat
  BY <1>1, FS_CardinalityType
<1>4. Cardinality(S) = 0 <=> S = {}
  BY <1>1, FS_EmptySet
<1> QED
  BY <1>1, <1>2, <1>3, <1>4

\* A step in which no batch changes hands preserves the structure.
LEMMA QuietStep ==
  ASSUME SInv, TypeOK', Quiet
  PROVE  Structure'
<1>1. \A b : Refs(b)' = Refs(b)
  BY DEF Quiet, SameSets, Refs
<1>2. Ownership'
  BY DEF SInv, Structure, Ownership, Quiet, SameSets
<1>3. Distinct'
  BY DEF Distinct, Quiet
<1>4. Reachable'
  BY DEF SInv, Structure, Reachable, Quiet, SameSets
<1>5. Links'
  <2> SUFFICES ASSUME NEW s \in Slots, Linking(s)'
               PROVE  /\ Cardinality(Refs(cur[s]))' <= cnt'[s]
                      /\ cnt'[s] + Cardinality(marked'[s]) <= Cardinality(Slots)
    BY DEF Links
  <2>1. /\ Linking(s) /\ cur'[s] = cur[s] /\ cnt'[s] = cnt[s]
        /\ marked'[s] \subseteq marked[s]
    BY DEF Quiet
  <2>2. /\ Cardinality(Refs(cur[s])) <= cnt[s]
        /\ cnt[s] + Cardinality(marked[s]) <= Cardinality(Slots)
    BY <2>1 DEF SInv, Structure, Links
  <2>3. marked[s] \in SUBSET Slots /\ cnt[s] \in Nat
    BY DEF SInv, TypeOK
  <2>4. /\ Cardinality(marked'[s]) <= Cardinality(marked[s])
        /\ Cardinality(marked'[s]) \in Nat /\ Cardinality(marked[s]) \in Nat
    BY <2>1, <2>3, SlotSet
  <2>5. Cardinality(Refs(cur[s]))' = Cardinality(Refs(cur[s]))
    BY <1>1, <2>1
  <2> QED
    BY <2>1, <2>2, <2>3, <2>4, <2>5, WidthType
<1>6. RefCount'
  <2>1. \A b : Linkers(b)' = Linkers(b)
    BY DEF Quiet, Linkers
  <2> QED
    BY <1>1, <2>1 DEF SInv, Structure, RefCount, Quiet, WrapAdd
<1>7. Unallocated'
  BY DEF SInv, Structure, Unallocated, Quiet
<1> QED
  BY <1>2, <1>3, <1>4, <1>5, <1>6, <1>7 DEF Structure

\* Every slot is idle, and the retirers at work keep their count.
AllIdle ==
  /\ alive' = alive /\ active' = active
  /\ \A b \in Batches \ alive : entries'[b] = entries[b]
  /\ \A r \in Slots :
       /\ Idle(r)
       /\ pc[r] \in {"link", "cas"} => cnt'[r] = cnt[r] /\ marked'[r] \subseteq marked[r]

\* If every slot is idle, no batch changes hands.
LEMMA IdleStep ==
  ASSUME SInv, AllIdle
  PROVE  Quiet
  BY IdleSlot DEF SInv, Structure, Distinct, AllIdle, Quiet, Linking, Idle

\* The steps of guards, clients, the scan and the barrier leave every slot idle.
LEMMA IdleActions ==
  ASSUME SInv, NEW s \in Slots,
         \/ Drain(s) \/ HeavyReturn(s) \/ LinkSkip(s) \/ LinkRetry(s) \/ Reclaim(s)
         \/ \E t \in Slots : Interrupt(s, t)
         \/ \E t \in Slots : ScanSkip(s, t) \/ ScanMark(s, t) \/ ScanGiveUp(s, t) \/ LinkLoad(s, t)
         \/ Enter(s) \/ (Leave(s) /\ guards[s] # 1) \/ Flush(s)
         \/ \E c \in Cells : Protect(s, c) \/ \E n \in Objects \cup {NULL} : Swap(s, c, n)
         \/ \E o \in Objects : Add(s, o) /\ batch[s] # NULL
         \/ UNCHANGED vars
  PROVE  AllIdle
<1> USE DEF AllIdle, Idle, SInv
<1>1. CASE Drain(s)
  BY <1>1 DEF TypeOK, Activity, Drain, batchVars, retireVars, callVars
<1>2. CASE HeavyReturn(s)
  BY <1>2 DEF TypeOK, HeavyReturn, resvVars, batchVars
<1>17. ASSUME NEW t \in Slots, Interrupt(s, t) PROVE AllIdle
  <2>1. \A r \in Slots : head'[r] = head[r] \/ (head[r] = INACTIVE /\ head'[r] = <<>>)
    BY <1>17 DEF TypeOK, Activity, Interrupt, View
  <2> QED
    BY <1>17, <2>1 DEF Interrupt, batchVars, callVars
<1>3. CASE LinkSkip(s)
  BY <1>3 DEF TypeOK, LinkSkip, LinkNext, resvVars, batchVars
<1>4. CASE LinkRetry(s)
  BY <1>4 DEF LinkRetry, resvVars, batchVars, callVars
<1>5. CASE Reclaim(s)
  BY <1>5 DEF Reclaim, resvVars, batchVars, retireVars
<1>6. ASSUME NEW t \in Slots, ScanSkip(s, t) PROVE AllIdle
  BY <1>6 DEF ScanSkip, resvVars, batchVars, callVars
<1>7. ASSUME NEW t \in Slots, ScanMark(s, t) PROVE AllIdle
  BY <1>7 DEF TypeOK, ScanMark, resvVars, batchVars, callVars
<1>8. ASSUME NEW t \in Slots, ScanGiveUp(s, t) PROVE AllIdle
  BY <1>8 DEF TypeOK, ScanGiveUp, resvVars, batchVars
<1>9. ASSUME NEW t \in Slots, LinkLoad(s, t) PROVE AllIdle
  BY <1>9 DEF TypeOK, LinkLoad, resvVars, batchVars
<1>10. CASE Enter(s)
  <2>1. \A r \in Slots : head'[r] = head[r] \/ (head[r] = INACTIVE /\ head'[r] = <<>>)
    BY <1>10 DEF TypeOK, Activity, Enter, EnterReservation, LightStore
  <2> QED
    BY <1>10, <2>1 DEF Enter, batchVars, retireVars, callVars
<1>11. CASE Leave(s) /\ guards[s] # 1
  BY <1>11 DEF Leave, batchVars, retireVars, callVars
<1>12. CASE Flush(s)
  BY <1>12, TryRetireStep DEF Flush, resvVars, batchVars
<1>13. ASSUME NEW c \in Cells, Protect(s, c) PROVE AllIdle
  BY <1>13 DEF Protect, resvVars, batchVars, retireVars, callVars
<1>14. ASSUME NEW c \in Cells, NEW n \in Objects \cup {NULL}, Swap(s, c, n) PROVE AllIdle
  BY <1>14 DEF Swap, resvVars, batchVars, retireVars, callVars
<1>15. ASSUME NEW o \in Objects, Add(s, o), batch[s] # NULL PROVE AllIdle
  <2>1. /\ pc[s] = "user" /\ pc'[s] \in {"user", "heavy"}
        /\ \A r \in Slots \ {s} : pc'[r] = pc[r]
    BY <1>15, AddStep
  <2>2. batch[s] \in alive /\ batch' = batch /\ alive' = alive
    BY <1>15 DEF TypeOK, Structure, Ownership, Owned, Private, Add, GetOrInit
  <2>3. /\ UNCHANGED <<head, list, stack, cur, cnt, marked, active>>
        /\ \A b \in Batches \ alive : entries'[b] = entries[b]
    BY <1>15, <2>2 DEF TypeOK, Add, GetOrInit, resvVars
  <2> QED
    BY <2>1, <2>2, <2>3
<1>16. CASE UNCHANGED vars
  BY <1>16 DEF vars, resvVars, batchVars, retireVars, callVars
<1> QED
  BY <1>1, <1>2, <1>3, <1>4, <1>5, <1>6, <1>7, <1>8, <1>9, <1>10, <1>11, <1>12, <1>13, <1>14,
     <1>15, <1>16, <1>17

-----------------------------------------------------------------------------
(* Steps that move batches within the slot that takes them. *)

\* Everything but slot s is idle, and slot s keeps what it owns and reaches.
LEMMA LocalMove ==
  ASSUME SInv, NEW s \in Slots,
         alive' = alive, active' = active, UNCHANGED entries,
         UNCHANGED <<cnt, marked>>,
         \A r \in Slots \ {s} :
           /\ head'[r] = head[r] /\ list'[r] = list[r] /\ stack'[r] = stack[r]
           /\ batch'[r] = batch[r] /\ pc'[r] = pc[r] /\ cur'[r] = cur[r],
         ~Linking(s), ~Linking(s)', SameSets(s), Tidy(s)'
  PROVE  Quiet
<1>1. ASSUME NEW r \in Slots, r # s
      PROVE  /\ SameSets(r) /\ Tidy(r)'
             /\ Linking(r)' <=> Linking(r)
             /\ cur'[r] = cur[r]
  <2>1. Idle(r) /\ Tidy(r)
    BY <1>1 DEF Idle, SInv, Structure, Distinct
  <2> QED
    BY <1>1, <2>1, IdleSlot DEF Linking
<1> QED
  BY <1>1 DEF Quiet

\* leave and refresh move the reservation list into the traversal, whole.
LEMMA TakeList ==
  ASSUME SInv, NEW s \in Slots, pc[s] = "user", TraverseFrom(s, View(s)),
         head' = [head EXCEPT ![s] = INACTIVE] \/ head' = [head EXCEPT ![s] = <<>>],
         UNCHANGED <<batchVars, retireVars>>
  PROVE  Quiet
<1> DEFINE l == IF View(s) = INACTIVE THEN <<>> ELSE View(s)
<1>1. /\ list' = [list EXCEPT ![s] = l] /\ pc' = [pc EXCEPT ![s] = Resume(l)]
      /\ UNCHANGED <<cur, idx, stack>>
  BY DEF TraverseFrom
<1>2. l \in Lists /\ Elems(l) = Linked(s) /\ NoDup(l)
  <2>1. CASE buffered[s] \/ head[s] = INACTIVE
    <3>1. head[s] = INACTIVE /\ l = <<>>
      BY <2>1, ListIsActive DEF SInv, Activity, View
    <3> QED
      BY <3>1, ElemsEmpty, ListIsActive DEF Linked
  <2>2. CASE ~buffered[s] /\ head[s] # INACTIVE
    <3>1. l = head[s] /\ head[s] \in Lists
      BY <2>2 DEF View, SInv, TypeOK
    <3> QED
      BY <2>2, <3>1 DEF Linked, SInv, Structure, Distinct, Tidy
  <2> QED
    BY <2>1, <2>2
<1> HIDE DEF l
<1>3. head'[s] \in {INACTIVE, <<>>} /\ \A r \in Slots \ {s} : head'[r] = head[r]
  BY DEF SInv, TypeOK
<1>4. Linked(s)' = {} /\ NoDup(<<>>)
  BY <1>3, ElemsEmpty DEF Linked
<1>5. list[s] = <<>> /\ Elems(list[s]) = {}
  BY ElemsEmpty DEF SInv, Control
<1>6. list'[s] = l /\ pc'[s] \in {"user", "traverse"}
  BY <1>1 DEF SInv, TypeOK, Resume
<1>7. Pending(s) = ListsOf(stack[s]) /\ Pending(s)' = Elems(l) \cup ListsOf(stack[s])
  BY <1>1, <1>5, <1>6 DEF Pending
<1>8. Reach(s)' = Reach(s)
  BY <1>2, <1>4, <1>7 DEF Reach
<1>9. Private(s)' = Private(s) /\ Owned(s)' = Owned(s) /\ ~Linking(s) /\ ~Linking(s)'
  BY <1>1, <1>6 DEF Private, Owned, Linking, batchVars
<1>10. Tidy(s)'
  <2>1. Tidy(s)
    BY DEF SInv, Structure, Distinct
  <2>2. Elems(l) \cap ListsOf(stack[s]) = {}
    BY <1>2, <1>7, <2>1 DEF Tidy
  <2>3. head'[s] # INACTIVE => NoDup(head'[s])
    BY <1>3, <1>4
  <2> QED
    BY <1>1, <1>2, <1>4, <1>6, <2>1, <2>2, <2>3 DEF Tidy, batchVars
<1>11. \A r \in Slots \ {s} : list'[r] = list[r] /\ pc'[r] = pc[r]
  BY <1>1 DEF SInv, TypeOK
<1> QED
  BY <1>1, <1>3, <1>8, <1>9, <1>10, <1>11, LocalMove DEF SameSets, batchVars, retireVars

\* traverse moves a batch from its list to the decrement.
LEMMA TraverseQuiet ==
  ASSUME SInv, NEW s \in Slots, Traverse(s)
  PROVE  Quiet
<1> DEFINE q == list[s]
<1>1. Tidy(s) /\ q \in Lists /\ q # <<>> /\ pc[s] = "traverse"
  BY DEF SInv, Structure, Distinct, TypeOK, Control, Traverse
<1>2. /\ Head(q) \in Elems(q) /\ Elems(Tail(q)) = Elems(q) \ {Head(q)}
      /\ NoDup(Tail(q))
  BY <1>1, ElemsTail DEF Tidy
<1>3. /\ cur'[s] = Head(q) /\ list'[s] = Tail(q) /\ pc'[s] = "dec"
      /\ UNCHANGED <<head, buffered, batch, alive, entries, active, cnt, marked, stack>>
  BY DEF Traverse, SInv, TypeOK, resvVars, batchVars, retireVars
<1>4. \A r \in Slots \ {s} : list'[r] = list[r] /\ pc'[r] = pc[r] /\ cur'[r] = cur[r]
  BY DEF Traverse, SInv, TypeOK
<1> HIDE DEF q
<1>5. Linked(s)' = Linked(s)
  BY <1>3 DEF Linked
<1>6. Pending(s) = Elems(q) \cup ListsOf(stack[s])
  BY <1>1 DEF Pending, q
<1>7. Pending(s)' = Elems(Tail(q)) \cup {Head(q)} \cup ListsOf(stack[s])
  BY <1>3 DEF Pending
<1>8. Pending(s)' = Pending(s)
  BY <1>2, <1>6, <1>7
<1>9. Private(s)' = Private(s) /\ Owned(s)' = Owned(s) /\ ~Linking(s) /\ ~Linking(s)'
  BY <1>1, <1>3 DEF Private, Owned, Linking
<1>10. Tidy(s)'
  <2>1. Elems(q) \cap ListsOf(stack[s]) = {}
    BY <1>1 DEF Tidy, q
  <2>2. Elems(Tail(q)) \cap ListsOf(stack[s]) = {} /\ Head(q) \notin Elems(Tail(q)) \cup ListsOf(stack[s])
    BY <1>2, <2>1
  <2> QED
    BY <1>1, <1>2, <1>3, <1>5, <1>8, <2>2 DEF Tidy
<1> QED
  BY <1>3, <1>4, <1>5, <1>8, <1>9, <1>10, LocalMove DEF SameSets, Reach

\* A reclaimer that uses the collector suspends the free_batch and its traversal.
LEMMA CallQuiet ==
  ASSUME SInv, NEW s \in Slots, ReclaimCall(s)
  PROVE  Quiet
<1> DEFINE f == [batch |-> cur[s], idx |-> idx[s] + 1, list |-> list[s], base |-> guards[s]]
<1>1. Tidy(s) /\ pc[s] = "free" /\ list[s] \in Lists /\ stack[s] \in Seq(Frames)
  BY DEF SInv, Structure, Distinct, TypeOK, ReclaimCall
<1>2. f \in Frames /\ f.batch = cur[s] /\ f.list = list[s]
  <2>1. cur[s] \in Batches /\ idx[s] \in Nat
    BY <1>1, CurType DEF SInv
  <2>2. guards[s] \in Nat
    BY DEF SInv, TypeOK
  <2> QED
    BY <1>1, <2>1, <2>2 DEF Frames
<1>3. stack' = [stack EXCEPT ![s] = Append(stack[s], f)]
  BY DEF ReclaimCall
<1> HIDE DEF f
<1>4. /\ stack'[s] = Append(stack[s], f) /\ list'[s] = <<>> /\ pc'[s] = "user"
      /\ UNCHANGED <<head, buffered, batch, alive, entries, active, cnt, marked>>
  BY <1>3 DEF ReclaimCall, SInv, TypeOK, resvVars, batchVars, retireVars
<1>5. \A r \in Slots \ {s} :
        list'[r] = list[r] /\ pc'[r] = pc[r] /\ cur'[r] = cur[r] /\ stack'[r] = stack[r]
  BY <1>3 DEF ReclaimCall, SInv, TypeOK
<1>6. /\ ListsOf(stack'[s]) = ListsOf(stack[s]) \cup Elems(list[s])
      /\ BatchesOf(stack'[s]) = BatchesOf(stack[s]) \cup {cur[s]}
      /\ DistinctFrames(stack'[s])
  BY <1>1, <1>2, <1>4, FramesPush DEF Tidy
<1>7. Elems(list'[s]) = {} /\ NoDup(list'[s])
  BY <1>4, ElemsEmpty
<1>8. Linked(s)' = Linked(s)
  BY <1>4 DEF Linked
<1>9. Pending(s)' = Pending(s)
  BY <1>1, <1>4, <1>6, <1>7 DEF Pending
<1>10. Private(s)' = Private(s) /\ Owned(s)' = Owned(s) /\ ~Linking(s) /\ ~Linking(s)'
  BY <1>1, <1>4, <1>6 DEF Private, Owned, Linking
<1>11. Tidy(s)'
  <2>1. batch'[s] \notin BatchesOf(stack'[s])
    BY <1>1, <1>4, <1>6 DEF Tidy
  <2> QED
    BY <1>1, <1>4, <1>6, <1>7, <1>8, <1>9, <2>1 DEF Tidy
<1> QED
  BY <1>4, <1>5, <1>8, <1>9, <1>10, <1>11, LocalMove DEF SameSets, Reach

\* Its return resumes them.
LEMMA ReturnQuiet ==
  ASSUME SInv, NEW s \in Slots, ReclaimReturn(s)
  PROVE  Quiet
<1> DEFINE f  == stack[s][Len(stack[s])]
           up == SubSeq(stack[s], 1, Len(stack[s]) - 1)
<1>1. /\ Tidy(s) /\ pc[s] = "user" /\ stack[s] \in Seq(Frames) /\ stack[s] # <<>>
      /\ list[s] = <<>>
  BY DEF SInv, Structure, Distinct, TypeOK, Control, ReclaimReturn
<1>2. /\ f.batch \in BatchesOf(stack[s]) /\ Elems(f.list) \subseteq ListsOf(stack[s])
      /\ NoDup(f.list)
      /\ ListsOf(up) = ListsOf(stack[s]) \ Elems(f.list)
      /\ BatchesOf(up) = BatchesOf(stack[s]) \ {f.batch}
      /\ DistinctFrames(up)
  BY <1>1, FramesPop DEF Tidy
<1>3. /\ stack'[s] = up /\ list'[s] = f.list /\ pc'[s] = "free" /\ cur'[s] = f.batch
      /\ UNCHANGED <<head, buffered, batch, alive, entries, active, cnt, marked>>
  BY DEF ReclaimReturn, SInv, TypeOK, resvVars, batchVars, retireVars
<1>4. \A r \in Slots \ {s} :
        list'[r] = list[r] /\ pc'[r] = pc[r] /\ cur'[r] = cur[r] /\ stack'[r] = stack[r]
  BY DEF ReclaimReturn, SInv, TypeOK
<1> HIDE DEF f, up
<1>5. Elems(list[s]) = {}
  BY <1>1, ElemsEmpty
<1>6. Linked(s)' = Linked(s)
  BY <1>3 DEF Linked
<1>7. Pending(s)' = Pending(s)
  BY <1>1, <1>2, <1>3, <1>5 DEF Pending
<1>8. Private(s)' = Private(s) /\ Owned(s)' = Owned(s) /\ ~Linking(s) /\ ~Linking(s)'
  BY <1>1, <1>2, <1>3 DEF Private, Owned, Linking
<1>9. Tidy(s)'
  <2>1. cur'[s] \notin BatchesOf(stack'[s]) \cup {batch'[s]} /\ batch'[s] \notin BatchesOf(stack'[s])
    BY <1>1, <1>2, <1>3 DEF Tidy
  <2> QED
    BY <1>1, <1>2, <1>3, <1>6, <1>7, <2>1 DEF Tidy
<1> QED
  BY <1>3, <1>4, <1>6, <1>7, <1>8, <1>9, LocalMove DEF SameSets, Reach

-----------------------------------------------------------------------------
(* Steps that change the owner or the count of one batch. *)

\* Slot r takes no step, as far as the structure is concerned.
Same(r) ==
  /\ head'[r] = head[r] /\ list'[r] = list[r] /\ stack'[r] = stack[r]
  /\ batch'[r] = batch[r] /\ pc'[r] = pc[r] /\ cur'[r] = cur[r]
  /\ cnt'[r] = cnt[r] /\ marked'[r] = marked[r]

\* A slot whose variables do not change keeps its batches.
LEMMA SameSlot ==
  ASSUME NEW r \in Slots, Same(r)
  PROVE  SameSets(r) /\ (Tidy(r) => Tidy(r)') /\ (Linking(r)' <=> Linking(r))
<1>1. Idle(r)
  BY DEF Same, Idle
<1> QED
  BY <1>1, IdleSlot DEF Same, Linking

\* A batch is allocated and becomes the local batch of slot s (add, reserve).
LEMMA NewBatch ==
  ASSUME SInv, NEW s \in Slots, NEW b \in Batches \ alive,
         \A r \in Slots \ {s} : Same(r),
         batch[s] = NULL, batch'[s] = b, alive' = alive \cup {b}, active' = active,
         \A a \in Batches \ {b} : entries'[a] = entries[a],
         head'[s] = head[s], list'[s] = list[s], stack'[s] = stack[s],
         pc[s] = "user", pc'[s] \in {"user", "heavy"}
  PROVE  Structure'
<1>1. /\ Linked(s)' = Linked(s) /\ Pending(s)' = Pending(s) /\ Reach(s)' = Reach(s)
      /\ ~Linking(s) /\ ~Linking(s)'
      /\ Private(s) = BatchesOf(stack[s]) /\ Private(s)' = BatchesOf(stack[s]) \cup {b}
      /\ Owned(s) = Private(s) /\ Owned(s)' = Private(s)'
  BY NullAssumption DEF Linked, Pending, Reach, Linking, Private, Owned
<1>2. \A r \in Slots \ {s} : SameSets(r) /\ Tidy(r)' /\ (Linking(r)' <=> Linking(r))
  BY SameSlot DEF SInv, Structure, Distinct
<1>3. \A r \in Slots : /\ Reach(r)' = Reach(r) /\ (Linking(r)' <=> Linking(r))
                       /\ Linking(r) => cur'[r] = cur[r] /\ cnt'[r] = cnt[r] /\ marked'[r] = marked[r]
  BY <1>1, <1>2 DEF SameSets, Same
<1>4. \A r \in Slots : b \notin Owned(r) /\ b \notin Reach(r)
  BY DEF SInv, Structure, Ownership, Reachable
<1>5. Ownership'
  BY <1>1, <1>2, <1>4 DEF SInv, Structure, Ownership, SameSets
<1>6. Distinct'
  <2>1. Tidy(s)'
    BY <1>1, <1>4 DEF SInv, Structure, Distinct, Tidy
  <2> QED
    BY <1>2, <2>1 DEF Distinct
<1>7. Reachable'
  <2>1. \A r \in Slots : Reach(r)' \subseteq alive'
    BY <1>3 DEF SInv, Structure, Reachable
  <2>2. \A r, t \in Slots : Private(r)' \cap Reach(t)' = {}
    BY <1>1, <1>2, <1>3, <1>4 DEF SInv, Structure, Reachable, SameSets
  <2>3. \A r, t \in Slots : Linking(r)' /\ t \in marked'[r] => cur'[r] \notin Reach(t)'
    BY <1>3 DEF SInv, Structure, Reachable
  <2> QED
    BY <2>1, <2>2, <2>3 DEF Reachable
<1>8. \A a : Refs(a)' = Refs(a)
  BY <1>3 DEF Refs
<1>9. Links'
  BY <1>3, <1>8 DEF SInv, Structure, Links
<1>10. RefCount'
  <2>1. \A a : Linkers(a)' = Linkers(a)
    BY <1>3 DEF Linkers
  <2>2. Cardinality(Refs(b)) = 0
    BY <1>4, SlotSet DEF Refs
  <2>3. active[b] = 0
    BY DEF SInv, Structure, Unallocated
  <2> QED
    BY <1>3, <1>8, <2>1, <2>2, <2>3 DEF SInv, Structure, RefCount, WrapAdd
<1>11. Unallocated'
  BY DEF SInv, Structure, Unallocated
<1> QED
  BY <1>5, <1>6, <1>7, <1>9, <1>10, <1>11 DEF Structure

\* add and reserve, when they allocate the local batch.
LEMMA AllocStructure ==
  ASSUME SInv, NEW s \in Slots,
         Reserve(s) \/ \E o \in Objects : Add(s, o) /\ batch[s] = NULL
  PROVE  Structure'
<1>1. CASE Reserve(s)
  <2>1. PICK b \in Batches \ alive : batch' = [batch EXCEPT ![s] = b] /\ alive' = alive \cup {b}
    BY <1>1 DEF Reserve
  <2>2. /\ \A r \in Slots \ {s} : Same(r)
        /\ batch[s] = NULL /\ batch'[s] = b /\ active' = active
        /\ \A a \in Batches \ {b} : entries'[a] = entries[a]
        /\ head'[s] = head[s] /\ list'[s] = list[s] /\ stack'[s] = stack[s]
        /\ pc[s] = "user" /\ pc'[s] \in {"user", "heavy"}
    BY <1>1, <2>1 DEF SInv, TypeOK, Reserve, Same, resvVars, retireVars, callVars
  <2> QED
    BY <2>1, <2>2, NewBatch
<1>2. ASSUME NEW o \in Objects, Add(s, o), batch[s] = NULL
      PROVE  Structure'
  <2>1. PICK b \in Batches \ alive :
          /\ batch' = [batch EXCEPT ![s] = b] /\ alive' = alive \cup {b}
          /\ entries' = [entries EXCEPT ![b] = Append(@, o)]
    BY <1>2 DEF Add, GetOrInit
  <2>2. pc'[s] \in {"user", "heavy"} /\ \A r \in Slots \ {s} : pc'[r] = pc[r]
    BY <1>2, AddStep DEF SInv
  <2>3. \A a \in Batches \ {b} : entries'[a] = entries[a]
    BY <2>1 DEF SInv, TypeOK
  <2>4. batch'[s] = b /\ \A r \in Slots \ {s} : batch'[r] = batch[r]
    BY <2>1 DEF SInv, TypeOK
  <2>5. /\ pc[s] = "user" /\ active' = active
        /\ \A r \in Slots : /\ head'[r] = head[r] /\ list'[r] = list[r] /\ stack'[r] = stack[r]
                            /\ cur'[r] = cur[r] /\ cnt'[r] = cnt[r] /\ marked'[r] = marked[r]
    BY <1>2 DEF Add, resvVars, retireVars
  <2>6. \A r \in Slots \ {s} : Same(r)
    BY <2>2, <2>4, <2>5 DEF Same
  <2> QED
    BY <1>2, <2>1, <2>2, <2>3, <2>4, <2>5, <2>6, NewBatch
<1> QED
  BY <1>1, <1>2

\* The local batch of slot s is detached, and about to be linked.
LEMMA PublishStructure ==
  ASSUME SInv, NEW s \in Slots, Publish(s)
  PROVE  Structure'
<1> DEFINE b == cur[s]
<1>1. /\ pc[s] = "scan" /\ batch[s] = b /\ b \in Batches /\ b # NULL
      /\ cnt[s] = 0 /\ marked[s] \in SUBSET Slots
  <2>1. pc[s] = "scan"
    BY DEF Publish
  <2>2. batch[s] \in Batches /\ cur[s] = batch[s] /\ cnt[s] = 0
    BY <2>1 DEF SInv, Control, Linking
  <2>3. marked[s] \in SUBSET Slots
    BY DEF SInv, TypeOK
  <2> QED
    BY <2>1, <2>2, <2>3, NullAssumption
<1>2. /\ batch'[s] = NULL /\ pc'[s] = "link"
      /\ UNCHANGED <<head, list, stack, cur, alive, active, entries, cnt, marked>>
      /\ \A r \in Slots \ {s} : batch'[r] = batch[r] /\ pc'[r] = pc[r]
  BY DEF Publish, SInv, TypeOK, resvVars, retireVars
<1> HIDE DEF b
<1>3. \A r \in Slots \ {s} : SameSets(r) /\ Tidy(r)' /\ (Linking(r)' <=> Linking(r))
  BY <1>2, SameSlot DEF SInv, Structure, Distinct, Same
<1>4. /\ Linked(s)' = Linked(s) /\ Pending(s)' = Pending(s) /\ Reach(s)' = Reach(s)
      /\ ~Linking(s) /\ Linking(s)' /\ cur'[s] = b
      /\ Private(s) = BatchesOf(stack[s]) \cup {b} /\ Private(s)' = BatchesOf(stack[s])
      /\ Owned(s) = Private(s) /\ Owned(s)' = Owned(s)
  BY <1>1, <1>2 DEF Linked, Pending, Reach, Linking, Private, Owned, b
<1>5. \A r \in Slots : Reach(r)' = Reach(r) /\ b \notin Reach(r)
  BY <1>3, <1>4 DEF SInv, Structure, Reachable, SameSets
<1>6. \A a : Refs(a)' = Refs(a)
  BY <1>5 DEF Refs
<1>7. Refs(b) = {} /\ Cardinality(Refs(b)) = 0
  BY <1>5, SlotSet DEF Refs
<1>8. Ownership'
  BY <1>2, <1>3, <1>4 DEF SInv, Structure, Ownership, SameSets
<1>9. Distinct'
  <2>1. batch'[s] \notin BatchesOf(stack'[s]) /\ cur'[s] \notin BatchesOf(stack'[s]) \cup {batch'[s]}
    <3>1. NULL \notin BatchesOf(stack[s])
      <4>1. BatchesOf(stack[s]) \subseteq alive /\ alive \subseteq Batches
        BY <1>4 DEF SInv, TypeOK, Structure, Ownership
      <4> QED
        BY <4>1, NullAssumption
    <3>2. b \notin BatchesOf(stack[s])
      BY <1>1 DEF SInv, Structure, Distinct, Tidy
    <3> QED
      BY <1>1, <1>2, <1>4, <3>1, <3>2
  <2>2. Tidy(s)'
    BY <1>1, <1>2, <1>4, <2>1 DEF SInv, Structure, Distinct, Tidy
  <2> QED
    BY <1>3, <2>2 DEF Distinct
<1>10. Reachable'
  <2>1. \A r \in Slots : Reach(r)' \subseteq alive'
    BY <1>2, <1>5 DEF SInv, Structure, Reachable
  <2>2. \A r, t \in Slots : Private(r)' \cap Reach(t)' = {}
    BY <1>3, <1>4, <1>5 DEF SInv, Structure, Reachable, SameSets
  <2>3. \A r, t \in Slots : Linking(r)' /\ t \in marked'[r] => cur'[r] \notin Reach(t)'
    BY <1>2, <1>3, <1>4, <1>5 DEF SInv, Structure, Reachable
  <2> QED
    BY <2>1, <2>2, <2>3 DEF Reachable
<1>11. Links'
  <2>1. Cardinality(marked[s]) <= Cardinality(Slots) /\ Cardinality(marked[s]) \in Nat
    BY <1>1, SlotSet
  <2>2. /\ Cardinality(Refs(cur[s]))' <= cnt'[s]
        /\ cnt'[s] + Cardinality(marked'[s]) <= Cardinality(Slots)
    <3>1. Cardinality(Refs(cur[s]))' = 0
      BY <1>4, <1>6, <1>7
    <3> QED
      BY <1>1, <1>2, <2>1, <3>1
  <2>3. ASSUME NEW r \in Slots, r # s, Linking(r)'
        PROVE  /\ Cardinality(Refs(cur[r]))' <= cnt'[r]
               /\ cnt'[r] + Cardinality(marked'[r]) <= Cardinality(Slots)
    BY <1>2, <1>3, <1>6, <2>3 DEF SInv, Structure, Links
  <2> QED
    BY <2>2, <2>3 DEF Links
<1>12. RefCount'
  <2>1. Linkers(b) = {} /\ b \in alive
    <3>1. \A r \in Slots \ {s} : b \notin Owned(r)
      BY <1>4 DEF SInv, Structure, Ownership
    <3> QED
      BY <1>4, <3>1 DEF SInv, Structure, Ownership, Linkers, Owned
  <2>2. active[b] = 0
    BY <1>7, <2>1 DEF SInv, Structure, RefCount
  <2>3. WrapAdd(active[b], cnt[s]) = 0
    BY <1>1, <2>2, WidthType DEF WrapAdd
  <2>4. ASSUME NEW a \in alive, Linkers(a)' = {} PROVE Linkers(a) = {}
    BY <1>2, <1>3, <1>4, <2>4 DEF Linkers
  <2>5. \A a \in alive' : Linkers(a)' = {} => active'[a] = Cardinality(Refs(a)')
    BY <1>2, <1>6, <2>4 DEF SInv, Structure, RefCount
  <2>6. WrapAdd(active[cur[s]], cnt[s])' = Cardinality(Refs(cur[s]))'
    BY <1>2, <1>4, <1>6, <1>7, <2>3 DEF WrapAdd
  <2>7. ASSUME NEW r \in Slots, r # s, Linking(r)'
        PROVE  WrapAdd(active[cur[r]], cnt[r])' = Cardinality(Refs(cur[r]))'
    BY <1>2, <1>3, <1>6, <2>7 DEF SInv, Structure, RefCount, WrapAdd
  <2> QED
    BY <2>5, <2>6, <2>7 DEF RefCount
<1>13. Unallocated'
  BY <1>2 DEF SInv, Structure, Unallocated
<1> QED
  BY <1>8, <1>9, <1>10, <1>11, <1>12, <1>13 DEF Structure

\* The two operations on a count, within the range of usize.
LEMMA WrapFacts ==
  ASSUME NEW a \in 0 .. Width - 1, NEW n \in 0 .. Width - 1
  PROVE  /\ a + n < Width => WrapAdd(a, n) = a + n
         /\ a + n >= Width => WrapAdd(a, n) = a + n - Width
         /\ a = 0 => WrapDec(a) = Width - 1
         /\ a # 0 => WrapDec(a) = a - 1
<1>1. a + n < Width => (a + n) % Width = a + n
  BY WidthType
<1>2. a + n >= Width => (a + n) % Width = a + n - Width
  BY WidthType
<1>3. a = 0 => (a + Width - 1) % Width = Width - 1
  BY WidthType
<1>4. a # 0 => (a + Width - 1) % Width = a - 1
  BY WidthType
<1> QED
  BY <1>1, <1>2, <1>3, <1>4 DEF WrapAdd, WrapDec

\* Adding and removing one slot.
LEMMA SlotAdd ==
  ASSUME NEW S \in SUBSET Slots, NEW t \in Slots
  PROVE  /\ t \notin S => Cardinality(S \cup {t}) = Cardinality(S) + 1
         /\ t \in S => Cardinality(S \ {t}) = Cardinality(S) - 1 /\ Cardinality(S) >= 1
<1>1. IsFiniteSet(S) /\ Cardinality(S) \in Nat /\ (Cardinality(S) = 0 <=> S = {})
  BY SlotSet
<1>2. t \notin S => Cardinality(S \cup {t}) = Cardinality(S) + 1
  BY <1>1, FS_AddElement
<1>3. t \in S => Cardinality(S \ {t}) = Cardinality(S) - 1
  BY <1>1, FS_RemoveElement
<1> QED
  BY <1>1, <1>2, <1>3

\* The batch a slot links is its own, and no one holds it privately.
LEMMA LinkedBatch ==
  ASSUME SInv, NEW s \in Slots, Linking(s)
  PROVE  /\ cur[s] \in alive /\ cur[s] \in Batches
         /\ \A r \in Slots : cur[s] \notin Private(r)
         /\ \A r \in Slots \ {s} : cur[s] \notin Owned(r)
         /\ \A r \in Slots \ {s} : Linking(r) => cur[r] # cur[s]
         /\ Linkers(cur[s]) = {s}
<1>1. cur[s] \in Owned(s) /\ pc[s] # "free"
  BY DEF Owned, Linking
<1>2. cur[s] \in alive /\ cur[s] \in Batches
  BY <1>1 DEF SInv, TypeOK, Structure, Ownership
<1>3. \A r \in Slots \ {s} : cur[s] \notin Owned(r)
  BY <1>1 DEF SInv, Structure, Ownership
<1>4. cur[s] \notin Private(s)
  BY <1>1 DEF SInv, Structure, Distinct, Tidy, Private, Linking
<1>5. \A r \in Slots \ {s} : cur[s] \notin Private(r)
  BY <1>3 DEF Owned
<1>6. \A r \in Slots \ {s} : Linking(r) => cur[r] # cur[s]
  BY <1>3 DEF Owned
<1>7. Linkers(cur[s]) = {s}
  BY <1>6 DEF Linkers
<1> QED
  BY <1>2, <1>3, <1>4, <1>5, <1>6, <1>7

\* The batch of slot s becomes the head of the list of its target.
LEMMA LinkStructure ==
  ASSUME SInv, NEW s \in Slots, LinkCas(s)
  PROVE  Structure'
<1>1. /\ pc[s] = "cas" /\ Linking(s) /\ tgt[s] \in marked[s] /\ tgt[s] \in Slots
      /\ marked[s] \in SUBSET Slots /\ cur[s] \in Batches
  <2>1. pc[s] = "cas"
    BY DEF LinkCas
  <2>2. tgt[s] \in marked[s] /\ cur[s] \in Batches
    BY <2>1 DEF SInv, Control
  <2>3. marked[s] \in SUBSET Slots
    BY DEF SInv, TypeOK
  <2> QED
    BY <2>1, <2>2, <2>3 DEF Linking
<1>t. PICK t \in Slots : t = tgt[s]
  BY <1>1
<1>b. PICK b \in Batches : b = cur[s]
  BY <1>1
<1> DEFINE N == Cardinality(Refs(b))
           m == Cardinality(marked[s])
<1> USE <1>t, <1>b
<1>2. /\ b \in alive /\ b \in Batches
      /\ \A r \in Slots : b \notin Private(r)
      /\ \A r \in Slots \ {s} : Linking(r) => cur[r] # b
      /\ b \notin Reach(t)
  BY <1>1, LinkedBatch DEF SInv, Structure, Reachable
<1>3. head[t] # INACTIVE /\ head[t] \in Lists
  <2>1. head[t] # INACTIVE
    BY DEF LinkCas, Top
  <2> QED
    BY <1>1, <2>1 DEF SInv, TypeOK
<1>4. head'[t] = <<b>> \o head[t] /\ \A r \in Slots \ {t} : head'[r] = head[r]
  BY <1>1 DEF LinkCas, SInv, TypeOK
<1>5. /\ pc'[s] = "link" /\ cnt'[s] = cnt[s] + 1 /\ marked'[s] = marked[s] \ {t}
      /\ \A r \in Slots \ {s} : pc'[r] = pc[r] /\ cnt'[r] = cnt[r] /\ marked'[r] = marked[r]
      /\ UNCHANGED <<list, cur, stack, batch, alive, active, entries>>
  BY DEF LinkCas, LinkNext, SInv, TypeOK, batchVars
<1>6. /\ Linked(t)' = Linked(t) \cup {b} /\ NoDup(head'[t]) /\ head'[t] # INACTIVE
      /\ \A r \in Slots \ {t} : Linked(r)' = Linked(r)
  <2>1. b \notin Elems(head[t]) /\ NoDup(head[t])
    BY <1>1, <1>2, <1>3 DEF Reach, Linked, SInv, Structure, Distinct, Tidy
  <2>2. Elems(head'[t]) = {b} \cup Elems(head[t]) /\ NoDup(head'[t]) /\ head'[t] \in Lists
    BY <1>2, <1>3, <1>4, <2>1, ElemsCons
  <2>3. head'[t] # INACTIVE
    BY <2>2, ListIsActive
  <2>4. \A r \in Slots \ {t} : Linked(r)' = Linked(r)
    BY <1>4 DEF Linked
  <2> QED
    BY <1>3, <2>2, <2>3, <2>4 DEF Linked
<1>7. \A r \in Slots : /\ Pending(r)' = Pending(r) /\ Private(r)' = Private(r)
                       /\ Owned(r)' = Owned(r) /\ (Linking(r)' <=> Linking(r))
  BY <1>1, <1>5 DEF Pending, Private, Owned, Linking
<1>8. Reach(t)' = Reach(t) \cup {b} /\ \A r \in Slots \ {t} : Reach(r)' = Reach(r)
  BY <1>1, <1>6, <1>7 DEF Reach
<1>9. Refs(b)' = Refs(b) \cup {t} /\ t \notin Refs(b)
  BY <1>1, <1>2, <1>8 DEF Refs
<1>10. \A a : a # b => Refs(a)' = Refs(a)
  BY <1>1, <1>8 DEF Refs
<1>11. Ownership'
  BY <1>5, <1>7 DEF SInv, Structure, Ownership
<1>12. Distinct'
  <2> SUFFICES ASSUME NEW r \in Slots PROVE Tidy(r)'
    BY DEF Distinct
  <2>1. Tidy(r)
    BY DEF SInv, Structure, Distinct
  <2>2. head'[r] # INACTIVE => NoDup(head'[r])
    BY <1>4, <1>6, <2>1 DEF Tidy
  <2>3. Linked(r)' \cap Pending(r)' = {}
    BY <1>2, <1>6, <1>7, <2>1 DEF Tidy, Reach
  <2>4. pc'[r] = "dec" => pc[r] = "dec"
    BY <1>5
  <2>5. pc'[r] \in {"link", "cas", "free"} => pc[r] \in {"link", "cas", "free"}
    BY <1>1, <1>5
  <2> QED
    BY <1>5, <2>1, <2>2, <2>3, <2>4, <2>5 DEF Tidy
<1>13. Reachable'
  <2>1. \A r \in Slots : Reach(r)' \subseteq alive'
    BY <1>2, <1>5, <1>8 DEF SInv, Structure, Reachable
  <2>2. \A r, u \in Slots : Private(r)' \cap Reach(u)' = {}
    BY <1>2, <1>7, <1>8 DEF SInv, Structure, Reachable
  <2>3. ASSUME NEW r \in Slots, NEW u \in Slots, Linking(r)', u \in marked'[r]
        PROVE  cur'[r] \notin Reach(u)'
    <3>1. Linking(r) /\ u \in marked[r] /\ cur'[r] = cur[r]
      BY <1>5, <1>7, <2>3
    <3>2. cur[r] \notin Reach(u)
      BY <3>1 DEF SInv, Structure, Reachable
    <3>3. u = t => cur[r] # b
      BY <1>2, <1>5, <2>3, <3>1
    <3> QED
      BY <1>8, <3>1, <3>2, <3>3
  <2> QED
    BY <2>1, <2>2, <2>3 DEF Reachable
<1>14. /\ N \in Nat /\ Cardinality(Refs(b)') = N + 1
       /\ m \in Nat /\ m >= 1 /\ Cardinality(marked'[s]) = m - 1
       /\ N <= cnt[s] /\ cnt[s] + m <= Cardinality(Slots) /\ cnt[s] \in Nat
  <2>1. Refs(b) \in SUBSET Slots
    BY DEF Refs
  <2>2. N \in Nat /\ m \in Nat
    BY <1>1, <2>1, SlotSet
  <2>3. Cardinality(Refs(b)') = N + 1
    BY <1>1, <1>9, <2>1, SlotAdd
  <2>4. m >= 1 /\ Cardinality(marked'[s]) = m - 1
    BY <1>1, <1>5, SlotAdd
  <2>5. N <= cnt[s] /\ cnt[s] + m <= Cardinality(Slots)
    BY <1>1 DEF SInv, Structure, Links
  <2>6. cnt[s] \in Nat
    BY DEF SInv, TypeOK
  <2> QED
    BY <2>2, <2>3, <2>4, <2>5, <2>6
<1> HIDE DEF N, m
<1>15. Links'
  <2>1. /\ Cardinality(Refs(cur[s]))' <= cnt'[s]
        /\ cnt'[s] + Cardinality(marked'[s]) <= Cardinality(Slots)
    <3>1. Cardinality(Refs(cur[s]))' = N + 1
      BY <1>5, <1>14
    <3> QED
      BY <1>5, <1>14, <3>1, WidthType
  <2>2. ASSUME NEW r \in Slots, r # s, Linking(r)'
        PROVE  /\ Cardinality(Refs(cur[r]))' <= cnt'[r]
               /\ cnt'[r] + Cardinality(marked'[r]) <= Cardinality(Slots)
    <3>1. Linking(r) /\ cur[r] # b /\ cur'[r] = cur[r]
      BY <1>2, <1>5, <1>7, <2>2
    <3>2. Refs(cur[r])' = Refs(cur[r])
      BY <1>10, <3>1
    <3> QED
      BY <1>5, <2>2, <3>1, <3>2 DEF SInv, Structure, Links
  <2> QED
    BY <2>1, <2>2 DEF Links
<1>16. RefCount'
  <2>1. WrapAdd(active[b], cnt[s]) = N /\ active[b] \in 0 .. Width - 1
    BY <1>1, <1>2 DEF SInv, TypeOK, Structure, RefCount, N
  <2>2. cnt[s] \in 0 .. Width - 1 /\ cnt[s] + 1 \in 0 .. Width - 1
    BY <1>14, WidthType
  <2>3. WrapAdd(active[b], cnt[s] + 1) = N + 1
    <3> DEFINE a == active[b]
               c == cnt[s]
    <3> HIDE DEF a, c
    <3>1. /\ a \in 0 .. Width - 1 /\ c \in 0 .. Width - 1 /\ c + 1 \in 0 .. Width - 1
          /\ N \in Nat /\ N <= c /\ WrapAdd(a, c) = N
      BY <1>14, <2>1, <2>2 DEF a, c
    <3>2. /\ a + c < Width => N = a + c
          /\ a + c >= Width => N = a + c - Width
      BY <3>1, WrapFacts
    <3>3. /\ a + (c + 1) < Width => WrapAdd(a, c + 1) = a + (c + 1)
          /\ a + (c + 1) >= Width => WrapAdd(a, c + 1) = a + (c + 1) - Width
      BY <3>1, WrapFacts
    <3>4. WrapAdd(a, c + 1) = N + 1
      BY <3>1, <3>2, <3>3, WidthType
    <3> QED
      BY <3>4 DEF a, c
  <2>4. WrapAdd(active[cur[s]], cnt[s])' = Cardinality(Refs(cur[s]))'
    <3>1. Cardinality(Refs(cur[s]))' = N + 1
      BY <1>5, <1>14
    <3> QED
      BY <1>5, <2>3, <3>1 DEF WrapAdd
  <2>5. ASSUME NEW r \in Slots, r # s, Linking(r)'
        PROVE  WrapAdd(active[cur[r]], cnt[r])' = Cardinality(Refs(cur[r]))'
    <3>1. Linking(r) /\ cur[r] # b /\ cur'[r] = cur[r]
      BY <1>2, <1>5, <1>7, <2>5
    <3>2. Refs(cur[r])' = Refs(cur[r])
      BY <1>10, <3>1
    <3> QED
      BY <1>5, <2>5, <3>1, <3>2 DEF SInv, Structure, RefCount, WrapAdd
  <2>6. ASSUME NEW a \in alive', Linkers(a)' = {} PROVE active'[a] = Cardinality(Refs(a)')
    <3>1. Linkers(a) = {} /\ a # b
      BY <1>1, <1>5, <1>7, <2>6 DEF Linkers
    <3> QED
      BY <1>5, <1>10, <2>6, <3>1 DEF SInv, Structure, RefCount
  <2> QED
    BY <2>4, <2>5, <2>6 DEF RefCount
<1>17. Unallocated'
  BY <1>5 DEF SInv, Structure, Unallocated
<1> QED
  BY <1>11, <1>12, <1>13, <1>15, <1>16, <1>17 DEF Structure

\* The retirer adds its count: the batch is left to its references, or freed.
LEMMA CountStructure ==
  ASSUME SInv, NEW s \in Slots, Count(s)
  PROVE  Structure'
<1>1. pc[s] = "link" /\ Linking(s) /\ cur[s] \in Batches
  BY DEF Count, Linking, SInv, Control
<1>b. PICK b \in Batches : b = cur[s]
  BY <1>1
<1>2. /\ b \in alive
      /\ \A r \in Slots \ {s} : b \notin Owned(r)
      /\ \A r \in Slots \ {s} : Linking(r) => cur[r] # b
  BY <1>1, <1>b, LinkedBatch
<1>3. PICK n : n = WrapAdd(active[b], cnt[s])
  OBVIOUS
<1>4. /\ active'[b] = n /\ \A a \in Batches \ {b} : active'[a] = active[a]
      /\ pc'[s] = (IF n = 0 THEN "free" ELSE "user")
      /\ n = 0 => cur'[s] = b
      /\ \A r \in Slots \ {s} : pc'[r] = pc[r] /\ cur'[r] = cur[r] /\ cnt'[r] = cnt[r]
      /\ UNCHANGED <<head, list, stack, batch, alive, entries, marked>>
  BY <1>b, <1>3 DEF Count, SInv, TypeOK, resvVars
<1>5. n = Cardinality(Refs(b)) /\ (n = 0 => Refs(b) = {})
  <2>1. n = Cardinality(Refs(b))
    BY <1>1, <1>b, <1>3 DEF SInv, Structure, RefCount
  <2>2. Refs(b) \in SUBSET Slots
    BY DEF Refs
  <2> QED
    BY <2>1, <2>2, SlotSet
<1>6. \A r \in Slots \ {s} : SameSets(r) /\ Tidy(r)' /\ (Linking(r)' <=> Linking(r))
  BY <1>4, SameSlot DEF SInv, Structure, Distinct, Same
<1>7. /\ Linked(s)' = Linked(s) /\ Pending(s)' = Pending(s) /\ Reach(s)' = Reach(s)
      /\ ~Linking(s)'
  BY <1>1, <1>4 DEF Linked, Pending, Reach, Linking
<1>8. /\ Owned(s) = Private(s) \cup {b} /\ Owned(s)' = Private(s)'
      /\ Private(s)' = IF n = 0 THEN Private(s) \cup {b} ELSE Private(s)
  BY <1>1, <1>b, <1>4, <1>7 DEF Owned, Private
<1>9. \A r \in Slots : Reach(r)' = Reach(r)
  BY <1>6, <1>7 DEF SameSets
<1>10. \A a : Refs(a)' = Refs(a)
  BY <1>9 DEF Refs
<1>11. Ownership'
  <2>1. \A r \in Slots : Owned(r)' \subseteq Owned(r)
    BY <1>6, <1>8 DEF SameSets
  <2> QED
    BY <1>4, <2>1 DEF SInv, Structure, Ownership
<1>12. Distinct'
  <2>1. pc[s] \in {"link", "cas", "free"} /\ pc'[s] # "dec"
    BY <1>1, <1>4
  <2>2. pc'[s] \in {"link", "cas", "free"} => cur'[s] \notin BatchesOf(stack'[s]) \cup {batch'[s]}
    BY <1>b, <1>4, <2>1 DEF SInv, Structure, Distinct, Tidy
  <2>3. Tidy(s)'
    BY <1>4, <1>7, <2>1, <2>2 DEF SInv, Structure, Distinct, Tidy
  <2> QED
    BY <1>6, <2>3 DEF Distinct
<1>13. Reachable'
  <2>1. \A r \in Slots : Reach(r)' \subseteq alive'
    BY <1>4, <1>9 DEF SInv, Structure, Reachable
  <2>2. n = 0 => \A r \in Slots : b \notin Reach(r)
    BY <1>5 DEF Refs
  <2>3. \A r, u \in Slots : Private(r)' \cap Reach(u)' = {}
    BY <1>6, <1>8, <1>9, <2>2 DEF SInv, Structure, Reachable, SameSets
  <2>4. \A r, u \in Slots : Linking(r)' /\ u \in marked'[r] => cur'[r] \notin Reach(u)'
    BY <1>4, <1>6, <1>7, <1>9 DEF SInv, Structure, Reachable
  <2> QED
    BY <2>1, <2>3, <2>4 DEF Reachable
<1>14. Links'
  BY <1>4, <1>6, <1>7, <1>10 DEF SInv, Structure, Links
<1>15. RefCount'
  <2>1. ASSUME NEW r \in Slots, Linking(r)'
        PROVE  WrapAdd(active[cur[r]], cnt[r])' = Cardinality(Refs(cur[r]))'
    <3>1. r # s /\ Linking(r) /\ cur'[r] = cur[r] /\ cur[r] # b /\ cur[r] \in Batches
      BY <1>2, <1>4, <1>6, <1>7, <2>1, LinkedBatch
    <3>2. active'[cur[r]] = active[cur[r]] /\ cnt'[r] = cnt[r]
      BY <1>4, <3>1
    <3> QED
      BY <1>10, <3>1, <3>2 DEF SInv, Structure, RefCount, WrapAdd
  <2>2. ASSUME NEW a \in alive', Linkers(a)' = {}
        PROVE  active'[a] = Cardinality(Refs(a)')
    <3>1. CASE a = b
      BY <1>4, <1>5, <1>10, <3>1
    <3>2. CASE a # b
      <4>1. Linkers(a) = {} /\ a \in alive /\ a \in Batches
        <5>1. \A r \in Slots : Linking(r) /\ cur[r] = a => Linking(r)' /\ cur'[r] = a
          BY <1>b, <1>4, <1>6, <3>2
        <5>2. a \in alive /\ a \in Batches
          BY <1>4 DEF SInv, TypeOK
        <5> QED
          BY <2>2, <5>1, <5>2 DEF Linkers
      <4> QED
        BY <1>4, <1>10, <3>2, <4>1 DEF SInv, Structure, RefCount
    <3> QED
      BY <3>1, <3>2
  <2> QED
    BY <2>1, <2>2 DEF RefCount
<1>16. Unallocated'
  BY <1>2, <1>4 DEF SInv, Structure, Unallocated
<1> QED
  BY <1>11, <1>12, <1>13, <1>14, <1>15, <1>16 DEF Structure

\* What the count tells the slot that decrements it: it is the last reference
\* only if no retirer is still to add its links.
LEMMA DecCount ==
  ASSUME SInv, NEW s \in Slots, pc[s] = "dec", NEW b \in Batches, b = cur[s]
  PROVE  /\ s \in Refs(b) /\ Cardinality(Refs(b)) >= 1 /\ Cardinality(Refs(b)) \in Nat
         /\ active[b] = 1 => Refs(b) = {s} /\ Linkers(b) = {}
         /\ \A r \in Linkers(b) :
              WrapAdd(WrapDec(active[b]), cnt[r]) = Cardinality(Refs(b)) - 1
         /\ Linkers(b) = {} => WrapDec(active[b]) = Cardinality(Refs(b)) - 1
<1> DEFINE N == Cardinality(Refs(b))
           a == active[b]
<1>1. b \in Reach(s)
  BY DEF Reach, Pending
<1>2. b \in alive /\ s \in Refs(b) /\ Refs(b) \in SUBSET Slots /\ a \in 0 .. Width - 1
  BY <1>1 DEF SInv, TypeOK, Structure, Reachable, Refs
<1>3. N \in Nat /\ N >= 1 /\ N <= Cardinality(Slots)
  BY <1>2, SlotSet, SlotAdd
<1>4. N = 1 => Refs(b) = {s}
  <2>1. Cardinality(Refs(b) \ {s}) = N - 1
    BY <1>2, SlotAdd
  <2>2. (Refs(b) \ {s}) \in SUBSET Slots
    BY <1>2
  <2>3. N = 1 => Refs(b) \ {s} = {}
    BY <2>1, <2>2, SlotSet
  <2> QED
    BY <1>2, <2>3
<1>5. Linkers(b) = {} => a = N
  BY <1>2 DEF SInv, Structure, RefCount
<1> HIDE DEF N, a
<1>6. Linkers(b) = {} => WrapDec(a) = N - 1
  <2>1. 0 \in 0 .. Width - 1
    BY WidthType
  <2> QED
    BY <1>2, <1>3, <1>5, <2>1, WrapFacts
<1>7. ASSUME NEW r \in Linkers(b)
      PROVE  a # 1 /\ WrapAdd(WrapDec(a), cnt[r]) = N - 1
  <2> DEFINE c == cnt[r]
  <2>1. r \in Slots /\ Linking(r) /\ cur[r] = b
    BY DEF Linkers
  <2>2. N <= c /\ c <= Cardinality(Slots) /\ c \in Nat
    <3>1. c \in Nat /\ marked[r] \in SUBSET Slots
      BY <2>1 DEF SInv, TypeOK
    <3>2. N <= c /\ c + Cardinality(marked[r]) <= Cardinality(Slots)
      BY <2>1 DEF SInv, Structure, Links, N
    <3>3. Cardinality(marked[r]) \in Nat
      BY <3>1, SlotSet
    <3> QED
      BY <3>1, <3>2, <3>3, WidthType
  <2>3. WrapAdd(a, c) = N
    BY <2>1 DEF SInv, Structure, RefCount, N, a
  <2> HIDE DEF c
  <2>4. c \in 0 .. Width - 1
    BY <2>2, WidthType
  <2>5. /\ a + c < Width => N = a + c
        /\ a + c >= Width => N = a + c - Width
        /\ a = 0 => WrapDec(a) = Width - 1
        /\ a # 0 => WrapDec(a) = a - 1
    BY <1>2, <2>3, <2>4, WrapFacts
  <2>6. a # 1
    BY <1>2, <1>3, <2>2, <2>4, <2>5, WidthType
  <2>7. WrapDec(a) \in 0 .. Width - 1
    BY <1>2, <2>5, WidthType
  <2>8. /\ WrapDec(a) + c < Width => WrapAdd(WrapDec(a), c) = WrapDec(a) + c
        /\ WrapDec(a) + c >= Width => WrapAdd(WrapDec(a), c) = WrapDec(a) + c - Width
    BY <2>4, <2>7, WrapFacts
  <2>9. WrapAdd(WrapDec(a), c) = N - 1
    BY <1>2, <1>3, <2>2, <2>4, <2>5, <2>7, <2>8, WidthType
  <2> QED
    BY <2>6, <2>9 DEF c
<1>8. a = 1 => Linkers(b) = {} /\ Refs(b) = {s}
  BY <1>4, <1>5, <1>7
<1> QED
  BY <1>2, <1>3, <1>6, <1>7, <1>8 DEF N, a

\* A traversal drops its reference to a batch, and frees it if it was the last.
LEMMA DecStructure ==
  ASSUME SInv, NEW s \in Slots, Dec(s)
  PROVE  Structure'
<1>1. pc[s] = "dec" /\ cur[s] \in Batches /\ ~Linking(s)
  BY DEF Dec, Linking, SInv, Control
<1>b. PICK b \in Batches : b = cur[s]
  BY <1>1
<1> DEFINE N == Cardinality(Refs(b))
           last == active[b] = 1
<1>2. /\ s \in Refs(b) /\ N >= 1 /\ N \in Nat
      /\ last => Refs(b) = {s} /\ Linkers(b) = {}
      /\ \A r \in Linkers(b) : WrapAdd(WrapDec(active[b]), cnt[r]) = N - 1
      /\ Linkers(b) = {} => WrapDec(active[b]) = N - 1
  BY <1>1, <1>b, DecCount
<1>3. /\ active'[b] = WrapDec(active[b]) /\ \A a \in Batches \ {b} : active'[a] = active[a]
      /\ pc'[s] = (IF last THEN "free" ELSE Resume(list[s]))
      /\ last => cur'[s] = b
      /\ \A r \in Slots \ {s} : pc'[r] = pc[r] /\ cur'[r] = cur[r]
      /\ UNCHANGED <<head, list, stack, batch, alive, entries, marked, cnt>>
  BY <1>b DEF Dec, SInv, TypeOK, resvVars, retireVars
<1>4. /\ pc'[s] \notin {"dec", "link", "cas"} /\ (pc'[s] = "free" <=> last)
  BY <1>3 DEF Resume
<1> HIDE DEF N, last
<1>5. \A r \in Slots \ {s} : SameSets(r) /\ Tidy(r)' /\ (Linking(r)' <=> Linking(r))
  BY <1>3, SameSlot DEF SInv, Structure, Distinct, Same
<1>6. Tidy(s) /\ Linked(s)' = Linked(s) /\ b \in Pending(s) /\ b \notin Linked(s)
  BY <1>1, <1>b, <1>3 DEF SInv, Structure, Distinct, Tidy, Linked, Pending
<1>7. Pending(s)' = Pending(s) \ {b}
  <2>1. b \notin Elems(list[s]) \cup ListsOf(stack[s])
    BY <1>1, <1>b, <1>6 DEF Tidy
  <2>2. /\ Pending(s) = Elems(list[s]) \cup {b} \cup ListsOf(stack[s])
        /\ Pending(s)' = Elems(list[s]) \cup ListsOf(stack[s])
    BY <1>1, <1>b, <1>3, <1>4 DEF Pending
  <2> QED
    BY <2>1, <2>2
<1>8. Reach(s)' = Reach(s) \ {b} /\ b \in Reach(s)
  BY <1>6, <1>7 DEF Reach
<1>9. \A r \in Slots : Reach(r)' \subseteq Reach(r)
  BY <1>5, <1>8 DEF SameSets
<1>10. b \in alive /\ \A r \in Slots : b \notin Private(r)
  BY <1>8 DEF SInv, Structure, Reachable
<1>11. /\ Refs(b)' = Refs(b) \ {s}
       /\ \A a : a # b => Refs(a)' = Refs(a)
  BY <1>5, <1>8 DEF Refs, SameSets
<1>12. /\ Owned(s) = Private(s) /\ Owned(s)' = Private(s)' /\ ~Linking(s)'
       /\ Private(s)' = IF last THEN Private(s) \cup {b} ELSE Private(s)
  BY <1>1, <1>3, <1>4 DEF Owned, Private, Linking
<1>13. \A r \in Slots : last => b \notin Owned(r)
  BY <1>2, <1>10 DEF Owned, Linkers
<1>14. Ownership'
  <2>1. \A r \in Slots \ {s} : Owned(r)' = Owned(r)
    BY <1>5 DEF SameSets
  <2>2. Owned(s)' = IF last THEN Owned(s) \cup {b} ELSE Owned(s)
    BY <1>12
  <2> QED
    BY <1>3, <1>10, <1>13, <2>1, <2>2 DEF SInv, Structure, Ownership
<1>15. Distinct'
  <2>1. pc'[s] \in {"link", "cas", "free"} => cur'[s] \notin BatchesOf(stack'[s]) \cup {batch'[s]}
    <3>1. b \notin BatchesOf(stack[s]) /\ b # batch[s]
      BY <1>10, NullAssumption DEF Private
    <3> QED
      BY <1>3, <1>4, <3>1
  <2>2. Linked(s)' \cap Pending(s)' = {}
    BY <1>6, <1>7 DEF Tidy
  <2>3. Tidy(s)'
    BY <1>3, <1>4, <1>6, <2>1, <2>2 DEF Tidy
  <2> QED
    BY <1>5, <2>3 DEF Distinct
<1>16. Reachable'
  <2>1. \A r \in Slots : Reach(r)' \subseteq alive'
    BY <1>3, <1>9 DEF SInv, Structure, Reachable
  <2>2. last => \A r \in Slots : b \notin Reach(r)'
    BY <1>2, <1>5, <1>8 DEF Refs, SameSets
  <2>3. \A r, u \in Slots : Private(r) \cap Reach(u)' = {}
    BY <1>9 DEF SInv, Structure, Reachable
  <2>4. \A r, u \in Slots : Private(r)' \cap Reach(u)' = {}
    BY <1>5, <1>12, <2>2, <2>3 DEF SameSets
  <2>5. \A r, u \in Slots : Linking(r)' /\ u \in marked'[r] => cur'[r] \notin Reach(u)'
    BY <1>3, <1>5, <1>9, <1>12 DEF SInv, Structure, Reachable
  <2> QED
    BY <2>1, <2>4, <2>5 DEF Reachable
<1>17. Cardinality(Refs(b)') = N - 1
  <2>1. Refs(b) \in SUBSET Slots
    BY DEF Refs
  <2> QED
    BY <1>2, <1>11, <2>1, SlotAdd DEF N
<1>18. Links'
  <2> SUFFICES ASSUME NEW r \in Slots, Linking(r)'
               PROVE  /\ Cardinality(Refs(cur[r]))' <= cnt'[r]
                      /\ cnt'[r] + Cardinality(marked'[r]) <= Cardinality(Slots)
    BY DEF Links
  <2>1. r # s /\ Linking(r) /\ cur'[r] = cur[r] /\ cur[r] \in Batches
    BY <1>3, <1>5, <1>12, LinkedBatch
  <2>2. /\ Cardinality(Refs(cur[r])) <= cnt[r]
        /\ cnt[r] + Cardinality(marked[r]) <= Cardinality(Slots)
    BY <2>1 DEF SInv, Structure, Links
  <2>3. PICK a \in Batches : a = cur[r]
    BY <2>1
  <2>4. Cardinality(Refs(a)') <= cnt[r]
    <3>1. CASE a = b
      <4>1. N <= cnt[r] /\ cnt[r] \in Nat
        BY <2>2, <2>3, <3>1 DEF N, SInv, TypeOK
      <4> QED
        BY <1>2, <1>17, <3>1, <4>1
    <3>2. CASE a # b
      BY <1>11, <2>2, <2>3, <3>2
    <3> QED
      BY <3>1, <3>2
  <2> QED
    BY <1>3, <2>1, <2>2, <2>3, <2>4
<1>19. \A a : Linkers(a)' = Linkers(a)
  BY <1>1, <1>3, <1>5, <1>12 DEF Linkers
<1>20. RefCount'
  <2>1. ASSUME NEW r \in Slots, Linking(r)'
        PROVE  WrapAdd(active[cur[r]], cnt[r])' = Cardinality(Refs(cur[r]))'
    <3>1. r # s /\ Linking(r) /\ cur'[r] = cur[r] /\ cur[r] \in Batches /\ cnt'[r] = cnt[r]
      BY <1>3, <1>5, <1>12, <2>1, LinkedBatch
    <3>2. PICK a \in Batches : a = cur[r]
      BY <3>1
    <3>3. WrapAdd(active'[a], cnt[r]) = Cardinality(Refs(a)')
      <4>1. CASE a = b
        <5>1. r \in Linkers(b)
          BY <3>1, <3>2, <4>1 DEF Linkers
        <5> QED
          BY <1>2, <1>3, <1>17, <4>1, <5>1
      <4>2. CASE a # b
        <5>1. active'[a] = active[a] /\ Refs(a)' = Refs(a)
          BY <1>3, <1>11, <4>2
        <5> QED
          BY <3>1, <3>2, <5>1 DEF SInv, Structure, RefCount
      <4> QED
        BY <4>1, <4>2
    <3> QED
      BY <3>1, <3>2, <3>3 DEF WrapAdd
  <2>2. ASSUME NEW a \in alive', Linkers(a)' = {}
        PROVE  active'[a] = Cardinality(Refs(a)')
    <3>1. a \in alive /\ a \in Batches /\ Linkers(a) = {}
      BY <1>3, <1>19, <2>2 DEF SInv, TypeOK
    <3>2. CASE a = b
      BY <1>2, <1>3, <1>17, <3>1, <3>2
    <3>3. CASE a # b
      BY <1>3, <1>11, <3>1, <3>3 DEF SInv, Structure, RefCount
    <3> QED
      BY <3>2, <3>3
  <2> QED
    BY <2>1, <2>2 DEF RefCount
<1>21. Unallocated'
  BY <1>3, <1>10 DEF SInv, Structure, Unallocated
<1> QED
  BY <1>14, <1>15, <1>16, <1>18, <1>20, <1>21 DEF Structure

\* A freed batch was private to the slot that frees it.
LEMMA DeallocStructure ==
  ASSUME SInv, NEW s \in Slots, Dealloc(s)
  PROVE  Structure'
<1>1. pc[s] = "free" /\ cur[s] \in Batches /\ ~Linking(s)
  BY DEF Dealloc, Linking, SInv, Control
<1>b. PICK b \in Batches : b = cur[s]
  BY <1>1
<1>2. /\ active'[b] = 0 /\ entries'[b] = <<>> /\ alive' = alive \ {b}
      /\ \A a \in Batches \ {b} : active'[a] = active[a] /\ entries'[a] = entries[a]
      /\ pc'[s] = Resume(list[s])
      /\ \A r \in Slots \ {s} : pc'[r] = pc[r] /\ cur'[r] = cur[r]
      /\ UNCHANGED <<head, list, stack, batch, marked, cnt>>
  BY <1>b DEF Dealloc, SInv, TypeOK, resvVars, retireVars
<1>3. pc'[s] \notin {"dec", "link", "cas", "free"}
  BY <1>2 DEF Resume
<1>4. \A r \in Slots \ {s} : SameSets(r) /\ Tidy(r)' /\ (Linking(r)' <=> Linking(r))
  BY <1>2, SameSlot DEF SInv, Structure, Distinct, Same
<1>5. /\ Tidy(s) /\ Linked(s)' = Linked(s) /\ Pending(s)' = Pending(s) /\ Reach(s)' = Reach(s)
      /\ ~Linking(s)'
  BY <1>1, <1>2, <1>3 DEF SInv, Structure, Distinct, Linked, Pending, Reach, Linking
<1>6. \A r \in Slots : Reach(r)' = Reach(r)
  BY <1>4, <1>5 DEF SameSets
<1>7. /\ b \in Private(s) /\ Owned(s) = Private(s) /\ Owned(s)' = Private(s)'
      /\ Private(s)' = Private(s) \ {b}
  <2>1. b \notin BatchesOf(stack[s]) \cup {batch[s]}
    BY <1>1, <1>b, <1>5 DEF Tidy
  <2>2. /\ Private(s) = ({batch[s]} \ {NULL}) \cup {b} \cup BatchesOf(stack[s])
        /\ Private(s)' = ({batch[s]} \ {NULL}) \cup BatchesOf(stack[s])
    BY <1>1, <1>b, <1>2, <1>3 DEF Private
  <2>3. Owned(s) = Private(s) /\ Owned(s)' = Private(s)'
    BY <1>1, <1>5 DEF Owned
  <2> QED
    BY <2>1, <2>2, <2>3
<1>8. \A r \in Slots : b \notin Reach(r) /\ (r # s => b \notin Owned(r))
  BY <1>7 DEF SInv, Structure, Reachable, Ownership
<1>9. \A a : Refs(a)' = Refs(a)
  BY <1>6 DEF Refs
<1>10. Ownership'
  <2>1. \A r \in Slots : Owned(r)' = Owned(r) \ {b}
    BY <1>4, <1>7, <1>8 DEF SameSets
  <2> QED
    BY <1>2, <2>1 DEF SInv, Structure, Ownership
<1>11. Distinct'
  <2>1. Tidy(s)'
    BY <1>2, <1>3, <1>5 DEF Tidy
  <2> QED
    BY <1>4, <2>1 DEF Distinct
<1>12. Reachable'
  <2>1. \A r \in Slots : Reach(r)' \subseteq alive'
    BY <1>2, <1>6, <1>8 DEF SInv, Structure, Reachable
  <2>2. \A r, u \in Slots : Private(r)' \cap Reach(u)' = {}
    BY <1>4, <1>6, <1>7 DEF SInv, Structure, Reachable, SameSets
  <2>3. \A r, u \in Slots : Linking(r)' /\ u \in marked'[r] => cur'[r] \notin Reach(u)'
    BY <1>2, <1>4, <1>5, <1>6 DEF SInv, Structure, Reachable
  <2> QED
    BY <2>1, <2>2, <2>3 DEF Reachable
<1>13. Links'
  BY <1>2, <1>4, <1>5, <1>9 DEF SInv, Structure, Links
<1>14. \A a : Linkers(a)' = Linkers(a)
  BY <1>1, <1>2, <1>4, <1>5 DEF Linkers
<1>15. RefCount'
  <2>1. ASSUME NEW r \in Slots, Linking(r)'
        PROVE  WrapAdd(active[cur[r]], cnt[r])' = Cardinality(Refs(cur[r]))'
    <3>1. r # s /\ Linking(r) /\ cur'[r] = cur[r] /\ cur[r] \in Batches /\ cnt'[r] = cnt[r]
      BY <1>2, <1>4, <1>5, <2>1, LinkedBatch
    <3>2. cur[r] # b
      BY <1>8, <3>1 DEF Owned
    <3>3. active'[cur[r]] = active[cur[r]]
      BY <1>2, <3>1, <3>2
    <3> QED
      BY <1>9, <3>1, <3>3 DEF SInv, Structure, RefCount, WrapAdd
  <2>2. ASSUME NEW a \in alive', Linkers(a)' = {}
        PROVE  active'[a] = Cardinality(Refs(a)')
    <3>1. a \in alive /\ a \in Batches /\ a # b /\ Linkers(a) = {}
      BY <1>2, <1>14, <2>2 DEF SInv, TypeOK
    <3> QED
      BY <1>2, <1>9, <3>1 DEF SInv, Structure, RefCount
  <2> QED
    BY <2>1, <2>2 DEF RefCount
<1>16. Unallocated'
  BY <1>2 DEF SInv, Structure, Unallocated
<1> QED
  BY <1>10, <1>11, <1>12, <1>13, <1>15, <1>16 DEF Structure

-----------------------------------------------------------------------------
(* The theorems. *)

\* A new collector has no batch.
LEMMA InitStructure == Init => SInv
<1> SUFFICES ASSUME Init PROVE SInv
  OBVIOUS
<1>1. TypeOK /\ Control /\ Activity
  BY InitType, InitControl, InitActivity
<1>2. \A s \in Slots : /\ head[s] = INACTIVE /\ list[s] = <<>> /\ stack[s] = <<>>
                       /\ batch[s] = NULL /\ pc[s] = "user"
  BY DEF Init
<1>3. \A s \in Slots : /\ Linked(s) = {} /\ Pending(s) = {} /\ Private(s) = {} /\ Owned(s) = {}
                       /\ Reach(s) = {} /\ ~Linking(s)
  BY <1>2, ElemsEmpty, FramesEmpty DEF Linked, Pending, Private, Owned, Reach, Linking
<1>4. Ownership /\ Reachable /\ Links
  BY <1>3 DEF Ownership, Reachable, Links
<1>5. Distinct
  BY <1>2, <1>3, ElemsEmpty, FramesEmpty DEF Distinct, Tidy
<1>6. RefCount /\ Unallocated
  BY <1>3 DEF RefCount, Unallocated, Init
<1> QED
  BY <1>1, <1>4, <1>5, <1>6 DEF SInv, Structure

\* Every step of a slot preserves the structural invariant.
LEMMA NextStructure == SInv /\ [Next]_vars => SInv'
<1> SUFFICES ASSUME SInv, [Next]_vars PROVE SInv'
  OBVIOUS
<1>1. TypeOK' /\ Control' /\ Activity'
  BY NextType, NextControl, NextActivity DEF SInv
<1>2. Quiet => Structure'
  BY <1>1, QuietStep
<1>3. AllIdle => Structure'
  BY <1>2, IdleStep
<1>4. CASE UNCHANGED vars
  <2>1. CASE Slots = {}
    <3>1. AllIdle
      BY <1>4, <2>1 DEF AllIdle, vars, batchVars
    <3> QED
      BY <1>1, <1>3, <3>1 DEF SInv
  <2>2. CASE Slots # {}
    <3>1. PICK s \in Slots : TRUE
      BY <2>2
    <3>2. AllIdle
      BY <1>4, <3>1, IdleActions
    <3> QED
      BY <1>1, <1>3, <3>2 DEF SInv
  <2> QED
    BY <2>1, <2>2
<1>5. ASSUME NEW s \in Slots, Drain(s) \/ Internal(s) \/ User(s)
      PROVE  Structure'
  <2>1. CASE \/ Drain(s) \/ HeavyReturn(s) \/ LinkSkip(s) \/ LinkRetry(s) \/ Reclaim(s)
             \/ \E t \in Slots : Interrupt(s, t)
             \/ \E t \in Slots : ScanSkip(s, t) \/ ScanMark(s, t) \/ ScanGiveUp(s, t) \/ LinkLoad(s, t)
             \/ Enter(s) \/ (Leave(s) /\ guards[s] # 1) \/ Flush(s)
             \/ \E c \in Cells : Protect(s, c) \/ \E n \in Objects \cup {NULL} : Swap(s, c, n)
             \/ \E o \in Objects : Add(s, o) /\ batch[s] # NULL
    BY <1>3, <2>1, IdleActions
  <2>2. CASE Leave(s) /\ guards[s] = 1
    <3>1. /\ pc[s] = "user" /\ TraverseFrom(s, View(s))
          /\ head' = [head EXCEPT ![s] = INACTIVE] /\ UNCHANGED <<batchVars, retireVars>>
      BY <2>2 DEF Leave, LeaveReservation
    <3> QED
      BY <1>2, <3>1, TakeList
  <2>3. CASE Refresh(s)
    <3>1. /\ pc[s] = "user" /\ TraverseFrom(s, View(s))
          /\ head' = [head EXCEPT ![s] = <<>>] /\ UNCHANGED <<batchVars, retireVars>>
      BY <2>3 DEF Refresh
    <3> QED
      BY <1>2, <3>1, TakeList
  <2>4. CASE Traverse(s) \/ ReclaimCall(s) \/ ReclaimReturn(s)
    BY <1>2, <2>4, TraverseQuiet, CallQuiet, ReturnQuiet
  <2>5. CASE Reserve(s) \/ \E o \in Objects : Add(s, o) /\ batch[s] = NULL
    BY <2>5, AllocStructure
  <2>6. CASE Publish(s) \/ LinkCas(s) \/ Count(s) \/ Dec(s) \/ Dealloc(s)
    BY <2>6, PublishStructure, LinkStructure, CountStructure, DecStructure, DeallocStructure
  <2>7. ASSUME NEW o \in Objects, Add(s, o) PROVE Structure'
    BY <2>1, <2>5, <2>7
  <2>8. CASE Leave(s)
    BY <2>1, <2>2, <2>8
  <2> QED
    BY <1>5, <2>1, <2>2, <2>3, <2>4, <2>5, <2>6, <2>7, <2>8 DEF Internal, User
<1> QED
  BY <1>1, <1>4, <1>5 DEF Next, SInv

\* The structural invariant holds in every reachable state.
THEOREM StructureInvariant == Spec => []SInv
  BY InitStructure, NextStructure, PTL DEF Spec

\* Batch::active is what try_retire and traverse take it for, for any number of
\* slots: the number of slots still to decrement it, less the links its retirer
\* has made and not yet added, although it wraps below zero meanwhile.
THEOREM RefCountCorrect == Spec => []RefCount
<1>1. SInv => RefCount
  BY DEF SInv, Structure
<1> QED
  BY <1>1, StructureInvariant, PTL

\* No slot reads an Entry, or decrements the count, of a freed batch.
THEOREM NoDanglingEntry == Spec => []ListsAlive
<1>1. SInv => ListsAlive
  BY DEF SInv, Structure, Reachable, ListsAlive
<1> QED
  BY <1>1, StructureInvariant, PTL
=============================================================================
