------------------------ MODULE OwnedGuardLockProofs ------------------------
(***************************************************************************)
(* An OwnedGuard that threads share keeps its batch intact, for any number  *)
(* of threads and objects and any batch size.  The invariant says who is in *)
(* the critical section, which objects are yet to be pushed, what is known  *)
(* of the batch at each place, and where every retired object is.           *)
(***************************************************************************)
EXTENDS OwnedGuardLock, FiniteSetTheorems, TLAPS

Batches == [entries : Seq(Objects), cap : Nat]

\* The lock is held from Lock to Unlock.
LockInv ==
  \A t \in Threads : pc[t] \notin {"idle", "lock"} <=> lock = t

\* Calls in progress retire distinct objects, which are not retired before they
\* are pushed.
CallInv ==
  /\ \A t \in Threads :
       /\ pc[t] = "push" => op[t] = "retire"
       /\ op[t] = "retire" => arg[t] \in Objects
       /\ op[t] = "retire" /\ pc[t] \in {"lock", "init", "new", "grow", "push"} => arg[t] \notin retired
  /\ \A t, u \in Threads : arg[t] # NULL /\ arg[t] = arg[u] => t = u

\* What a thread has found out of the batch stays true until it has used it.  There
\* is room as long as one reservation is not spent.
BatchInv ==
  /\ batch # NULL => batch \in Batches /\ Len(batch.entries) <= batch.cap
  /\ \A t \in Threads : pc[t] = "new" => batch = NULL
  /\ PushHasRoom
  /\ promise # spent => batch # NULL /\ Len(batch.entries) < batch.cap

\* The entries of the batches: the local batch is number 0, published ones follow.
Entries ==
  [k \in 0 .. Len(published) |->
     IF k > 0 THEN published[k] ELSE IF batch = NULL THEN <<>> ELSE batch.entries]

\* Of batches E: o is in entry i of batch k; it is nowhere; it is in one entry.
At(E, o, k, i) == k \in DOMAIN E /\ i \in 1 .. Len(E[k]) /\ E[k][i] = o
Nowhere(E, o) == \A k, i : ~At(E, o, k, i)
OnlyAt(E, o, k, i) == At(E, o, k, i) /\ \A l, j : At(E, o, l, j) => l = k /\ j = i

\* An object is nowhere before it is retired, and in one entry from then on.
Placed(E, R) ==
  \A o \in Objects :
    /\ o \notin R => Nowhere(E, o)
    /\ o \in R => \E k, i : OnlyAt(E, o, k, i)

PlaceInv == Placed(Entries, retired)

SharedInv == TypeOK /\ LockInv /\ CallInv /\ BatchInv /\ PlaceInv

-----------------------------------------------------------------------------
(* Where objects are. *)

\* An entry is pushed.
LEMMA PlacePush ==
  ASSUME NEW E, NEW R, Placed(E, R), NEW o \in Objects \ R, 0 \in DOMAIN E, E[0] \in Seq(Objects)
  PROVE  Placed([E EXCEPT ![0] = Append(@, o)], R \cup {o})
<1> DEFINE n == Len(E[0]) + 1
           F == [E EXCEPT ![0] = Append(@, o)]
<1>1. /\ DOMAIN F = DOMAIN E /\ \A k \in DOMAIN E : k # 0 => F[k] = E[k]
      /\ n \in Nat \ {0} /\ Len(F[0]) = n /\ Len(E[0]) = n - 1
      /\ F[0][n] = o
      /\ \A i \in 1 .. n - 1 : F[0][i] = E[0][i]
  OBVIOUS
<1> HIDE DEF n, F
<1>2. ASSUME NEW x, NEW k, NEW i PROVE At(F, x, k, i) <=> (At(E, x, k, i) \/ (x = o /\ k = 0 /\ i = n))
  <2>1. CASE k = 0  BY <2>1, <1>1 DEF At
  <2>2. CASE k # 0  BY <2>2, <1>1 DEF At
  <2> QED  BY <2>1, <2>2
<1>3. ASSUME NEW x \in Objects, x \notin R \cup {o} PROVE Nowhere(F, x)
  BY <1>2, <1>3 DEF Placed, Nowhere
<1>4. ASSUME NEW x \in R, x \in Objects PROVE \E k, i : OnlyAt(F, x, k, i)
  <2>1. PICK k, i : OnlyAt(E, x, k, i)  BY <1>4 DEF Placed
  <2>2. OnlyAt(F, x, k, i)  BY <2>1, <1>2 DEF OnlyAt
  <2> QED  BY <2>2
<1>5. OnlyAt(F, o, 0, n)
  BY <1>2 DEF OnlyAt, Placed, Nowhere
<1>6. Placed(F, R \cup {o})  BY <1>3, <1>4, <1>5 DEF Placed
<1> QED  BY <1>6 DEF F

\* The batch is published: its entries move, together, to the end.
LEMMA PlacePublish ==
  ASSUME NEW E, NEW R, Placed(E, R), NEW n \in Nat \ {0}, DOMAIN E = 0 .. n - 1, NEW F, DOMAIN F = 0 .. n,
         F[0] = <<>>, F[n] = E[0], \A k \in 1 .. n - 1 : F[k] = E[k]
  PROVE  Placed(F, R)
<1> DEFINE Was(k) == IF k = n THEN 0 ELSE k
<1>1. ASSUME NEW x, NEW k, NEW i PROVE At(F, x, k, i) <=> k # 0 /\ At(E, x, Was(k), i)
  <2>1. CASE k = 0  BY <2>1 DEF At
  <2>2. CASE k = n  BY <2>2 DEF At
  <2>3. CASE k \in 1 .. n - 1  BY <2>3 DEF At
  <2>4. CASE k \notin 0 .. n
    <3>1. 0 .. n - 1 \subseteq 0 .. n  OBVIOUS
    <3> QED  BY <2>4, <3>1 DEF At
  <2> QED  BY <2>1, <2>2, <2>3, <2>4
<1>2. \A x, i : ~At(E, x, n, i)  BY DEF At
<1>3. ASSUME NEW x \in Objects, x \notin R PROVE Nowhere(F, x)
  BY <1>1, <1>3 DEF Placed, Nowhere
<1>4. ASSUME NEW x \in Objects, x \in R PROVE \E k, i : OnlyAt(F, x, k, i)
  <2>1. PICK k, i : OnlyAt(E, x, k, i)  BY <1>4 DEF Placed
  <2>2. CASE k = 0
    <3>1. OnlyAt(F, x, n, i)  BY <2>1, <2>2, <1>1, <1>2 DEF OnlyAt
    <3> QED  BY <3>1
  <2>3. CASE k # 0
    <3>1. OnlyAt(F, x, k, i)  BY <2>1, <2>3, <1>1, <1>2 DEF OnlyAt
    <3> QED  BY <3>1
  <2> QED  BY <2>2, <2>3
<1> QED  BY <1>3, <1>4 DEF Placed

-----------------------------------------------------------------------------
(* The steps. *)

\* A call begins, and takes the lock.
LEMMA CallKeeps ==
  ASSUME SharedInv, NEW t \in Threads, ReserveRetire(t) \/ Flush(t) \/ (\E o \in Objects : DeferRetire(t, o)) \/ Lock(t)
  PROVE  SharedInv'
<1> USE NullAssumption DEF SharedInv, promiseVars, EndPromise, SpendPromises
<1>1. CASE ReserveRetire(t)
  <2>1. TypeOK'  BY <1>1 DEF ReserveRetire, Call, TypeOK, Ops
  <2>2. LockInv'  BY <1>1 DEF ReserveRetire, Call, TypeOK, LockInv
  <2>3. CallInv'  BY <1>1 DEF ReserveRetire, Call, TypeOK, CallInv
  <2>4. BatchInv'  BY <1>1 DEF ReserveRetire, Call, TypeOK, LockInv, BatchInv, PushHasRoom
  <2>5. PlaceInv'  BY <1>1 DEF ReserveRetire, Call, Entries, PlaceInv
  <2> QED  BY <2>1, <2>2, <2>3, <2>4, <2>5
<1>2. CASE Flush(t)
  <2>1. TypeOK'  BY <1>2 DEF Flush, Call, TypeOK, Ops
  <2>2. LockInv'  BY <1>2 DEF Flush, Call, TypeOK, LockInv
  <2>3. CallInv'  BY <1>2 DEF Flush, Call, TypeOK, CallInv
  <2>4. BatchInv'  BY <1>2 DEF Flush, Call, TypeOK, LockInv, BatchInv, PushHasRoom
  <2>5. PlaceInv'  BY <1>2 DEF Flush, Call, Entries, PlaceInv
  <2> QED  BY <2>1, <2>2, <2>3, <2>4, <2>5
<1>3. CASE (\E o \in Objects : DeferRetire(t, o))
  <2>1. TypeOK'  BY <1>3 DEF DeferRetire, Call, TypeOK, Ops
  <2>2. LockInv'  BY <1>3 DEF DeferRetire, Call, TypeOK, LockInv
  <2>3. CallInv'  BY <1>3 DEF DeferRetire, Call, TypeOK, CallInv
  <2>4. BatchInv'  BY <1>3 DEF DeferRetire, Call, TypeOK, LockInv, BatchInv, PushHasRoom
  <2>5. PlaceInv'  BY <1>3 DEF DeferRetire, Call, Entries, PlaceInv
  <2> QED  BY <2>1, <2>2, <2>3, <2>4, <2>5
<1>4. CASE Lock(t)
  <2>1. TypeOK'  BY <1>4 DEF Lock, Goto, TypeOK, Ops
  <2>2. LockInv'  BY <1>4 DEF Lock, Goto, TypeOK, LockInv
  <2>3. CallInv'  BY <1>4 DEF Lock, Goto, TypeOK, CallInv
  <2>4. BatchInv'  BY <1>4 DEF Lock, Goto, TypeOK, LockInv, BatchInv, PushHasRoom
  <2>5. PlaceInv'  BY <1>4 DEF Lock, Goto, Entries, PlaceInv
  <2> QED  BY <2>1, <2>2, <2>3, <2>4, <2>5
<1> QED  BY <1>1, <1>2, <1>3, <1>4

\* get_or_init.
LEMMA InitKeeps ==
  ASSUME SharedInv, NEW t \in Threads, GetOrInit(t) \/ New(t)
  PROVE  SharedInv'
<1> USE NullAssumption DEF SharedInv, promiseVars, EndPromise, SpendPromises
<1>1. CASE GetOrInit(t)
  <2>1. TypeOK'  BY <1>1 DEF GetOrInit, Goto, TypeOK, Ops
  <2>2. LockInv'  BY <1>1 DEF GetOrInit, Goto, TypeOK, LockInv
  <2>3. CallInv'  BY <1>1 DEF GetOrInit, Goto, TypeOK, CallInv
  <2>4. BatchInv'  BY <1>1 DEF GetOrInit, Goto, TypeOK, LockInv, BatchInv, PushHasRoom
  <2>5. PlaceInv'  BY <1>1 DEF GetOrInit, Goto, Entries, PlaceInv
  <2> QED  BY <2>1, <2>2, <2>3, <2>4, <2>5
<1>2. CASE New(t)
  <2>1. /\ batch = NULL /\ promise = spent /\ pc[t] = "new" /\ lock = t
        /\ Len(batch'.entries) = 0 /\ batch'.entries = <<>> /\ batch'.cap \in Nat
        /\ batch' \in Batches /\ batch' # NULL
    <3>1. batch = NULL /\ promise = spent /\ pc[t] = "new" /\ lock = t
      BY <1>2 DEF New, BatchInv, LockInv
    <3>2. batch' = [entries |-> <<>>, cap |-> BatchSize]  BY <1>2 DEF New
    <3>3. batch'.entries = <<>> /\ batch'.cap \in Nat /\ batch' \in Batches
      BY <3>2, BatchAssumption DEF Batches
    <3> QED  BY <3>1, <3>3 DEF Batches
  <2>2. TypeOK'  BY <1>2, <2>1, BatchAssumption DEF New, Goto, TypeOK, Batches
  <2>3. LockInv'  BY <1>2 DEF New, Goto, TypeOK, LockInv
  <2>4. CallInv'  BY <1>2 DEF New, Goto, TypeOK, CallInv
  <2>5. BatchInv'  BY <1>2, <2>1 DEF New, Goto, TypeOK, LockInv, BatchInv, PushHasRoom
  <2>6. PlaceInv'  BY <1>2, <2>1 DEF New, Entries, PlaceInv
  <2> QED  BY <2>2, <2>3, <2>4, <2>5, <2>6
<1> QED  BY <1>1, <1>2

\* try_reserve, or an allocation that fails.
LEMMA GrowKeeps ==
  ASSUME SharedInv, NEW t \in Threads, Grow(t) \/ AllocError(t)
  PROVE  SharedInv'
<1> USE NullAssumption DEF SharedInv, promiseVars, EndPromise, SpendPromises
<1>1. CASE Grow(t)
  <2>1. /\ pc[t] = "grow" /\ lock = t /\ batch # NULL /\ batch \in Batches
        /\ Len(batch.entries) \in Nat /\ batch.cap \in Nat /\ Len(batch.entries) <= batch.cap
    BY <1>1 DEF Grow, BatchInv, PushHasRoom, LockInv, Batches
  <2>2. /\ batch' \in Batches /\ batch' # NULL /\ batch'.entries = batch.entries
        /\ Len(batch'.entries) < batch'.cap /\ batch'.cap \in Nat
    <3>1. CASE Len(batch.entries) = batch.cap  BY <1>1, <2>1, <3>1 DEF Grow, Batches
    <3>2. CASE Len(batch.entries) # batch.cap  BY <1>1, <2>1, <3>2 DEF Grow
    <3> QED  BY <3>1, <3>2
  <2>3. TypeOK'
    <3>1. batch'.entries \in Seq(Objects) /\ Len(batch'.entries) <= batch'.cap
      BY <2>1, <2>2 DEF Batches
    <3> QED  BY <1>1, <3>1 DEF Grow, Room, Goto, TypeOK
  <2>4. LockInv'  BY <1>1 DEF Grow, Room, Goto, TypeOK, LockInv
  <2>5. CallInv'  BY <1>1 DEF Grow, Room, Goto, TypeOK, CallInv
  <2>6. BatchInv'
    <3>1. \A u \in Threads : pc'[u] # "new"
      BY <1>1, <2>1 DEF Grow, Room, Goto, TypeOK, LockInv
    <3> QED  BY <2>1, <2>2, <3>1 DEF BatchInv, PushHasRoom
  <2>7. PlaceInv'
    <3>1. Entries' = Entries  BY <1>1, <2>1, <2>2 DEF Grow, Entries
    <3> QED  BY <1>1, <3>1 DEF Grow, PlaceInv
  <2> QED  BY <2>3, <2>4, <2>5, <2>6, <2>7
<1>2. CASE AllocError(t)
  <2>1. TypeOK'  BY <1>2 DEF AllocError, Allocates, Goto, TypeOK, Ops
  <2>2. LockInv'  BY <1>2 DEF AllocError, Allocates, Goto, TypeOK, LockInv
  <2>3. CallInv'  BY <1>2 DEF AllocError, Allocates, Goto, TypeOK, CallInv
  <2>4. BatchInv'
    <3>1. promise' # spent' => promise # spent  BY <1>2 DEF AllocError
    <3>2. /\ UNCHANGED batch
          /\ \A u \in Threads : pc'[u] = IF u = t THEN "unlock" ELSE pc[u]
      BY <1>2 DEF AllocError, Goto, TypeOK
    <3> QED  BY <3>1, <3>2 DEF BatchInv, PushHasRoom
  <2>5. PlaceInv'  BY <1>2 DEF AllocError, Allocates, Goto, Entries, PlaceInv
  <2> QED  BY <2>1, <2>2, <2>3, <2>4, <2>5
<1> QED  BY <1>1, <1>2

\* The entry is pushed.
LEMMA PushKeeps ==
  ASSUME SharedInv, NEW t \in Threads, Push(t)
  PROVE  SharedInv'
<1> USE NullAssumption DEF SharedInv, promiseVars, EndPromise, SpendPromises
<1>1. /\ pc[t] = "push" /\ lock = t /\ batch # NULL /\ batch \in Batches
      /\ Len(batch.entries) < batch.cap /\ arg[t] \in Objects \ retired
  BY DEF Push, BatchInv, PushHasRoom, LockInv, CallInv, TypeOK
<1>2. batch.entries \in Seq(Objects) /\ batch.cap \in Nat  BY <1>1 DEF Batches
<1>3. /\ batch'.entries = Append(batch.entries, arg[t]) /\ batch'.cap = batch.cap
      /\ batch' \in Batches /\ Len(batch'.entries) = Len(batch.entries) + 1
  <2>1. batch' = [batch EXCEPT !.entries = Append(@, arg[t])]  BY DEF Push
  <2>2. Append(batch.entries, arg[t]) \in Seq(Objects)  BY <1>1, <1>2
  <2>3. batch' \in Batches  BY <1>1, <2>1, <2>2 DEF Batches
  <2>4. batch'.entries = Append(batch.entries, arg[t]) /\ batch'.cap = batch.cap
    BY <1>1, <2>1 DEF Batches
  <2> QED  BY <1>2, <2>3, <2>4
<1>4. batch' # NULL /\ Len(batch'.entries) <= batch'.cap  BY <1>1, <1>2, <1>3 DEF Batches
<1>5. TypeOK'
  <2>1. batch'.entries \in Seq(Objects)  BY <1>3 DEF Batches
  <2> QED  BY <1>1, <1>4, <2>1 DEF Push, Goto, TypeOK
<1>6. LockInv'  BY DEF Push, Goto, TypeOK, LockInv
<1>7. CallInv'  BY <1>1 DEF Push, Goto, TypeOK, CallInv
<1>8. BatchInv'
  <2>1. \A u \in Threads : pc'[u] \notin {"new", "grow", "push"}
    BY <1>1 DEF Push, Goto, TypeOK, LockInv
  <2>2. promise' = spent'  BY DEF Push
  <2> QED  BY <1>3, <1>4, <2>1, <2>2 DEF BatchInv, PushHasRoom
<1>9. PlaceInv'
  <2>1. Entries' = [Entries EXCEPT ![0] = Append(@, arg[t])]
    <3>1. 0 \in 0 .. Len(published)  BY DEF TypeOK
    <3>2. DOMAIN Entries' = DOMAIN Entries /\ DOMAIN Entries = 0 .. Len(published)
      BY DEF Push, Entries
    <3>3. \A k \in 0 .. Len(published) : k # 0 => Entries'[k] = Entries[k]
      BY DEF Push, Entries
    <3>4. Entries'[0] = Append(Entries[0], arg[t])
      BY <1>1, <1>3, <1>4, <3>1 DEF Push, Entries
    <3>5. Entries' = [k \in 0 .. Len(published) |-> Entries'[k]]  BY DEF Push, Entries
    <3>6. Entries = [k \in 0 .. Len(published) |-> Entries[k]]  BY DEF Entries
    <3> QED  BY <3>1, <3>2, <3>3, <3>4, <3>5, <3>6
  <2>2. 0 \in DOMAIN Entries /\ Entries[0] \in Seq(Objects)
    BY <1>1, <1>2 DEF Entries, TypeOK
  <2>3. Placed([Entries EXCEPT ![0] = Append(@, arg[t])], retired \cup {arg[t]})
    BY <1>1, <2>2, PlacePush DEF PlaceInv
  <2> QED  BY <2>1, <2>3 DEF PlaceInv, Push
<1> QED  BY <1>5, <1>6, <1>7, <1>8, <1>9

\* The batch is published or kept, and the call returns.
LEMMA RetireKeeps ==
  ASSUME SharedInv, NEW t \in Threads, Publish(t) \/ KeepLocal(t) \/ Unlock(t)
  PROVE  SharedInv'
<1> USE NullAssumption DEF SharedInv, promiseVars, EndPromise, SpendPromises
<1>1. CASE Publish(t)
  <2>1. TypeOK'  BY <1>1 DEF Publish, Goto, TypeOK, Ops
  <2>2. LockInv'  BY <1>1 DEF Publish, Goto, TypeOK, LockInv
  <2>3. CallInv'  BY <1>1 DEF Publish, Goto, TypeOK, CallInv
  <2>4. BatchInv'  BY <1>1 DEF Publish, Goto, TypeOK, LockInv, BatchInv, PushHasRoom
  <2>5. PlaceInv'
    <3>1. batch # NULL /\ batch' = NULL /\ batch.entries \in Seq(Objects) /\ published \in Seq(Seq(Objects))
      BY <1>1 DEF Publish, BatchInv, Batches, TypeOK
    <3> DEFINE n == Len(published) + 1
    <3>2. /\ n \in Nat \ {0} /\ Len(published)' = n /\ Len(published) = n - 1
          /\ published'[n] = batch.entries
          /\ \A k \in 1 .. n - 1 : published'[k] = published[k]
      BY <1>1, <3>1 DEF Publish
    <3> HIDE DEF n
    <3>3. DOMAIN Entries = 0 .. n - 1 /\ (DOMAIN Entries)' = 0 .. n
      BY <3>2 DEF Entries
    <3>4. /\ Entries'[0] = <<>> /\ Entries'[n] = Entries[0]
          /\ \A k \in 1 .. n - 1 : Entries'[k] = Entries[k]
      BY <3>1, <3>2 DEF Entries
    <3> QED  BY <1>1, <3>2, <3>3, <3>4, PlacePublish DEF Publish, PlaceInv
  <2> QED  BY <2>1, <2>2, <2>3, <2>4, <2>5
<1>2. CASE KeepLocal(t)
  <2>1. TypeOK'  BY <1>2 DEF KeepLocal, Goto, TypeOK, Ops
  <2>2. LockInv'  BY <1>2 DEF KeepLocal, Goto, TypeOK, LockInv
  <2>3. CallInv'  BY <1>2 DEF KeepLocal, Goto, TypeOK, CallInv
  <2>4. BatchInv'  BY <1>2 DEF KeepLocal, Goto, TypeOK, LockInv, BatchInv, PushHasRoom
  <2>5. PlaceInv'  BY <1>2 DEF KeepLocal, Goto, Entries, PlaceInv
  <2> QED  BY <2>1, <2>2, <2>3, <2>4, <2>5
<1>3. CASE Unlock(t)
  <2>1. TypeOK'  BY <1>3 DEF Unlock, TypeOK, Ops
  <2>2. LockInv'  BY <1>3 DEF Unlock, TypeOK, LockInv
  <2>3. CallInv'
    <3>1. /\ \A u \in Threads : u # t => pc'[u] = pc[u] /\ op'[u] = op[u] /\ arg'[u] = arg[u]
          /\ pc'[t] = "idle" /\ op'[t] = NULL /\ arg'[t] = NULL /\ retired' = retired
      BY <1>3 DEF Unlock, TypeOK
    <3> QED  BY <3>1 DEF CallInv, Ops
  <2>4. BatchInv'  BY <1>3 DEF Unlock, TypeOK, LockInv, BatchInv, PushHasRoom
  <2>5. PlaceInv'  BY <1>3 DEF Unlock, Entries, PlaceInv
  <2> QED  BY <2>1, <2>2, <2>3, <2>4, <2>5
<1> QED  BY <1>1, <1>2, <1>3

\* The calls that need the only reference.
LEMMA UnsharedKeeps ==
  ASSUME SharedInv, Refresh \/ Drop \/ Enter \/ UNCHANGED vars
  PROVE  SharedInv'
<1> USE NullAssumption DEF SharedInv, promiseVars, EndPromise, SpendPromises
<1>1. CASE Refresh
  <2>1. TypeOK'  BY <1>1 DEF Refresh, callVars, TypeOK, Ops
  <2>2. LockInv'  BY <1>1 DEF Refresh, callVars, TypeOK, LockInv
  <2>3. CallInv'  BY <1>1 DEF Refresh, callVars, TypeOK, CallInv
  <2>4. BatchInv'  BY <1>1 DEF Refresh, callVars, TypeOK, LockInv, BatchInv, PushHasRoom
  <2>5. PlaceInv'  BY <1>1 DEF Refresh, callVars, Entries, PlaceInv
  <2> QED  BY <2>1, <2>2, <2>3, <2>4, <2>5
<1>2. CASE Drop
  <2>1. TypeOK'  BY <1>2 DEF Drop, callVars, TypeOK, Ops
  <2>2. LockInv'  BY <1>2 DEF Drop, callVars, TypeOK, LockInv
  <2>3. CallInv'  BY <1>2 DEF Drop, callVars, TypeOK, CallInv
  <2>4. BatchInv'  BY <1>2 DEF Drop, callVars, TypeOK, LockInv, BatchInv, PushHasRoom
  <2>5. PlaceInv'  BY <1>2 DEF Drop, callVars, Entries, PlaceInv
  <2> QED  BY <2>1, <2>2, <2>3, <2>4, <2>5
<1>3. CASE Enter
  <2>1. TypeOK'  BY <1>3 DEF Enter, callVars, TypeOK, Ops
  <2>2. LockInv'  BY <1>3 DEF Enter, callVars, TypeOK, LockInv
  <2>3. CallInv'  BY <1>3 DEF Enter, callVars, TypeOK, CallInv
  <2>4. BatchInv'  BY <1>3 DEF Enter, callVars, TypeOK, LockInv, BatchInv, PushHasRoom
  <2>5. PlaceInv'  BY <1>3 DEF Enter, callVars, Entries, PlaceInv
  <2> QED  BY <2>1, <2>2, <2>3, <2>4, <2>5
<1>4. CASE UNCHANGED vars
  <2>1. TypeOK'  BY <1>4 DEF vars, callVars, TypeOK, Ops
  <2>2. LockInv'  BY <1>4 DEF vars, callVars, TypeOK, LockInv
  <2>3. CallInv'  BY <1>4 DEF vars, callVars, TypeOK, CallInv
  <2>4. BatchInv'  BY <1>4 DEF vars, callVars, TypeOK, LockInv, BatchInv, PushHasRoom
  <2>5. PlaceInv'  BY <1>4 DEF vars, callVars, Entries, PlaceInv
  <2> QED  BY <2>1, <2>2, <2>3, <2>4, <2>5
<1> QED  BY <1>1, <1>2, <1>3, <1>4

\* Every step of a thread preserves the invariant.
LEMMA NextShared ==
  ASSUME SharedInv, [Next]_vars
  PROVE  SharedInv'
BY CallKeeps, InitKeeps, GrowKeeps, PushKeeps, RetireKeeps, UnsharedKeeps DEF Next, ThreadStep

\* A new owned guard has no batch, and its lock is free.
LEMMA InitShared == Init => SharedInv
<1> SUFFICES ASSUME Init PROVE SharedInv
  OBVIOUS
<1>1. TypeOK  BY DEF Init, TypeOK
<1>2. LockInv /\ CallInv  BY NullAssumption DEF Init, LockInv, CallInv, Ops
<1>3. BatchInv  BY DEF Init, BatchInv, PushHasRoom
<1>4. PlaceInv
  <2>1. Entries = [k \in 0 .. 0 |-> <<>>]  BY DEF Init, Entries
  <2> QED  BY <2>1 DEF Init, PlaceInv, Placed, Nowhere, At
<1> QED  BY <1>1, <1>2, <1>3, <1>4 DEF SharedInv

\* The invariant holds in every reachable state.
LEMMA SharedInvariant == Spec => []SharedInv
BY InitShared, NextShared, PTL DEF Spec

-----------------------------------------------------------------------------
\* The guard, its batch and the calls keep their types.
THEOREM OwnedGuardTypeCorrect == Spec => []TypeOK
<1>1. SharedInv => TypeOK  BY DEF SharedInv
<1> QED  BY <1>1, SharedInvariant, PTL

\* The copies of an object are the entries it is in.
LEMMA CopiesAt ==
  ASSUME SharedInv, NEW o \in Objects
  PROVE  Copies(o) = {p \in Nat \X Nat : At(Entries, o, p[1], p[2])}
<1> DEFINE In(q) == {i \in 1 .. Len(q) : q[i] = o}
<1>1. Len(published) \in Nat /\ DOMAIN Entries = 0 .. Len(published)
      /\ \A k \in 0 .. Len(published) : Entries[k] \in Seq(Objects)
  BY DEF SharedInv, TypeOK, BatchInv, Batches, Entries
<1>2. UNION {{<<k, i>> : i \in In(published[k])} : k \in 1 .. Len(published)}
        = {p \in Nat \X Nat : p[1] # 0 /\ At(Entries, o, p[1], p[2])}
  <2>1. \A k \in 1 .. Len(published) :
          Entries[k] = published[k] /\ k \in Nat \ {0} /\ Len(published[k]) \in Nat /\ k \in DOMAIN Entries
    BY <1>1 DEF Entries, SharedInv, TypeOK
  <2>2. \A k \in DOMAIN Entries : k # 0 => k \in 1 .. Len(published)  BY <1>1
  <2>3. ASSUME NEW p
        PROVE  p \in UNION {{<<k, i>> : i \in In(published[k])} : k \in 1 .. Len(published)}
                 <=> \E k \in 1 .. Len(published) : \E i \in In(published[k]) : p = <<k, i>>
    OBVIOUS
  <2> HIDE DEF In
  <2>4. ASSUME NEW k \in 1 .. Len(published), NEW i \in In(published[k])
        PROVE  k \in Nat /\ i \in Nat /\ k # 0 /\ At(Entries, o, k, i)
    BY <2>1 DEF In, At
  <2>5. ASSUME NEW k \in Nat, NEW i \in Nat, k # 0, At(Entries, o, k, i)
        PROVE  k \in 1 .. Len(published) /\ i \in In(published[k])
    BY <2>1, <2>2, <2>5 DEF In, At
  <2>6. ASSUME NEW p \in Nat \X Nat PROVE p = <<p[1], p[2]>> /\ p[1] \in Nat /\ p[2] \in Nat
    OBVIOUS
  <2>7. ASSUME NEW p \in UNION {{<<k, i>> : i \in In(published[k])} : k \in 1 .. Len(published)}
        PROVE  p \in Nat \X Nat /\ p[1] # 0 /\ At(Entries, o, p[1], p[2])
    BY <2>3, <2>4
  <2>8. ASSUME NEW p \in Nat \X Nat, p[1] # 0, At(Entries, o, p[1], p[2])
        PROVE  p \in UNION {{<<k, i>> : i \in In(published[k])} : k \in 1 .. Len(published)}
    BY <2>3, <2>5, <2>6, <2>8
  <2> QED  BY <2>7, <2>8
<1>3. (IF batch = NULL THEN {} ELSE {<<0, i>> : i \in In(batch.entries)})
        = {p \in Nat \X Nat : p[1] = 0 /\ At(Entries, o, p[1], p[2])}
  <2>1. 0 \in 0 .. Len(published)  BY <1>1
  <2>2. CASE batch = NULL
    <3>1. Entries[0] = <<>>  BY <2>1, <2>2 DEF Entries
    <3> QED  BY <2>2, <3>1 DEF At
  <2>3. CASE batch # NULL
    <3>1. Entries[0] = batch.entries  BY <2>1, <2>3 DEF Entries
    <3> QED  BY <1>1, <2>1, <2>3, <3>1 DEF At
  <2> QED  BY <2>2, <2>3
<1> QED  BY <1>2, <1>3 DEF Copies

\* No retirement is lost or duplicated by calls of several threads on one guard:
\* the entry of a retired object is in one batch, once.
THEOREM SharedRetiredOnce == Spec => []RetiredOnce
<1>1. SharedInv => RetiredOnce
  <2> SUFFICES ASSUME SharedInv, NEW o \in Objects
               PROVE  Cardinality(Copies(o)) = IF o \in retired THEN 1 ELSE 0
    BY DEF RetiredOnce
  <2>1. CASE o \notin retired
    <3>1. Copies(o) = {}  BY <2>1, CopiesAt DEF SharedInv, PlaceInv, Placed, Nowhere
    <3> QED  BY <2>1, <3>1, FS_EmptySet
  <2>2. CASE o \in retired
    <3>1. PICK k, i : OnlyAt(Entries, o, k, i)  BY <2>2 DEF SharedInv, PlaceInv, Placed
    <3>2. k \in Nat /\ i \in Nat  BY <3>1 DEF OnlyAt, At, Entries, SharedInv, TypeOK
    <3>3. Copies(o) = {<<k, i>>}  BY <3>1, <3>2, CopiesAt DEF OnlyAt
    <3> QED  BY <2>2, <3>3, FS_Singleton
  <2> QED  BY <2>1, <2>2
<1> QED  BY <1>1, SharedInvariant, PTL

\* Whoever is about to push has a batch with room.
THEOREM SharedPushHasRoom == Spec => []PushHasRoom
<1>1. SharedInv => PushHasRoom  BY DEF SharedInv, BatchInv
<1> QED  BY <1>1, SharedInvariant, PTL

\* A defer_retire after a successful reserve_retire of the same thread allocates
\* nothing, and so cannot fail, unless another thread pushed an entry or published
\* the batch in between, or the thread itself retired, flushed or refreshed.
THEOREM SharedReservedUnlessSpent == Spec => []ReservedUnlessSpent
<1>1. SharedInv => ReservedUnlessSpent
  BY DEF SharedInv, TypeOK, BatchInv, Batches, ReservedUnlessSpent, Allocates
<1> QED  BY <1>1, SharedInvariant, PTL
=============================================================================
