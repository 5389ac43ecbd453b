------------------------- MODULE ThreadSlotsProofs -------------------------
(***************************************************************************)
(* Slots have one owner, for any number of threads, OwnedGuards and ids.    *)
(* The invariant follows an id through its life: issued, owned by a thread  *)
(* or by an OwnedGuard, and then free for reuse, given up when the heap      *)
(* cannot grow, or lost with a thread that got it too late to return it.    *)
(***************************************************************************)
EXTENDS ThreadSlots, FiniteSetTheorems, TLAPS

\* The types of what the ids depend on.
IdType ==
  /\ free_from \in 0 .. MaxId
  /\ free_list \in [Ids -> Nat]
  /\ declined \in SUBSET Ids
  /\ lost \in SUBSET Ids
  /\ life \in [Threads -> {"running", "exiting", "gone"}]
  /\ thread \in [Threads -> Ids \cup {NONE}]
  /\ tg \in [Threads -> {"unused", "registered", "destroyed"}]
  /\ tg_id \in [Threads -> Ids \cup {0}]
  /\ stage \in [OwnedGuards -> {"none", "created", "live", "left"}]
  /\ slot \in [OwnedGuards -> Ids \cup {NONE}]

\* ThreadGuard::id is the id of THREAD while it is registered; an id in THREAD
\* after the ThreadGuard is destroyed is lost, and only such an id is in THREAD
\* when the thread ends; an OwnedGuard has an id from its creation to its end.
Tracked ==
  /\ \A t \in Threads : tg[t] = "registered" => thread[t] = tg_id[t] /\ thread[t] \in Ids
  /\ \A t \in Threads : tg[t] = "unused" => thread[t] = NONE
  /\ \A t \in Threads : tg[t] = "destroyed" /\ thread[t] # NONE => thread[t] \in lost
  /\ \A t \in Threads : life[t] = "gone" => thread[t] = NONE
  /\ \A g \in OwnedGuards : stage[g] = "none" <=> slot[g] = NONE

\* An id given up is neither in use nor free.
Retired == declined \cap (Held \cup Free) = {}

IdInv == IdType /\ Tracked /\ UniqueIds /\ Retired /\ IdsAccounted

\* An id that is allocated was nobody's.
LEMMA AllocFacts ==
  ASSUME IdInv, NEW id \in Ids, Alloc(id)
  PROVE  /\ id \notin Held /\ id \notin declined
         /\ free_from' \in 0 .. MaxId /\ free_list' \in [Ids -> Nat]
         /\ Free' = Free \ {id} /\ (\A i \in Ids : free_list'[i] <= 1)
         /\ {i \in Ids : i < free_from'} = {i \in Ids : i < free_from} \cup {id}
<1>1. CASE Free # {}
  <2>1. /\ id \in Free /\ free_list' = [free_list EXCEPT ![id] = @ - 1] /\ free_from' = free_from
    BY <1>1 DEF Alloc
  <2>2. free_list[id] = 1 /\ free_list'[id] = 0 /\ \A i \in Ids \ {id} : free_list'[i] = free_list[i]
    BY <2>1 DEF IdInv, IdType, UniqueIds, Free
  <2>3. free_list' \in [Ids -> Nat] /\ free_from' \in 0 .. MaxId
    BY <2>1, <2>2 DEF IdInv, IdType
  <2>4. id \notin Held /\ id \notin declined
    BY <2>1 DEF IdInv, UniqueIds, Retired
  <2>5. Free' = Free \ {id} /\ \A i \in Ids : free_list'[i] <= 1
    BY <2>2 DEF Free, IdInv, UniqueIds
  <2>6. id \in {i \in Ids : i < free_from}
    BY <2>1 DEF IdInv, IdsAccounted
  <2> QED
    BY <2>1, <2>3, <2>4, <2>5, <2>6
<1>2. CASE Free = {}
  <2>1. id = free_from /\ free_from' = free_from + 1 /\ free_list' = free_list
    BY <1>2 DEF Alloc
  <2>2. free_from \in 0 .. MaxId /\ free_list \in [Ids -> Nat]
    BY DEF IdInv, IdType
  <2>3. id \notin {i \in Ids : i < free_from}
    BY <2>1, <2>2
  <2>4. id \notin Held /\ id \notin declined /\ id \notin Free
    BY <2>3 DEF IdInv, IdsAccounted
  <2>5. free_from' \in 0 .. MaxId
    BY <2>1, <2>2, IdAssumption DEF Ids
  <2>6. {i \in Ids : i < free_from'} = {i \in Ids : i < free_from} \cup {id}
    BY <2>1, <2>2 DEF Ids
  <2>7. Free' = Free \ {id} /\ \A i \in Ids : free_list'[i] <= 1
    BY <1>2, <2>1 DEF Free, IdInv, UniqueIds
  <2> QED
    BY <2>1, <2>2, <2>4, <2>5, <2>6, <2>7
<1> QED
  BY <1>1, <1>2

\* An id that its owner frees is in the heap once, or given up.
LEMMA RecycleFacts ==
  ASSUME IdInv, NEW id \in Held, Recycle(id)
  PROVE  /\ free_from' = free_from /\ free_list' \in [Ids -> Nat] /\ declined' \in SUBSET Ids
         /\ lost' = lost
         /\ Free' \cup declined' = Free \cup declined \cup {id}
         /\ Free' \subseteq Free \cup {id} /\ declined' \subseteq declined \cup {id}
         /\ Free' \cap declined' = {} /\ \A i \in Ids : free_list'[i] <= 1
<1>1. id \in Ids /\ id \notin Free /\ id \notin declined /\ free_list[id] = 0
  <2>1. id \in Ids
    BY DEF IdInv, IdType, Held
  <2>2. id \notin Free /\ id \notin declined
    BY DEF IdInv, UniqueIds, Retired
  <2> QED
    BY <2>1, <2>2 DEF Free, IdInv, IdType
<1>2. CASE free_list' = [free_list EXCEPT ![id] = @ + 1] /\ UNCHANGED <<free_from, declined, lost>>
  <2>1. free_list'[id] = 1 /\ \A i \in Ids \ {id} : free_list'[i] = free_list[i]
    BY <1>1, <1>2 DEF IdInv, IdType
  <2>2. Free' = Free \cup {id} /\ \A i \in Ids : free_list'[i] <= 1
    BY <1>1, <2>1 DEF Free, IdInv, UniqueIds
  <2>3. free_list' \in [Ids -> Nat]
    BY <1>1, <1>2 DEF IdInv, IdType
  <2> QED
    BY <1>1, <1>2, <2>2, <2>3 DEF IdInv, IdType, Retired
<1>3. CASE declined' = declined \cup {id} /\ UNCHANGED <<free_from, free_list, lost>>
  BY <1>1, <1>3 DEF Free, IdInv, IdType, UniqueIds, Retired
<1> QED
  BY <1>2, <1>3 DEF Recycle

\* Thread t gets the id it had not: Thread::current.
LEMMA ThreadGets ==
  ASSUME IdInv, NEW t \in Threads, NEW id \in Ids, Alloc(id), thread[t] = NONE,
         thread' = [thread EXCEPT ![t] = id], UNCHANGED <<declined, slot>>,
         UNCHANGED lost \/ lost' = lost \cup {id}
  PROVE  UniqueIds' /\ Retired' /\ IdsAccounted'
<1>1. thread'[t] = id /\ \A u \in Threads \ {t} : thread'[u] = thread[u]
  BY DEF IdInv, IdType
<1>2. Held' = Held \cup {id}
  BY <1>1, IdAssumption DEF Held
<1>3. (\A u \in Threads : thread[u] # id) /\ (\A h \in OwnedGuards : slot[h] # id)
  BY AllocFacts, IdAssumption DEF Held
<1>4. UniqueIds'
  <2>1. Held' \cap Free' = {} /\ \A i \in Ids : free_list'[i] <= 1
    <3>1. Held \cap Free = {}
      BY DEF IdInv, UniqueIds
    <3>2. Free' = Free \ {id} /\ \A i \in Ids : free_list'[i] <= 1
      BY AllocFacts
    <3> QED
      BY <1>2, <3>1, <3>2
  <2>2. /\ \A u, v \in Threads : u # v /\ thread'[u] # NONE => thread'[u] # thread'[v]
        /\ \A h, k \in OwnedGuards : h # k /\ slot'[h] # NONE => slot'[h] # slot'[k]
        /\ \A u \in Threads, h \in OwnedGuards : thread'[u] # NONE => thread'[u] # slot'[h]
    BY <1>1, <1>3, IdAssumption DEF IdInv, UniqueIds
  <2> QED
    BY <2>1, <2>2 DEF UniqueIds
<1>5. Retired'
  BY <1>2, AllocFacts DEF IdInv, Retired
<1>6. IdsAccounted'
  BY <1>2, AllocFacts DEF IdInv, IdsAccounted
<1> QED
  BY <1>4, <1>5, <1>6

\* OwnedGuard g gets an id: Thread::create.
LEMMA OwnedGets ==
  ASSUME IdInv, NEW g \in OwnedGuards, NEW id \in Ids, Alloc(id), slot[g] = NONE,
         slot' = [slot EXCEPT ![g] = id], UNCHANGED <<declined, lost, thread>>
  PROVE  UniqueIds' /\ Retired' /\ IdsAccounted'
<1>1. slot'[g] = id /\ \A h \in OwnedGuards \ {g} : slot'[h] = slot[h]
  BY DEF IdInv, IdType
<1>2. Held' = Held \cup {id}
  BY <1>1, IdAssumption DEF Held
<1>3. (\A u \in Threads : thread[u] # id) /\ (\A h \in OwnedGuards : slot[h] # id)
  BY AllocFacts, IdAssumption DEF Held
<1>4. UniqueIds'
  <2>1. Held' \cap Free' = {} /\ \A i \in Ids : free_list'[i] <= 1
    <3>1. Held \cap Free = {}
      BY DEF IdInv, UniqueIds
    <3>2. Free' = Free \ {id} /\ \A i \in Ids : free_list'[i] <= 1
      BY AllocFacts
    <3> QED
      BY <1>2, <3>1, <3>2
  <2>2. /\ \A u, v \in Threads : u # v /\ thread'[u] # NONE => thread'[u] # thread'[v]
        /\ \A h, k \in OwnedGuards : h # k /\ slot'[h] # NONE => slot'[h] # slot'[k]
        /\ \A u \in Threads, h \in OwnedGuards : thread'[u] # NONE => thread'[u] # slot'[h]
    BY <1>1, <1>3, IdAssumption DEF IdInv, UniqueIds
  <2> QED
    BY <2>1, <2>2 DEF UniqueIds
<1>5. Retired'
  BY <1>2, AllocFacts DEF IdInv, Retired
<1>6. IdsAccounted'
  BY <1>2, AllocFacts DEF IdInv, IdsAccounted
<1> QED
  BY <1>4, <1>5, <1>6

\* An owner gives its id back.
LEMMA OwnerReturns ==
  ASSUME IdInv, NEW id \in Held, Held' = Held \ {id},
         Recycle(id),
         \A u \in Threads : thread'[u] = thread[u] \/ thread'[u] = NONE,
         \A h \in OwnedGuards : slot'[h] = slot[h] \/ slot'[h] = NONE
  PROVE  UniqueIds' /\ Retired' /\ IdsAccounted'
<1>1. UniqueIds'
  <2>1. Held' \cap Free' = {} /\ \A i \in Ids : free_list'[i] <= 1
    BY RecycleFacts DEF IdInv, UniqueIds
  <2> QED
    BY <2>1 DEF IdInv, UniqueIds
<1>2. Retired'
  BY RecycleFacts DEF IdInv, Retired
<1>3. IdsAccounted'
  BY RecycleFacts DEF IdInv, IdsAccounted
<1> QED
  BY <1>1, <1>2, <1>3

\* A thread takes an id that was lost to its grave.
LEMMA OwnerForgets ==
  ASSUME IdInv, NEW id \in Held, Held' = Held \ {id}, id \in lost, UNCHANGED idVars,
         \A u \in Threads : thread'[u] = thread[u] \/ thread'[u] = NONE,
         UNCHANGED slot
  PROVE  UniqueIds' /\ Retired' /\ IdsAccounted'
<1>1. Free' = Free /\ UNCHANGED <<free_from, free_list, declined, lost>>
  BY DEF Free, idVars
<1>2. UniqueIds'
  BY <1>1 DEF IdInv, UniqueIds
<1>3. Retired' /\ IdsAccounted'
  BY <1>1 DEF IdInv, Retired, IdsAccounted
<1> QED
  BY <1>2, <1>3

\* Nothing happens to the ids: a step of the guards, or a stutter.
LEMMA IdsIdle ==
  ASSUME IdInv, UNCHANGED <<idVars, thread, slot>>
  PROVE  UniqueIds' /\ Retired' /\ IdsAccounted'
<1>1. Held' = Held /\ Free' = Free
  BY DEF Held, Free, idVars
<1> QED
  BY <1>1 DEF IdInv, UniqueIds, Retired, IdsAccounted, idVars

\* No id has been issued in a new process.
LEMMA InitIds == Init => IdInv
<1> SUFFICES ASSUME Init PROVE IdInv
  OBVIOUS
<1>1. IdType
  BY IdAssumption DEF Init, IdType
<1>2. Held = {} /\ Free = {}
  BY DEF Init, Held, Free
<1>3. {i \in Ids : i < free_from} = {}
  BY DEF Init, Ids
<1> QED
  BY <1>1, <1>2, <1>3 DEF Init, IdInv, Tracked, UniqueIds, Retired, IdsAccounted

\* The steps of threads keep ids with one owner.
LEMMA ThreadIds ==
  ASSUME IdInv, NEW t \in Threads, ThreadStep(t)
  PROVE  IdInv'
<1> USE DEF idVars, tlsVars, ownedVars, resvVars
<1>1. CASE Current(t) \/ CurrentLate(t)
  <2>1. PICK id \in Ids : Alloc(id) /\ thread' = [thread EXCEPT ![t] = id]
                         /\ (tg_id' = [tg_id EXCEPT ![t] = id] \/ UNCHANGED tg_id)
                         /\ (Current(t) => tg_id' = [tg_id EXCEPT ![t] = id])
                         /\ (CurrentLate(t) => lost' = lost \cup {id})
    BY <1>1 DEF Current, CurrentLate
  <2>2. /\ thread[t] = NONE /\ life[t] # "gone" /\ UNCHANGED <<declined, life, stage, slot>>
        /\ \/ /\ tg' = [tg EXCEPT ![t] = "registered"] /\ tg_id' = [tg_id EXCEPT ![t] = id]
              /\ UNCHANGED lost
           \/ UNCHANGED <<tg, tg_id>> /\ tg[t] = "destroyed" /\ lost' = lost \cup {id}
    BY <1>1, <2>1 DEF Current, CurrentLate
  <2>3. UniqueIds' /\ Retired' /\ IdsAccounted'
    BY <2>1, <2>2, ThreadGets
  <2>4. free_from' \in 0 .. MaxId /\ free_list' \in [Ids -> Nat]
    BY <2>1, AllocFacts
  <2>5. IdType'
    BY <2>1, <2>2, <2>4 DEF IdInv, IdType
  <2>6. Tracked'
    BY <2>1, <2>2, IdAssumption DEF IdInv, IdType, Tracked
  <2> QED
    BY <2>3, <2>5, <2>6 DEF IdInv
<1>2. CASE DropThreadGuard(t)
  <2>1. /\ life[t] = "exiting" /\ tg[t] = "registered" /\ tg' = [tg EXCEPT ![t] = "destroyed"]
        /\ thread' = [thread EXCEPT ![t] = NONE] /\ Recycle(tg_id[t])
        /\ UNCHANGED <<life, tg_id, stage, slot>>
    BY <1>2 DEF DropThreadGuard
  <2>2. PICK id : id = thread[t]
    OBVIOUS
  <2>3. id = tg_id[t] /\ id \in Ids /\ id # NONE /\ id \in Held
    BY <2>1, <2>2, IdAssumption DEF IdInv, Tracked, Held
  <2>4. thread'[t] = NONE /\ \A u \in Threads \ {t} : thread'[u] = thread[u] /\ thread[u] # id
    BY <2>1, <2>2, <2>3 DEF IdInv, IdType, UniqueIds
  <2>5. \A g \in OwnedGuards : slot[g] # id
    BY <2>2, <2>3 DEF IdInv, UniqueIds
  <2>6. Held' = Held \ {id}
    BY <2>1, <2>2, <2>4, <2>5 DEF Held
  <2>7. UniqueIds' /\ Retired' /\ IdsAccounted'
    BY <2>1, <2>3, <2>4, <2>6, OwnerReturns
  <2>8. free_from' = free_from /\ free_list' \in [Ids -> Nat] /\ declined' \in SUBSET Ids
       /\ lost' = lost
    BY <2>1, <2>3, RecycleFacts
  <2>9. IdType'
    BY <2>1, <2>8 DEF IdInv, IdType
  <2>10. Tracked'
    BY <2>1, <2>8 DEF IdInv, IdType, Tracked
  <2> QED
    BY <2>7, <2>9, <2>10 DEF IdInv
<1>3. CASE Gone(t)
  <2>1. /\ tg[t] # "registered" /\ life' = [life EXCEPT ![t] = "gone"]
        /\ thread' = [thread EXCEPT ![t] = NONE]
        /\ UNCHANGED <<idVars, tg, tg_id, stage, slot>>
    BY <1>3 DEF Gone
  <2>2. PICK id : id = thread[t]
    OBVIOUS
  <2>3. IdType'
    BY <2>1 DEF IdInv, IdType
  <2>4. Tracked'
    BY <2>1 DEF IdInv, IdType, Tracked
  <2>5. CASE id = NONE
    <3>1. thread' = thread
      BY <2>1, <2>2, <2>5 DEF IdInv, IdType
    <3> QED
      BY <2>1, <2>3, <2>4, <3>1, IdsIdle DEF IdInv
  <2>6. CASE id # NONE
    <3>1. id \in Held /\ id \in lost
      BY <2>1, <2>2, <2>6 DEF Held, IdInv, IdType, Tracked
    <3>2. thread'[t] = NONE /\ \A u \in Threads \ {t} : thread'[u] = thread[u] /\ thread[u] # id
      BY <2>1, <2>2, <2>6 DEF IdInv, IdType, UniqueIds
    <3>3. \A g \in OwnedGuards : slot[g] # id
      BY <2>2, <2>6 DEF IdInv, UniqueIds
    <3>4. Held' = Held \ {id}
      BY <2>1, <2>2, <3>2, <3>3 DEF Held
    <3>5. UniqueIds' /\ Retired' /\ IdsAccounted'
      BY <2>1, <3>1, <3>2, <3>4, OwnerForgets
    <3> QED
      BY <2>3, <2>4, <3>5 DEF IdInv
  <2> QED
    BY <2>5, <2>6
<1>4. CASE Exit(t) \/ Spawn(t)
  <2>1. UNCHANGED <<idVars, thread, stage, slot>>
    BY <1>4 DEF Exit, Spawn
  <2>2. \/ life' = [life EXCEPT ![t] = "exiting"] /\ life[t] = "running" /\ UNCHANGED <<tg, tg_id>>
        \/ /\ life' = [life EXCEPT ![t] = "running"] /\ tg' = [tg EXCEPT ![t] = "unused"]
           /\ tg_id' = [tg_id EXCEPT ![t] = 0] /\ life[t] = "gone"
    BY <1>4 DEF Exit, Spawn
  <2>3. IdType'
    BY <2>1, <2>2 DEF IdInv, IdType
  <2>4. Tracked'
    BY <2>1, <2>2 DEF IdInv, IdType, Tracked
  <2> QED
    BY <2>1, <2>3, <2>4, IdsIdle DEF IdInv
<1>5. CASE EnterLocal(t) \/ \E id \in Ids : DropLocal(t, id) \/ ForgetLocal(t, id)
  <2>1. UNCHANGED <<idVars, tlsVars, ownedVars>>
    BY <1>5 DEF EnterLocal, DropLocal, ForgetLocal
  <2> QED
    BY <2>1, IdsIdle DEF IdInv, IdType, Tracked
<1> QED
  BY <1>1, <1>2, <1>3, <1>4, <1>5 DEF ThreadStep

\* The steps of OwnedGuards keep ids with one owner.
LEMMA OwnedIds ==
  ASSUME IdInv, NEW g \in OwnedGuards, OwnedStep(g)
  PROVE  IdInv'
<1> USE DEF idVars, tlsVars, ownedVars, resvVars
<1>1. CASE CreateOwned(g)
  <2>1. PICK id \in Ids : Alloc(id) /\ slot' = [slot EXCEPT ![g] = id]
    BY <1>1 DEF CreateOwned
  <2>2. /\ slot[g] = NONE /\ stage' = [stage EXCEPT ![g] = "created"]
        /\ UNCHANGED <<declined, lost, life, thread, tg, tg_id>>
    BY <1>1 DEF CreateOwned, IdInv, Tracked
  <2>3. UniqueIds' /\ Retired' /\ IdsAccounted'
    BY <2>1, <2>2, OwnedGets
  <2>4. free_from' \in 0 .. MaxId /\ free_list' \in [Ids -> Nat]
    BY <2>1, AllocFacts
  <2>5. IdType'
    BY <2>1, <2>2, <2>4 DEF IdInv, IdType
  <2>6. Tracked'
    BY <2>1, <2>2, IdAssumption DEF IdInv, IdType, Tracked
  <2> QED
    BY <2>3, <2>5, <2>6 DEF IdInv
<1>2. CASE EnterOwnedErr(g) \/ FreeOwned(g)
  <2>1. /\ stage[g] \in {"created", "left"} /\ stage' = [stage EXCEPT ![g] = "none"]
        /\ slot' = [slot EXCEPT ![g] = NONE] /\ Recycle(slot[g])
        /\ UNCHANGED <<life, thread, tg, tg_id>>
    BY <1>2 DEF EnterOwnedErr, FreeOwned
  <2>2. PICK id : id = slot[g]
    OBVIOUS
  <2>3. id # NONE /\ id \in Held
    BY <2>1, <2>2 DEF IdInv, Tracked, Held
  <2>4. slot'[g] = NONE /\ \A h \in OwnedGuards \ {g} : slot'[h] = slot[h] /\ slot[h] # id
    BY <2>1, <2>2, <2>3 DEF IdInv, IdType, UniqueIds
  <2>5. \A t \in Threads : thread[t] # id
    BY <2>2, <2>3 DEF IdInv, UniqueIds
  <2>6. Held' = Held \ {id}
    BY <2>1, <2>2, <2>4, <2>5 DEF Held
  <2>7. UniqueIds' /\ Retired' /\ IdsAccounted'
    BY <2>1, <2>2, <2>3, <2>4, <2>6, OwnerReturns
  <2>8. free_from' = free_from /\ free_list' \in [Ids -> Nat] /\ declined' \in SUBSET Ids
       /\ lost' = lost
    BY <2>1, <2>2, <2>3, RecycleFacts
  <2>9. IdType'
    BY <2>1, <2>8 DEF IdInv, IdType
  <2>10. Tracked'
    BY <2>1, <2>8 DEF IdInv, IdType, Tracked
  <2> QED
    BY <2>7, <2>9, <2>10 DEF IdInv
<1>3. CASE EnterOwned(g) \/ DropOwned(g)
  <2>1. /\ UNCHANGED <<idVars, life, thread, tg, tg_id, slot>>
        /\ stage[g] # "none"
        /\ stage' = [stage EXCEPT ![g] = "live"] \/ stage' = [stage EXCEPT ![g] = "left"]
    BY <1>3 DEF EnterOwned, DropOwned
  <2>2. IdType' /\ Tracked'
    BY <2>1 DEF IdInv, IdType, Tracked
  <2> QED
    BY <2>1, <2>2, IdsIdle DEF IdInv
<1> QED
  BY <1>1, <1>2, <1>3 DEF OwnedStep

\* Every step preserves the invariant on ids.
LEMMA NextIds == IdInv /\ [Next]_vars => IdInv'
<1> SUFFICES ASSUME IdInv, [Next]_vars PROVE IdInv'
  OBVIOUS
<1>1. CASE UNCHANGED vars
  BY <1>1, IdsIdle DEF vars, idVars, tlsVars, ownedVars, IdInv, IdType, Tracked
<1> QED
  BY <1>1, ThreadIds, OwnedIds DEF Next

\* No two threads or OwnedGuards ever have the same slot, for any number of them
\* and any interleaving of their registrations, exits and drops.
THEOREM SlotsAreUnique == Spec => []UniqueIds
<1>1. IdInv => UniqueIds
  BY DEF IdInv
<1> QED
  BY <1>1, InitIds, NextIds, PTL DEF Spec

\* Each id issued is in use or free, was given up because the heap could not grow,
\* or was issued by a Thread::current after the ThreadGuard was destroyed: for any
\* number of threads and OwnedGuards, this one call is all that forgets an id.
THEOREM OnlyLateIdsAreLost == Spec => []IdsAccounted
<1>1. IdInv => IdsAccounted
  BY DEF IdInv
<1> QED
  BY <1>1, InitIds, NextIds, PTL DEF Spec

\* The ids stay dense: the manager issues a new one only when every older one is
\* in use, was given up because the heap could not grow, or was lost to a late
\* Thread::current.
THEOREM IdsStayDense == Spec => GrowsOnlyWhenFull
<1> DEFINE Full == free_from' # free_from =>
                     \A i \in Ids : i < free_from => i \in Held \cup declined \cup lost
<1>1. ASSUME IdInv, free_from' # free_from, Next PROVE Free = {}
  <2>1. \A id : Recycle(id) => free_from' = free_from
    BY DEF Recycle
  <2>2. \A id : Alloc(id) => Free = {}
    BY <1>1 DEF Alloc
  <2>3. \A t \in Threads : ThreadStep(t) => Free = {}
    BY <1>1, <2>1, <2>2 DEF ThreadStep, Current, CurrentLate, Exit, DropThreadGuard, Gone, Spawn,
                            EnterLocal, DropLocal, ForgetLocal, idVars
  <2>4. \A g \in OwnedGuards : OwnedStep(g) => Free = {}
    BY <1>1, <2>1, <2>2 DEF OwnedStep, CreateOwned, EnterOwnedErr, EnterOwned, DropOwned,
                            FreeOwned, idVars
  <2> QED
    BY <1>1, <2>3, <2>4 DEF Next
<1>2. ASSUME IdInv, [Next]_vars PROVE [Full]_vars
  <2>1. CASE UNCHANGED vars
    BY <2>1
  <2>2. CASE Next /\ free_from' # free_from
    BY <1>1, <1>2, <2>2 DEF IdInv, IdsAccounted
  <2>3. CASE Next /\ free_from' = free_from
    BY <2>3
  <2> QED
    BY <1>2, <2>1, <2>2, <2>3
<1>3. Spec => []IdInv
  BY InitIds, NextIds, PTL DEF Spec
<1> QED
  BY <1>2, <1>3, PTL DEF Spec, GrowsOnlyWhenFull

-----------------------------------------------------------------------------
(* The guards of a slot. *)

\* The types of what the guards of a slot change, but for the count.
UseType ==
  /\ local \in [Threads -> [Ids -> Nat]]
  /\ misused \in BOOLEAN
  /\ active \in [Ids -> BOOLEAN]

\* The LocalGuards on slot i, of all threads.
Locals(i) == {p \in Threads \X Nat : p[2] \in 1 .. local[p[1]][i]}

\* A reservation counts at least the LocalGuards that are alive, misused or not.
\* This is why the count never wraps.
CountInv ==
  /\ guards \in [Ids -> Nat]
  /\ \A i \in Ids : IsFiniteSet(Locals(i)) /\ Cardinality(Locals(i)) <= guards[i]

\* LocalGuards are on the slot of their thread, which counts them; a slot that
\* counts guards is the slot of a thread; and a slot is active if it counts
\* guards or an OwnedGuard is alive on it.
UseInv ==
  /\ \A t \in Threads, i \in Ids : local[t][i] > 0 => thread[t] = i
  /\ \A t \in Threads : thread[t] # NONE => guards[thread[t]] = local[t][thread[t]]
  /\ \A i \in Ids : guards[i] > 0 => \E t \in Threads : thread[t] = i
  /\ \A i \in Ids : active[i] <=> \/ guards[i] > 0
                                  \/ \E g \in OwnedGuards : stage[g] = "live" /\ slot[g] = i

SlotInv == IdInv /\ UseType /\ CountInv /\ (~misused => UseInv)

\* One more LocalGuard: EnterLocal.
LEMMA LocalEnters ==
  ASSUME UseType, CountInv, NEW t \in Threads, NEW id \in Ids,
         local' = [local EXCEPT ![t][id] = @ + 1], guards' = [guards EXCEPT ![id] = @ + 1]
  PROVE  CountInv'
<1>1. /\ local'[t][id] = local[t][id] + 1
      /\ \A u \in Threads, i \in Ids : u # t \/ i # id => local'[u][i] = local[u][i]
      /\ guards' \in [Ids -> Nat] /\ guards'[id] = guards[id] + 1
      /\ \A i \in Ids \ {id} : guards'[i] = guards[i]
  BY DEF UseType, CountInv
<1>2. local[t][id] \in Nat  BY DEF UseType
<1>3. Locals(id)' = Locals(id) \cup {<<t, local[t][id] + 1>>}
  BY <1>1, <1>2 DEF Locals
<1>4. <<t, local[t][id] + 1>> \notin Locals(id)  BY <1>2 DEF Locals
<1>5. IsFiniteSet(Locals(id))' /\ Cardinality(Locals(id)') = Cardinality(Locals(id)) + 1
  BY <1>3, <1>4, FS_AddElement DEF CountInv
<1>6. Cardinality(Locals(id)') <= guards'[id]
  BY <1>1, <1>5, FS_CardinalityType DEF CountInv
<1>7. \A i \in Ids \ {id} : Locals(i)' = Locals(i)
  BY <1>1 DEF Locals
<1> QED  BY <1>1, <1>5, <1>6, <1>7 DEF CountInv

\* One LocalGuard less: DropLocal, or ForgetLocal, which does not count it.
LEMMA LocalLeaves ==
  ASSUME UseType, CountInv, NEW t \in Threads, NEW id \in Ids, local[t][id] > 0,
         local' = [local EXCEPT ![t][id] = @ - 1],
         guards' = [guards EXCEPT ![id] = @ - 1] \/ UNCHANGED guards
  PROVE  CountInv'
<1>1. /\ local'[t][id] = local[t][id] - 1
      /\ \A u \in Threads, i \in Ids : u # t \/ i # id => local'[u][i] = local[u][i]
  BY DEF UseType
<1>2. local[t][id] \in Nat /\ <<t, local[t][id]>> \in Locals(id)  BY DEF UseType, Locals
<1>3. Locals(id)' = Locals(id) \ {<<t, local[t][id]>>}
  BY <1>1, <1>2 DEF Locals
<1>4. IsFiniteSet(Locals(id))' /\ Cardinality(Locals(id)') = Cardinality(Locals(id)) - 1
  <2>1. IsFiniteSet(Locals(id))  BY DEF CountInv
  <2> DEFINE L == Locals(id)
             x == <<t, local[t][id]>>
  <2>2. IsFiniteSet(L) /\ x \in L  BY <1>2, <2>1
  <2> HIDE DEF L, x
  <2>3. IsFiniteSet(L \ {x}) /\ Cardinality(L \ {x}) = Cardinality(L) - 1
    BY <2>2, FS_RemoveElement
  <2> QED  BY <1>3, <2>3 DEF L, x
<1>5. Cardinality(Locals(id)) \in Nat /\ Cardinality(Locals(id)') \in Nat
  BY <1>4, FS_CardinalityType DEF CountInv
<1>6. /\ guards' \in [Ids -> Nat] /\ Cardinality(Locals(id)') <= guards'[id]
      /\ \A i \in Ids \ {id} : guards'[i] = guards[i]
  BY <1>4, <1>5 DEF CountInv
<1>7. \A i \in Ids \ {id} : Locals(i)' = Locals(i)
  BY <1>1 DEF Locals
<1> QED  BY <1>4, <1>6, <1>7 DEF CountInv

\* A step that touches no local guard keeps the count of them.
LEMMA LocalsIdle ==
  ASSUME CountInv, UNCHANGED <<local, guards>>
  PROVE  CountInv'
<1>1. \A i \in Ids : Locals(i)' = Locals(i)  BY DEF Locals
<1> QED  BY <1>1 DEF CountInv

\* The steps of threads.
LEMMA ThreadUses ==
  ASSUME SlotInv, NEW t \in Threads, ThreadStep(t)
  PROVE  SlotInv'
<1> USE DEF tlsVars, ownedVars, resvVars, useVars
<1>1. IdInv'  BY ThreadIds DEF SlotInv
<1>2. CASE Current(t) \/ CurrentLate(t)
  <2>1. PICK id \in Ids : Alloc(id) /\ thread' = [thread EXCEPT ![t] = id]
    BY <1>2 DEF Current, CurrentLate
  <2>2. thread[t] = NONE /\ UNCHANGED <<local, misused, stage, slot, guards, active>>
    BY <1>2 DEF Current, CurrentLate
  <2>3. id \notin Held  BY <2>1, AllocFacts DEF SlotInv
  <2>4. thread'[t] = id /\ \A u \in Threads \ {t} : thread'[u] = thread[u]
    BY <2>1 DEF SlotInv, IdInv, IdType
  <2>5. ASSUME UseInv PROVE UseInv'
    <3>1. \A u \in Threads : thread[u] # id  BY <2>3, IdAssumption DEF Held
    <3>2. guards[id] = 0 /\ local[t][id] = 0
      BY <2>2, <2>5, <3>1 DEF SlotInv, UseType, CountInv, UseInv
    <3>3. \A i \in Ids : local[t][i] = 0
      BY <2>2, <2>5, IdAssumption DEF SlotInv, UseType, UseInv
    <3> QED  BY <2>2, <2>4, <2>5, <3>1, <3>2, <3>3, IdAssumption DEF UseInv
  <2> QED  BY <1>1, <2>2, <2>5, LocalsIdle DEF SlotInv, UseType
<1>3. CASE DropThreadGuard(t) \/ Gone(t)
  <2>1. /\ thread' = [thread EXCEPT ![t] = NONE] /\ misused' \in BOOLEAN
        /\ ~misused' => ~misused /\ \A i \in Ids : local[t][i] = 0
        /\ UNCHANGED <<local, stage, slot, guards, active>>
    <3>1. \A i \in Ids : local[t][i] \in Nat  BY DEF SlotInv, UseType
    <3>2. CASE DropThreadGuard(t)
      <4>1. misused' = (misused \/ \E i \in Ids : local[t][i] > 0)  BY <3>2 DEF DropThreadGuard
      <4>2. misused' \in BOOLEAN /\ (~misused' => ~misused /\ \A i \in Ids : ~(local[t][i] > 0))
        BY <4>1 DEF SlotInv, UseType
      <4>3. ~misused' => \A i \in Ids : local[t][i] = 0  BY <3>1, <4>2
      <4> QED  BY <3>2, <4>2, <4>3 DEF DropThreadGuard
    <3>3. CASE Gone(t)  BY <3>3 DEF Gone, SlotInv, UseType
    <3> QED  BY <1>3, <3>2, <3>3
  <2>2. thread'[t] = NONE /\ \A u \in Threads \ {t} : thread'[u] = thread[u]
    BY <2>1 DEF SlotInv, IdInv, IdType
  <2>3. ASSUME ~misused' PROVE UseInv'
    <3>1. UseInv /\ \A i \in Ids : local[t][i] = 0  BY <2>1, <2>3 DEF SlotInv
    <3>2. \A i \in Ids : guards[i] > 0 => thread[t] # i
      BY <3>1, IdAssumption DEF UseInv
    <3> QED  BY <2>1, <2>2, <3>1, <3>2 DEF UseInv
  <2> QED  BY <1>1, <2>1, <2>3, LocalsIdle DEF SlotInv, UseType
<1>4. CASE Exit(t) \/ Spawn(t)
  <2>1. UNCHANGED <<thread, local, misused, stage, slot, guards, active>>
    BY <1>4 DEF Exit, Spawn
  <2> QED  BY <1>1, <2>1, LocalsIdle DEF SlotInv, UseType, UseInv
<1>5. CASE EnterLocal(t)
  <2>1. PICK id : id = thread[t]  OBVIOUS
  <2>2. id \in Ids /\ id # NONE  BY <1>5, <2>1 DEF EnterLocal, SlotInv, IdInv, IdType
  <2>3. /\ local' = [local EXCEPT ![t][id] = @ + 1]
        /\ guards' = [guards EXCEPT ![id] = @ + 1]
        /\ active' = [active EXCEPT ![id] = @ \/ guards[id] = 0]
        /\ UNCHANGED <<thread, misused, stage, slot>>
    BY <1>5, <2>1 DEF EnterLocal
  <2>4. CountInv'  BY <2>2, <2>3, LocalEnters DEF SlotInv
  <2>5. UseType'  BY <2>2, <2>3 DEF SlotInv, UseType
  <2>6. ASSUME UseInv PROVE UseInv'
    <3>1. /\ \A u \in Threads, i \in Ids : u # t \/ i # id => local'[u][i] = local[u][i]
          /\ local'[t][id] = local[t][id] + 1 /\ guards'[id] = guards[id] + 1
          /\ \A i \in Ids \ {id} : guards'[i] = guards[i] /\ active'[i] = active[i]
          /\ active'[id] = (active[id] \/ guards[id] = 0)
      BY <2>2, <2>3 DEF SlotInv, UseType, CountInv
    <3>2. guards[id] \in Nat /\ active[id] \in BOOLEAN  BY <2>2 DEF SlotInv, CountInv, UseType
    <3>3. active'[id] /\ guards'[id] > 0
      <4>1. guards[id] > 0 => active[id]  BY <2>2, <2>6 DEF UseInv
      <4>2. guards[id] = 0 \/ guards[id] > 0  BY <3>2
      <4>3. guards'[id] > 0  BY <3>1, <3>2
      <4>4. active'[id]  BY <3>1, <4>1, <4>2, Zenon
      <4> QED  BY <4>3, <4>4
    <3>4. \A u \in Threads : u # t => thread[u] # id  BY <2>1, <2>2 DEF SlotInv, IdInv, UniqueIds
    <3> QED  BY <2>1, <2>2, <2>3, <2>6, <3>1, <3>3, <3>4 DEF UseInv, SlotInv, IdInv, IdType
  <2> QED  BY <1>1, <2>3, <2>4, <2>5, <2>6 DEF SlotInv
<1>6. ASSUME NEW id \in Ids, DropLocal(t, id) PROVE SlotInv'
  <2>1. /\ local[t][id] > 0
        /\ local' = [local EXCEPT ![t][id] = @ - 1]
        /\ guards' = [guards EXCEPT ![id] = @ - 1]
        /\ active' = [active EXCEPT ![id] = @ /\ guards[id] # 1]
        /\ UNCHANGED <<thread, misused, stage, slot>>
    BY <1>6 DEF DropLocal
  <2>2. CountInv'  BY <2>1, LocalLeaves DEF SlotInv
  <2>3. UseType'  BY <2>1 DEF SlotInv, UseType
  <2>4. ASSUME UseInv PROVE UseInv'
    <3>1. /\ \A u \in Threads, i \in Ids : u # t \/ i # id => local'[u][i] = local[u][i]
          /\ local'[t][id] = local[t][id] - 1 /\ guards'[id] = guards[id] - 1
          /\ \A i \in Ids \ {id} : guards'[i] = guards[i] /\ active'[i] = active[i]
          /\ active'[id] = (active[id] /\ guards[id] # 1)
      BY <2>1 DEF SlotInv, UseType, CountInv
    <3>2. thread[t] = id /\ id # NONE /\ guards[id] = local[t][id] /\ guards[id] \in Nat \ {0}
      BY <2>1, <2>4, IdAssumption DEF UseInv, SlotInv, CountInv, UseType
    <3>3. \A u \in Threads : u # t => thread[u] # id  BY <3>2 DEF SlotInv, IdInv, UniqueIds
    <3>4. \A g \in OwnedGuards : slot[g] # id  BY <3>2 DEF SlotInv, IdInv, UniqueIds
    <3>5. active'[id] <=> guards'[id] > 0
      <4>1. active[id]  BY <2>4, <3>2 DEF UseInv
      <4>2. guards[id] # 1 <=> guards'[id] > 0  BY <3>1, <3>2
      <4> QED  BY <3>1, <4>1, <4>2
    <3> QED  BY <2>1, <2>4, <3>1, <3>2, <3>3, <3>4, <3>5 DEF UseInv, SlotInv, IdInv, IdType
  <2> QED  BY <1>1, <2>1, <2>2, <2>3, <2>4 DEF SlotInv
<1>7. ASSUME NEW id \in Ids, ForgetLocal(t, id) PROVE SlotInv'
  <2>1. /\ local[t][id] > 0 /\ local' = [local EXCEPT ![t][id] = @ - 1]
        /\ misused' = TRUE /\ UNCHANGED <<guards, active>>
    BY <1>7 DEF ForgetLocal
  <2>2. CountInv'  BY <2>1, LocalLeaves DEF SlotInv
  <2> QED  BY <1>1, <2>1, <2>2 DEF SlotInv, UseType
<1> QED  BY <1>2, <1>3, <1>4, <1>5, <1>6, <1>7 DEF ThreadStep

\* The steps of OwnedGuards.
LEMMA OwnedUses ==
  ASSUME SlotInv, NEW g \in OwnedGuards, OwnedStep(g)
  PROVE  SlotInv'
<1> USE DEF tlsVars, ownedVars, resvVars, useVars
<1>1. IdInv'  BY OwnedIds DEF SlotInv
<1>2. UNCHANGED <<thread, local, misused, guards>>
  BY DEF OwnedStep, CreateOwned, EnterOwnedErr, EnterOwned, DropOwned, FreeOwned
<1>3. CountInv'  BY <1>2, LocalsIdle DEF SlotInv
<1>4. CASE CreateOwned(g) \/ EnterOwnedErr(g) \/ FreeOwned(g)
  <2>1. /\ stage[g] # "live" /\ UNCHANGED active
        /\ stage' = [stage EXCEPT ![g] = "created"] \/ stage' = [stage EXCEPT ![g] = "none"]
        /\ \E i \in Ids \cup {NONE} : slot' = [slot EXCEPT ![g] = i]
    BY <1>4 DEF CreateOwned, EnterOwnedErr, FreeOwned
  <2>2. \A h \in OwnedGuards : /\ h # g => stage'[h] = stage[h] /\ slot'[h] = slot[h]
                               /\ stage'[g] # "live"
    BY <2>1 DEF SlotInv, IdInv, IdType
  <2>3. \A i \in Ids : (\E h \in OwnedGuards : stage'[h] = "live" /\ slot'[h] = i)
                         <=> (\E h \in OwnedGuards : stage[h] = "live" /\ slot[h] = i)
    BY <2>1, <2>2
  <2> QED  BY <1>1, <1>2, <1>3, <2>1, <2>3 DEF SlotInv, UseType, UseInv
<1>5. CASE EnterOwned(g) \/ DropOwned(g)
  <2>1. PICK id : id = slot[g]  OBVIOUS
  <2>2. id \in Ids /\ UNCHANGED slot
    BY <1>5, <2>1 DEF EnterOwned, DropOwned, SlotInv, IdInv, IdType, Tracked
  <2>3. /\ \A u \in Threads : thread[u] # id
        /\ \A h \in OwnedGuards : h # g => slot[h] # id
    BY <2>1, <2>2, IdAssumption DEF SlotInv, IdInv, UniqueIds
  <2>4. \/ stage' = [stage EXCEPT ![g] = "live"] /\ active' = [active EXCEPT ![id] = TRUE]
        \/ stage' = [stage EXCEPT ![g] = "left"] /\ active' = [active EXCEPT ![id] = FALSE]
    BY <1>5, <2>1 DEF EnterOwned, DropOwned
  <2>5. UseType'  BY <1>2, <2>2, <2>4 DEF SlotInv, UseType
  <2>6. ASSUME UseInv PROVE UseInv'
    <3>1. guards[id] = 0  BY <2>2, <2>3, <2>6 DEF UseInv, SlotInv, CountInv
    <3>2. /\ \A h \in OwnedGuards : h # g => stage'[h] = stage[h]
          /\ stage'[g] = "live" <=> active'[id]
          /\ \A i \in Ids \ {id} : active'[i] = active[i]
      BY <2>2, <2>4 DEF SlotInv, IdInv, IdType, UseType
    <3>3. \A i \in Ids : active'[i] <=> \/ guards'[i] > 0
                                        \/ \E h \in OwnedGuards : stage'[h] = "live" /\ slot'[h] = i
      <4> TAKE i \in Ids
      <4>1. CASE i = id  BY <1>2, <2>1, <2>2, <2>3, <3>1, <3>2, <4>1
      <4>2. CASE i # id  BY <1>2, <2>1, <2>2, <2>6, <3>2, <4>2 DEF UseInv
      <4> QED  BY <4>1, <4>2
    <3> QED  BY <1>2, <2>6, <3>3 DEF UseInv
  <2> QED  BY <1>1, <1>2, <1>3, <2>5, <2>6 DEF SlotInv
<1> QED  BY <1>4, <1>5 DEF OwnedStep

\* The invariant holds in every reachable state.
LEMMA SlotInvariant == Spec => []SlotInv
<1>1. Init => SlotInv
  <2> SUFFICES ASSUME Init PROVE SlotInv
    OBVIOUS
  <2>1. \A i \in Ids : Locals(i) = {}  BY DEF Init, Locals
  <2>2. CountInv  BY <2>1, FS_EmptySet DEF Init, CountInv
  <2>3. UseType  BY DEF Init, UseType
  <2>4. UseInv  BY DEF Init, UseInv
  <2> QED  BY <2>2, <2>3, <2>4, InitIds DEF SlotInv
<1>2. ASSUME SlotInv, [Next]_vars PROVE SlotInv'
  <2>1. CASE UNCHANGED vars
    BY <1>2, <2>1, NextIds, LocalsIdle
       DEF vars, tlsVars, useVars, ownedVars, resvVars, SlotInv, UseType, UseInv
  <2> QED  BY <1>2, <2>1, ThreadUses, OwnedUses DEF Next
<1> QED  BY <1>1, <1>2, PTL DEF Spec

\* The types, and with them that the guard count never wraps below zero, even when
\* guards are forgotten or outlive the id of their thread.
THEOREM ThreadSlotsTypeCorrect == Spec => []TypeOK
<1>1. SlotInv => TypeOK  BY DEF SlotInv, IdInv, IdType, UseType, CountInv, TypeOK
<1> QED  BY <1>1, SlotInvariant, PTL

\* A slot is active exactly while a guard lives on it, and has one user at a time,
\* whatever order threads exit, guards are dropped and ids are reused in, as long
\* as every LocalGuard is dropped before its thread gives up its id.
THEOREM SlotsAreDisciplined == Spec => []SlotDiscipline
<1>1. ASSUME SlotInv, ~misused PROVE GuardIsActive /\ IdleIsInactive /\ ReservationIsOwned
  <2> USE <1>1
  <2>1. GuardIsActive
    BY IdAssumption DEF SlotInv, IdInv, IdType, Tracked, UseInv, GuardIsActive
  <2>2. IdleIsInactive
    BY IdAssumption DEF SlotInv, UseInv, IdleIsInactive
  <2>3. ReservationIsOwned
    BY IdAssumption DEF SlotInv, IdInv, UniqueIds, UseType, UseInv, ReservationIsOwned
  <2> QED  BY <2>1, <2>2, <2>3
<1>2. SlotInv => SlotDiscipline  BY <1>1 DEF SlotDiscipline
<1> QED  BY <1>2, SlotInvariant, PTL
=============================================================================
