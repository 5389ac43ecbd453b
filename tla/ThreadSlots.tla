---------------------------- MODULE ThreadSlots ----------------------------
(***************************************************************************)
(* Who owns a slot: the thread identifiers of src/src/raw/tls/thread_id.rs, *)
(* and the guards of src/src/guard.rs that use the reservation of a slot.   *)
(*                                                                          *)
(* A thread gets an id at its first Thread::current and returns it when its *)
(* ThreadGuard is destroyed; an OwnedGuard has an id of its own.  Threads   *)
(* come and go: a member of Threads that is gone may be spawned again.  The *)
(* manager is behind a Mutex, so that each alloc and each free is one step. *)
(*                                                                          *)
(* Of a reservation this module keeps the guard count and whether its head  *)
(* is INACTIVE; the lists are the subject of Hyaline.                       *)
(***************************************************************************)
EXTENDS Integers

CONSTANTS Threads,     \* operating system threads
          OwnedGuards, \* OwnedGuard values
          MaxId,       \* bound: no id from here on is issued
          MaxGuards,   \* bound: nesting of LocalGuards
          Forgetful,   \* a LocalGuard may be passed to mem::forget
          LateGuards,  \* a LocalGuard may live in a thread-local variable that
                       \* is destroyed after the ThreadGuard of its thread
          NONE         \* Option::None

Ids == 0 .. MaxId - 1

ASSUME IdAssumption == MaxId \in Nat /\ MaxGuards \in Nat /\ NONE \notin Ids
ASSUME EnvAssumption == Forgetful \in BOOLEAN /\ LateGuards \in BOOLEAN

VARIABLES
  \* ThreadIdManager
  free_from,   \* the ids from here on were never issued
  free_list,   \* how many times each id is in the heap of free ids
  declined,    \* history: the ids that free could not put into the heap
  lost,        \* history: the ids issued where no destructor returns them
  \* thread-local variables of each thread
  life,        \* "running", "exiting" (running destructors) or "gone"
  thread,      \* THREAD
  tg,          \* THREAD_GUARD: "unused", "registered" or "destroyed"
  tg_id,       \* ThreadGuard::id
  local,       \* how many LocalGuards of each thread are alive on each slot
  misused,     \* history: a LocalGuard was forgotten, or outlived its thread's id
  \* OwnedGuards
  stage,       \* "none", "created", "live" or "left"
  slot,        \* OwnedGuard::thread.id
  \* Reservations
  guards,      \* Reservation::guards
  active       \* Reservation::head is not INACTIVE

idVars == <<free_from, free_list, declined, lost>>
tlsVars == <<life, thread, tg, tg_id>>
ownedVars == <<stage, slot>>
resvVars == <<guards, active>>
useVars == <<local, misused>>
vars == <<idVars, tlsVars, useVars, ownedVars, resvVars>>

\* The ids, counters and flags of threads, guards and reservations.
TypeOK ==
  /\ free_from \in 0 .. MaxId
  /\ free_list \in [Ids -> Nat]
  /\ declined \in SUBSET Ids
  /\ lost \in SUBSET Ids
  /\ life \in [Threads -> {"running", "exiting", "gone"}]
  /\ thread \in [Threads -> Ids \cup {NONE}]
  /\ tg \in [Threads -> {"unused", "registered", "destroyed"}]
  /\ tg_id \in [Threads -> Ids \cup {0}]
  /\ local \in [Threads -> [Ids -> Nat]]
  /\ misused \in BOOLEAN
  /\ stage \in [OwnedGuards -> {"none", "created", "live", "left"}]
  /\ slot \in [OwnedGuards -> Ids \cup {NONE}]
  /\ guards \in [Ids -> Nat]
  /\ active \in [Ids -> BOOLEAN]

Init ==
  /\ free_from = 0
  /\ free_list = [i \in Ids |-> 0]
  /\ declined = {}
  /\ lost = {}
  /\ life = [t \in Threads |-> "running"]
  /\ thread = [t \in Threads |-> NONE]
  /\ tg = [t \in Threads |-> "unused"]
  /\ tg_id = [t \in Threads |-> 0]
  /\ local = [t \in Threads |-> [i \in Ids |-> 0]]
  /\ misused = FALSE
  /\ stage = [g \in OwnedGuards |-> "none"]
  /\ slot = [g \in OwnedGuards |-> NONE]
  /\ guards = [i \in Ids |-> 0]
  /\ active = [i \in Ids |-> FALSE]

-----------------------------------------------------------------------------
(* ThreadIdManager *)

Free == {i \in Ids : free_list[i] > 0}

\* Mutant: an id is taken from the heap without being removed.
AllocPeek(id) ==
  IF Free # {}
  THEN /\ id \in Free /\ \A i \in Free : id <= i
       /\ UNCHANGED <<free_from, free_list>>
  ELSE /\ id \in Ids /\ id = free_from
       /\ free_from' = free_from + 1
       /\ UNCHANGED free_list

\* Mutant: the recycled ids are not consulted.
AllocFresh(id) ==
  /\ id \in Ids /\ id = free_from
  /\ free_from' = free_from + 1
  /\ UNCHANGED free_list

\* alloc returns id: the smallest free one, or the next one never issued.
Alloc(id) ==
  IF Free # {}
  THEN /\ id \in Free /\ \A i \in Free : id <= i
       /\ free_list' = [free_list EXCEPT ![id] = @ - 1]
       /\ UNCHANGED free_from
  ELSE /\ id \in Ids /\ id = free_from
       /\ free_from' = free_from + 1
       /\ UNCHANGED free_list

\* free puts id into the heap, or declines to when the heap cannot grow.
Recycle(id) ==
  \/ free_list' = [free_list EXCEPT ![id] = @ + 1] /\ UNCHANGED <<free_from, declined, lost>>
  \/ declined' = declined \cup {id} /\ UNCHANGED <<free_from, free_list, lost>>

-----------------------------------------------------------------------------
(* Threads *)

\* Thread::current on a thread without an id: init_slow, which also registers
\* the destructor of THREAD_GUARD.
Current(t) ==
  /\ life[t] # "gone"
  /\ thread[t] = NONE
  /\ tg[t] # "destroyed"
  /\ \E id \in Ids :
       /\ Alloc(id)
       /\ thread' = [thread EXCEPT ![t] = id]
       /\ tg_id' = [tg_id EXCEPT ![t] = id]
  /\ tg' = [tg EXCEPT ![t] = "registered"]
  /\ UNCHANGED <<declined, lost, life, useVars, ownedVars, resvVars>>

\* The same in a destructor that runs after that of THREAD_GUARD: the id is
\* allocated and stored in THREAD before the access to THREAD_GUARD panics.  The
\* thread may go on to use the id, but nothing is left that would return it.
CurrentLate(t) ==
  /\ life[t] = "exiting"
  /\ thread[t] = NONE
  /\ tg[t] = "destroyed"
  /\ \E id \in Ids :
       /\ Alloc(id)
       /\ thread' = [thread EXCEPT ![t] = id]
       /\ lost' = lost \cup {id}
  /\ UNCHANGED <<declined, life, tg, tg_id, useVars, ownedVars, resvVars>>

\* The thread function returns, or the thread unwinds: the destructors of its
\* thread-local variables run, those that hold LocalGuards among them.
Exit(t) ==
  /\ life[t] = "running"
  /\ life' = [life EXCEPT ![t] = "exiting"]
  /\ UNCHANGED <<idVars, thread, tg, tg_id, useVars, ownedVars, resvVars>>

\* Drop for ThreadGuard.
DropThreadGuard(t) ==
  /\ life[t] = "exiting"
  /\ tg[t] = "registered"
  /\ LateGuards \/ \A i \in Ids : local[t][i] = 0
  /\ tg' = [tg EXCEPT ![t] = "destroyed"]
  /\ thread' = [thread EXCEPT ![t] = NONE]
  /\ Recycle(tg_id[t])
  /\ misused' = (misused \/ \E i \in Ids : local[t][i] > 0)
  /\ UNCHANGED <<life, tg_id, local, ownedVars, resvVars>>

\* Every destructor has run.  An id still in THREAD, which CurrentLate put there,
\* is forgotten with the thread.
Gone(t) ==
  /\ life[t] = "exiting"
  /\ tg[t] # "registered"
  /\ \A i \in Ids : local[t][i] = 0
  /\ life' = [life EXCEPT ![t] = "gone"]
  /\ thread' = [thread EXCEPT ![t] = NONE]
  /\ UNCHANGED <<idVars, tg, tg_id, useVars, ownedVars, resvVars>>

\* A new thread starts, with thread-local variables of its own.
Spawn(t) ==
  /\ life[t] = "gone"
  /\ life' = [life EXCEPT ![t] = "running"]
  /\ tg' = [tg EXCEPT ![t] = "unused"]
  /\ tg_id' = [tg_id EXCEPT ![t] = 0]
  /\ UNCHANGED <<idVars, thread, useVars, ownedVars, resvVars>>

-----------------------------------------------------------------------------
(* Guards *)

\* Mutant: nested guards are not counted.
EnterLocalOnce(t) ==
  /\ life[t] # "gone"
  /\ thread[t] # NONE
  /\ LET id == thread[t] IN
       /\ guards[id] < MaxGuards
       /\ local' = [local EXCEPT ![t][id] = @ + 1]
       /\ guards' = [guards EXCEPT ![id] = 1]
       /\ active' = [active EXCEPT ![id] = TRUE]
  /\ UNCHANGED <<idVars, tlsVars, misused, ownedVars>>

\* LocalGuard::enter, on the id Thread::current returns.
EnterLocal(t) ==
  /\ life[t] # "gone"
  /\ thread[t] # NONE
  /\ LET id == thread[t] IN
       /\ guards[id] < MaxGuards
       /\ local' = [local EXCEPT ![t][id] = @ + 1]
       /\ guards' = [guards EXCEPT ![id] = @ + 1]
       /\ active' = [active EXCEPT ![id] = @ \/ guards[id] = 0]
  /\ UNCHANGED <<idVars, tlsVars, misused, ownedVars>>

\* Mutant: every guard deactivates the slot.
DropLocalAlways(t, id) ==
  /\ life[t] # "gone"
  /\ local[t][id] > 0
  /\ local' = [local EXCEPT ![t][id] = @ - 1]
  /\ guards' = [guards EXCEPT ![id] = @ - 1]
  /\ active' = [active EXCEPT ![id] = FALSE]
  /\ UNCHANGED <<idVars, tlsVars, misused, ownedVars>>

\* Drop for LocalGuard.
DropLocal(t, id) ==
  /\ life[t] # "gone"
  /\ local[t][id] > 0
  /\ local' = [local EXCEPT ![t][id] = @ - 1]
  /\ guards' = [guards EXCEPT ![id] = @ - 1]
  /\ active' = [active EXCEPT ![id] = @ /\ guards[id] # 1]
  /\ UNCHANGED <<idVars, tlsVars, misused, ownedVars>>

\* mem::forget of a LocalGuard: its destructor never runs.
ForgetLocal(t, id) ==
  /\ Forgetful
  /\ local[t][id] > 0
  /\ local' = [local EXCEPT ![t][id] = @ - 1]
  /\ misused' = TRUE
  /\ UNCHANGED <<idVars, tlsVars, ownedVars, resvVars>>

\* OwnedGuard::enter: Thread::create.
CreateOwned(g) ==
  /\ stage[g] = "none"
  /\ \E id \in Ids :
       /\ Alloc(id)
       /\ slot' = [slot EXCEPT ![g] = id]
  /\ stage' = [stage EXCEPT ![g] = "created"]
  /\ UNCHANGED <<declined, lost, tlsVars, useVars, resvVars>>

\* Mutant: the error is returned with the id still allocated.
EnterOwnedErrLeak(g) ==
  /\ stage[g] = "created"
  /\ stage' = [stage EXCEPT ![g] = "none"]
  /\ slot' = [slot EXCEPT ![g] = NONE]
  /\ UNCHANGED <<idVars, tlsVars, useVars, resvVars>>

\* OwnedGuard::enter: the reservation cannot be allocated.
EnterOwnedErr(g) ==
  /\ stage[g] = "created"
  /\ stage' = [stage EXCEPT ![g] = "none"]
  /\ slot' = [slot EXCEPT ![g] = NONE]
  /\ Recycle(slot[g])
  /\ UNCHANGED <<tlsVars, useVars, resvVars>>

\* OwnedGuard::enter: Collector::enter on the reservation, whatever its guards.
EnterOwned(g) ==
  /\ stage[g] = "created"
  /\ stage' = [stage EXCEPT ![g] = "live"]
  /\ active' = [active EXCEPT ![slot[g]] = TRUE]
  /\ UNCHANGED <<idVars, tlsVars, useVars, slot, guards>>

\* Drop for OwnedGuard: Collector::leave, which runs reclaimers.
DropOwned(g) ==
  /\ stage[g] = "live"
  /\ stage' = [stage EXCEPT ![g] = "left"]
  /\ active' = [active EXCEPT ![slot[g]] = FALSE]
  /\ UNCHANGED <<idVars, tlsVars, useVars, slot, guards>>

\* Drop for OwnedGuard: Thread::free.
FreeOwned(g) ==
  /\ stage[g] = "left"
  /\ stage' = [stage EXCEPT ![g] = "none"]
  /\ slot' = [slot EXCEPT ![g] = NONE]
  /\ Recycle(slot[g])
  /\ UNCHANGED <<tlsVars, useVars, resvVars>>

-----------------------------------------------------------------------------
ThreadStep(t) ==
  \/ Current(t) \/ CurrentLate(t) \/ Exit(t) \/ DropThreadGuard(t) \/ Gone(t) \/ Spawn(t)
  \/ EnterLocal(t) \/ \E id \in Ids : DropLocal(t, id) \/ ForgetLocal(t, id)

OwnedStep(g) ==
  CreateOwned(g) \/ EnterOwnedErr(g) \/ EnterOwned(g) \/ DropOwned(g) \/ FreeOwned(g)

Next == (\E t \in Threads : ThreadStep(t)) \/ (\E g \in OwnedGuards : OwnedStep(g))

Spec == Init /\ [][Next]_vars

-----------------------------------------------------------------------------
(* Properties *)

\* The ids that some thread or some OwnedGuard owns.
Held == ({thread[t] : t \in Threads} \cup {slot[g] : g \in OwnedGuards}) \ {NONE}

\* Thread::id is unique among what is alive: no two threads or OwnedGuards have
\* the same slot, and a slot in use is not offered for reuse.
UniqueIds ==
  /\ \A t, u \in Threads : t # u /\ thread[t] # NONE => thread[t] # thread[u]
  /\ \A g, h \in OwnedGuards : g # h /\ slot[g] # NONE => slot[g] # slot[h]
  /\ \A t \in Threads, g \in OwnedGuards : thread[t] # NONE => thread[t] # slot[g]
  /\ Held \cap Free = {}
  /\ \A i \in Ids : free_list[i] <= 1

\* An id that was issued is in use or free for reuse, with two exceptions: free
\* gave it up because the heap could not grow, or Thread::current issued it to a
\* thread whose ThreadGuard was already destroyed.  That call forgets an id, with
\* no allocation failing; no other path of enter, exit or drop does.
IdsAccounted ==
  {i \in Ids : i < free_from} = Held \cup Free \cup declined \cup lost

\* The ids stay dense: a new one is issued only when every id issued so far is in
\* use, was given up when the heap could not grow, or was lost to a late
\* Thread::current.  So a ThreadLocal does not grow with the threads that come
\* and go, except with those that call Thread::current after their ThreadGuard
\* was destroyed: each of them costs a slot.
GrowsOnlyWhenFull ==
  [][free_from' # free_from =>
       \A i \in Ids : i < free_from => i \in Held \cup declined \cup lost]_vars

\* A guard of either kind keeps its slot active while it lives, as
\* Guard::protect promises for the lifetime of the guard.
GuardIsActive ==
  /\ \A t \in Threads, i \in Ids : local[t][i] > 0 => active[i]
  /\ \A g \in OwnedGuards : stage[g] = "live" => active[slot[g]]

\* A slot without guards is inactive, so that a retirement does not wait for a
\* slot that nobody uses.
IdleIsInactive ==
  \A i \in Ids : active[i] => \/ \E t \in Threads : local[t][i] > 0
                              \/ \E g \in OwnedGuards : stage[g] = "live" /\ slot[g] = i

\* The reservation a LocalGuard works on is its thread's alone: the guard count,
\* a Cell, and the local batch are never accessed by two threads.
ReservationIsOwned ==
  \A t \in Threads, i \in Ids : local[t][i] > 0 =>
    /\ \A u \in Threads \ {t} : thread[u] # i /\ local[u][i] = 0
    /\ \A g \in OwnedGuards : slot[g] # i

\* A slot is active exactly while a guard lives on it, and has one user at a time,
\* whatever order threads exit, guards are dropped and ids are reused in: as
\* long as every LocalGuard is dropped before its thread gives up its id.
SlotDiscipline == ~misused => GuardIsActive /\ IdleIsInactive /\ ReservationIsOwned
=============================================================================
