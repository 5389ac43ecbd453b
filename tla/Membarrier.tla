----------------------------- MODULE Membarrier -----------------------------
(***************************************************************************)
(* The memory barriers (src/src/raw/membarrier.rs): how a strategy is       *)
(* detected, the store of enter that it makes cheap, and the heavy barrier  *)
(* that pays for it.  Hyaline takes HeavyOrders as the meaning of its       *)
(* HeavyBarrier.  The code keeps HeavyOrders except in one case: where the  *)
(* kernel refuses one detection and grants another, and there is no         *)
(* mprotect barrier to stand in for it (Mixed).                             *)
(*                                                                          *)
(* A relaxed store stays in the buffer of its thread for a while: the light *)
(* store of a reservation, and also the store of the strategy itself, and   *)
(* the two drain in any order.  A thread uses a collector that it created,  *)
(* or that it was given by a thread that synchronised with it.              *)
(*                                                                          *)
(* Of the operating system the module has what the code relies on: a        *)
(* barrier interrupts the threads one after the other, and each empties its *)
(* buffer; the system call is refused to a process that has not registered; *)
(* taking all rights from a page interrupts nobody unless the page was      *)
(* written to since it was made writable.                                   *)
(***************************************************************************)
CONSTANTS Threads, NULL

MEMBARRIER == "membarrier"
MPROTECT == "mprotect"
FALLBACK == "fallback"
FLUSH == "flush"     \* FlushProcessWriteBuffers, which Windows always has

Strategies == {MEMBARRIER, MPROTECT, FALLBACK, FLUSH}

\* NULL is neither a thread nor a strategy, and "set" is no thread.
ASSUME NullAssumption == NULL \notin Threads \cup Strategies \cup {"set"} /\ "set" \notin Threads

\* The build: Linux on x86 or not, Windows, or no fast barrier.
Platforms == {"linux_x86", "linux_other", "windows", "default"}
Linux == {"linux_x86", "linux_other"}

VARIABLES
  platform,    \* the build
  offers,      \* the kernel has private expedited membarriers
  alive,       \* the process has not been aborted
  STRATEGY,    \* the static, as it is in memory
  registered,  \* the process is registered for private expedited membarriers
  refused,     \* history: a call of membarrier::is_supported returned false
  BARRIER,     \* the OnceLock: NULL, the thread that initialises it, or "set"
  lock,        \* the thread that holds the mutex of the Barrier, or NULL
  page,        \* the rights of its page, and whether it was written to
  has,         \* the threads that can use a collector
  pending,     \* a thread's buffered store to STRATEGY, or NULL
  light,       \* a thread's light store is buffered
  pc,          \* where each thread is
  seen,        \* the strategy it loaded
  ipi,         \* the threads its barrier has yet to interrupt
  owed         \* history: the threads whose light store was buffered when its
               \* heavy barrier began, and is still

buildVars == <<platform, offers>>
pageVars == <<BARRIER, lock, page>>
memVars == <<STRATEGY, pending, light, owed>>
kernelVars == <<registered, refused>>
vars == <<buildVars, pageVars, memVars, alive, kernelVars, has, pc, seen, ipi>>

Places == {"user", "register", "arch", "light", "heavy", "call", "once", "init", "lock", "rw",
           "write", "none", "wait", "unlock", "done"}

\* The state of the process and of each of its threads.
TypeOK ==
  /\ platform \in Platforms /\ offers \in BOOLEAN /\ alive \in BOOLEAN
  /\ STRATEGY \in Strategies
  /\ registered \in BOOLEAN /\ refused \in BOOLEAN
  /\ BARRIER \in Threads \cup {NULL, "set"}
  /\ lock \in Threads \cup {NULL}
  /\ page \in {"no page", "none", "rw", "written"}
  /\ has \in SUBSET Threads
  /\ pending \in [Threads -> Strategies \cup {NULL}]
  /\ light \in [Threads -> BOOLEAN]
  /\ pc \in [Threads -> Places]
  /\ seen \in [Threads -> Strategies]
  /\ ipi \in [Threads -> SUBSET Threads]
  /\ owed \in [Threads -> SUBSET Threads]
  /\ \A t \in Threads : pc[t] \in {"write", "none"} => page # "no page"

Init ==
  /\ platform \in Platforms
  /\ offers \in IF platform \in Linux THEN BOOLEAN ELSE {FALSE}
  /\ alive = TRUE
  /\ STRATEGY = IF platform = "windows" THEN FLUSH ELSE FALLBACK
  /\ registered = FALSE /\ refused = FALSE
  /\ BARRIER = NULL
  /\ lock = NULL
  /\ page = "no page"
  /\ has = {}
  /\ pending = [t \in Threads |-> NULL]
  /\ light = [t \in Threads |-> FALSE]
  /\ pc = [t \in Threads |-> "user"]
  /\ seen = [t \in Threads |-> FALLBACK]
  /\ ipi = [t \in Threads |-> {}]
  /\ owed = [t \in Threads |-> {}]

\* The strategy that a load by t returns.
View(t) == IF pending[t] # NULL THEN pending[t] ELSE STRATEGY

Goto(t, l) == pc' = [pc EXCEPT ![t] = l]

-----------------------------------------------------------------------------
(* Store buffers. *)

\* The buffer of t is emptied.
Empty(t) ==
  /\ light' = [light EXCEPT ![t] = FALSE]
  /\ owed' = [u \in Threads |-> owed[u] \ {t}]
  /\ STRATEGY' = View(t)
  /\ pending' = [pending EXCEPT ![t] = NULL]

\* A light store becomes visible.
DrainLight(t) ==
  /\ light[t]
  /\ light' = [light EXCEPT ![t] = FALSE]
  /\ owed' = [u \in Threads |-> owed[u] \ {t}]
  /\ UNCHANGED <<buildVars, pageVars, alive, kernelVars, has, STRATEGY, pending, pc, seen, ipi>>

\* A store of the strategy becomes visible.
DrainStrategy(t) ==
  /\ pending[t] # NULL
  /\ STRATEGY' = pending[t]
  /\ pending' = [pending EXCEPT ![t] = NULL]
  /\ UNCHANGED <<buildVars, pageVars, alive, kernelVars, has, light, owed, pc, seen, ipi>>

-----------------------------------------------------------------------------
(* Collector::new, and detect. *)

\* Mutant: a flag keeps a second caller from detecting again.
DetectOnce(t) ==
  /\ pc[t] = "user"
  /\ IF platform \in Linux /\ \A u \in Threads : pc[u] \notin {"register", "arch"}
     THEN Goto(t, "register") /\ UNCHANGED has
     ELSE has' = has \cup {t} /\ UNCHANGED pc
  /\ UNCHANGED <<buildVars, pageVars, memVars, alive, kernelVars, seen, ipi>>

\* detect, which does nothing but on Linux.
Detect(t) ==
  /\ pc[t] = "user"
  /\ IF platform \in Linux
     THEN Goto(t, "register") /\ UNCHANGED has
     ELSE has' = has \cup {t} /\ UNCHANGED pc
  /\ UNCHANGED <<buildVars, pageVars, memVars, alive, kernelVars, seen, ipi>>

\* What is left of detect is a store of the strategy, and Collector::new returns.
Store(t, strategy) ==
  /\ pending' = [pending EXCEPT ![t] = strategy]
  /\ has' = has \cup {t}
  /\ Goto(t, "user")

\* membarrier::is_supported: the query finds the commands, and the registration
\* succeeds.
Register(t) ==
  /\ pc[t] = "register"
  /\ offers
  /\ registered' = TRUE
  /\ Store(t, MEMBARRIER)
  /\ UNCHANGED <<buildVars, pageVars, alive, refused, STRATEGY, light, owed, seen, ipi>>

\* It returns false: the kernel has no such barrier, or it refuses the query or the
\* registration this time, for want of memory or by a filter of system calls.
RegisterErr(t) ==
  /\ pc[t] = "register"
  /\ refused' = TRUE
  /\ Goto(t, "arch")
  /\ UNCHANGED <<buildVars, pageVars, memVars, alive, registered, has, seen, ipi>>

\* mprotect::is_supported, a question of the build.
Arch(t) ==
  /\ pc[t] = "arch"
  /\ IF platform = "linux_x86"
     THEN Store(t, MPROTECT)
     ELSE has' = has \cup {t} /\ Goto(t, "user") /\ UNCHANGED pending
  /\ UNCHANGED <<buildVars, pageVars, alive, kernelVars, STRATEGY, light, owed, seen, ipi>>

\* Another thread is given a collector.  It sees what the giver has stored.
Share(t, u) ==
  /\ t \in has /\ u \notin has
  /\ pc[t] = "user" /\ pc[u] = "user"
  /\ pending[t] = NULL /\ ~light[t]
  /\ has' = has \cup {u}
  /\ UNCHANGED <<buildVars, pageVars, memVars, alive, kernelVars, pc, seen, ipi>>

-----------------------------------------------------------------------------
(* The light store. *)

\* light_store: the ordering of the store is looked up.
LightStore(t) ==
  /\ pc[t] = "user"
  /\ t \in has
  /\ ~light[t]     \* bound: one light store of a thread is in its buffer
  /\ seen' = [seen EXCEPT ![t] = View(t)]
  /\ Goto(t, "light")
  /\ UNCHANGED <<buildVars, pageVars, memVars, alive, kernelVars, has, ipi>>

\* The store, relaxed or SeqCst, and light_barrier, which the processor does not see.
StoreReservation(t) ==
  /\ pc[t] = "light"
  /\ IF seen[t] = FALLBACK
     THEN Empty(t)
     ELSE light' = [light EXCEPT ![t] = TRUE] /\ UNCHANGED <<STRATEGY, pending, owed>>
  /\ Goto(t, "user")
  /\ UNCHANGED <<buildVars, pageVars, alive, kernelVars, has, seen, ipi>>

-----------------------------------------------------------------------------
(* The heavy barrier. *)

\* heavy: the strategy is loaded.
Heavy(t) ==
  /\ pc[t] = "user"
  /\ t \in has
  /\ seen' = [seen EXCEPT ![t] = View(t)]
  /\ owed' = [owed EXCEPT ![t] = {u \in Threads : light[u]}]
  /\ Goto(t, CASE View(t) = MEMBARRIER -> "call"
               [] View(t) = MPROTECT   -> "once"
               [] View(t) = FLUSH      -> "call"
               [] View(t) = FALLBACK   -> "heavy")
  /\ UNCHANGED <<buildVars, pageVars, alive, kernelVars, has, STRATEGY, pending, light, ipi>>

\* FALLBACK: a SeqCst fence of the calling thread.
Fence(t) ==
  /\ pc[t] = "heavy"
  /\ Empty(t)
  /\ Goto(t, "done")
  /\ UNCHANGED <<buildVars, pageVars, alive, kernelVars, has, seen, ipi>>

\* membarrier::barrier, or FlushProcessWriteBuffers: the system call.
SysCall(t) ==
  /\ pc[t] = "call"
  /\ seen[t] = FLUSH \/ registered
  /\ ipi' = [ipi EXCEPT ![t] = Threads]
  /\ Goto(t, "wait")
  /\ UNCHANGED <<buildVars, pageVars, memVars, alive, kernelVars, has, seen>>

\* The operating system interrupts a thread on behalf of a barrier.
Interrupt(t, u) ==
  /\ u \in ipi[t]
  /\ ipi' = [ipi EXCEPT ![t] = @ \ {u}]
  /\ Empty(u)
  /\ UNCHANGED <<buildVars, pageVars, alive, kernelVars, has, pc, seen>>

\* The system call returns when all have been interrupted.
Interrupted(t) ==
  /\ pc[t] = "wait"
  /\ ipi[t] = {}
  /\ Goto(t, IF seen[t] = MPROTECT THEN "unlock" ELSE "done")
  /\ UNCHANGED <<buildVars, pageVars, memVars, alive, kernelVars, has, seen, ipi>>

\* Mutant: a flag that says BARRIER is initialised is set before it is.
GetOrInitEarly(t) ==
  /\ pc[t] = "once"
  /\ BARRIER' = "set"
  /\ Goto(t, IF BARRIER = NULL THEN "init" ELSE "lock")
  /\ UNCHANGED <<buildVars, memVars, alive, kernelVars, lock, page, has, seen, ipi>>

\* mprotect::barrier: BARRIER is initialised by one thread, and others wait for it.
GetOrInit(t) ==
  /\ pc[t] = "once"
  /\ \/ BARRIER = NULL /\ BARRIER' = t /\ Goto(t, "init")
     \/ BARRIER = "set" /\ Goto(t, "lock") /\ UNCHANGED BARRIER
  /\ UNCHANGED <<buildVars, memVars, alive, kernelVars, lock, page, has, seen, ipi>>

\* The page is mapped without rights, and the mutex is initialised.
InitBarrier(t) ==
  /\ pc[t] = "init"
  /\ page' = "none"
  /\ BARRIER' = "set"
  /\ Goto(t, "lock")
  /\ UNCHANGED <<buildVars, memVars, alive, kernelVars, lock, has, seen, ipi>>

\* Mutant: the mutex is not taken.
LockNothing(t) ==
  /\ pc[t] = "lock"
  /\ Goto(t, "rw")
  /\ UNCHANGED <<buildVars, pageVars, memVars, alive, kernelVars, has, seen, ipi>>

\* Barrier::barrier: the mutex is locked.
Lock(t) ==
  /\ pc[t] = "lock"
  /\ lock = NULL
  /\ lock' = t
  /\ Goto(t, "rw")
  /\ UNCHANGED <<buildVars, memVars, alive, kernelVars, BARRIER, page, has, seen, ipi>>

\* mprotect to PROT_READ | PROT_WRITE.
Allow(t) ==
  /\ pc[t] = "rw"
  /\ page' = IF page = "none" THEN "rw" ELSE page
  /\ Goto(t, "write")
  /\ UNCHANGED <<buildVars, memVars, alive, kernelVars, BARRIER, lock, has, seen, ipi>>

\* Mutant: the page is not written to.
WriteNothing(t) ==
  /\ pc[t] = "write"
  /\ Goto(t, "none")
  /\ UNCHANGED <<buildVars, pageVars, memVars, alive, kernelVars, has, seen, ipi>>

\* The fetch_add, which makes the page dirty.  It is a full barrier of its thread.
Write(t) ==
  /\ pc[t] = "write"
  /\ page \in {"rw", "written"}
  /\ page' = "written"
  /\ Empty(t)
  /\ Goto(t, "none")
  /\ UNCHANGED <<buildVars, alive, kernelVars, BARRIER, lock, has, seen, ipi>>

\* mprotect to PROT_NONE.
Forbid(t) ==
  /\ pc[t] = "none"
  /\ page' = "none"
  /\ ipi' = [ipi EXCEPT ![t] = IF page = "written" THEN Threads ELSE {}]
  /\ Goto(t, "wait")
  /\ UNCHANGED <<buildVars, memVars, alive, kernelVars, BARRIER, lock, has, seen>>

\* The mutex is unlocked.
Unlock(t) ==
  /\ pc[t] = "unlock"
  /\ lock' = NULL
  /\ Goto(t, "done")
  /\ UNCHANGED <<buildVars, memVars, alive, kernelVars, BARRIER, page, has, seen, ipi>>

\* heavy returns.
Return(t) ==
  /\ pc[t] = "done"
  /\ Goto(t, "user")
  /\ owed' = [owed EXCEPT ![t] = {}]
  /\ UNCHANGED <<buildVars, pageVars, alive, kernelVars, has, STRATEGY, pending, light, seen, ipi>>

\* The operating system refuses a call, for want of memory or because the process
\* is not registered: fatal_assert aborts the process.
FatalAssert(t) ==
  /\ pc[t] \in {"init", "rw", "none"} \/ (pc[t] = "call" /\ seen[t] = MEMBARRIER)
  /\ alive' = FALSE
  /\ UNCHANGED <<buildVars, pageVars, memVars, kernelVars, has, pc, seen, ipi>>

-----------------------------------------------------------------------------
HeavyStep(t) ==
  \/ Heavy(t) \/ Fence(t) \/ SysCall(t) \/ Interrupted(t) \/ Return(t)
  \/ GetOrInit(t) \/ InitBarrier(t) \/ Lock(t) \/ Allow(t) \/ Write(t) \/ Forbid(t) \/ Unlock(t)
  \/ FatalAssert(t)

Next ==
  \/ /\ alive
     /\ \E t \in Threads :
          \/ Detect(t) \/ Register(t) \/ RegisterErr(t) \/ Arch(t)
          \/ LightStore(t) \/ StoreReservation(t) \/ HeavyStep(t)
          \/ DrainLight(t) \/ DrainStrategy(t)
          \/ \E u \in Threads : Interrupt(t, u) \/ Share(t, u)
  \/ ~alive /\ UNCHANGED vars

Spec == Init /\ [][Next]_vars

-----------------------------------------------------------------------------
(* Properties. *)

\* The kernel granted a registration and refused one, on a build whose other choice
\* is the FALLBACK: detect has answered differently to two callers.
Mixed == platform = "linux_other" /\ refused /\ registered

\* The contract of heavy, which try_retire relies on: it synchronizes with light
\* stores.  When it returns, every one that was issued before it began is visible.
HeavyOrders == \A t \in Threads : pc[t] = "done" => owed[t] = {}

\* heavy keeps that contract, whatever the strategy, and even if the strategy changed
\* since the store was issued, unless the answers of the kernel were mixed on a
\* Linux other than x86.  On x86 they may be mixed: the system call and the
\* mprotect barrier each order the stores that the other allows to be buffered.
HeavyOrdersUnlessMixed == ~Mixed => HeavyOrders

\* heavy never does what would kill the process: the page it writes to is writable,
\* although other threads run the same barrier, and the system call is that of a
\* registered process.
NeverKilled ==
  \A t \in Threads :
    /\ pc[t] = "write" => page \in {"rw", "written"}
    /\ pc[t] = "call" => seen[t] = FLUSH \/ registered

\* No two users of collectors disagree whether stores may be buffered, where the
\* fence of one would not order the relaxed store of the other, although every
\* Collector::new detects again and its store of the strategy is relaxed: unless
\* the answers of the kernel were mixed on a Linux other than x86.
StrategiesAgreeUnlessMixed ==
  ~Mixed => \A t, u \in has : View(t) = FALLBACK <=> View(u) = FALLBACK
=============================================================================
