-------------------------- MODULE MembarrierProofs --------------------------
(***************************************************************************)
(* The memory barriers keep their contract, for any number of threads.  The *)
(* invariant has three parts: which strategies a build can have and who can *)
(* see them, who owns the page, and which stores a barrier still owes.  On  *)
(* a Linux other than x86 the first and the last hold as long as the kernel *)
(* has not both granted and refused a registration (Mixed).                 *)
(***************************************************************************)
EXTENDS Membarrier, TLAPS

\* Stores may be buffered: there is a strategy other than FALLBACK.
Fast == platform \in {"windows", "linux_x86"} \/ (platform = "linux_other" /\ registered)

\* What detect can store.
Storable ==
  {s \in {MEMBARRIER, MPROTECT} :
     /\ platform \in Linux
     /\ s = MEMBARRIER => registered
     /\ s = MPROTECT => platform = "linux_x86"}

\* The strategy before the first detect.
Default == IF platform = "windows" THEN FLUSH ELSE FALLBACK

\* Memory and buffers hold nothing but what the build can have.  Who has a collector
\* went through a detection, or was given it by one who did: there is none where
\* the kernel has not answered, and unless its answers were mixed, none sees the
\* FALLBACK of before its detection.
StrategyInv ==
  /\ registered => platform \in Linux
  /\ STRATEGY \in Storable \cup {Default}
  /\ \A t \in Threads : pending[t] \in Storable \cup {NULL}
  /\ \A t \in Threads : pc[t] \in {"register", "arch"} => platform \in Linux
  /\ \A t \in Threads : pc[t] = "arch" => refused
  /\ \A t \in Threads : pc[t] \notin {"user", "register", "arch"} => t \in has
  /\ platform = "linux_other" /\ ~registered /\ ~refused => has = {}
  /\ \A t \in has : Fast /\ ~Mixed => View(t) # FALLBACK

\* What a thread loaded, at the places where it uses it.
SeenInv ==
  \A t \in Threads :
    /\ pc[t] = "light" /\ seen[t] # FALLBACK => Fast
    /\ pc[t] = "light" /\ seen[t] = FALLBACK => ~Fast \/ Mixed
    /\ pc[t] = "heavy" => ~Fast \/ Mixed
    /\ pc[t] = "call" => seen[t] = FLUSH \/ (seen[t] = MEMBARRIER /\ registered)
    /\ pc[t] \in {"once", "init", "lock", "rw", "write", "none", "unlock"} => seen[t] = MPROTECT

\* t is in the critical section of the Barrier.
Inside(t) == pc[t] \in {"rw", "write", "none", "unlock"} \/ (pc[t] = "wait" /\ seen[t] = MPROTECT)

\* One thread maps the page, one at a time changes its rights.
PageInv ==
  /\ BARRIER = "set" <=> page # "no page"
  /\ \A t \in Threads :
       /\ Inside(t) <=> lock = t
       /\ pc[t] = "init" => BARRIER = t
       /\ pc[t] = "lock" \/ Inside(t) => BARRIER = "set"
       /\ pc[t] = "write" => page \in {"rw", "written"}
       /\ pc[t] = "none" => page = "written"

\* A barrier owes a store to those it has yet to interrupt only.  The fence, which
\* interrupts nobody, owes none unless the answers of the kernel were mixed.
OwedInv ==
  \A t \in Threads :
    /\ light[t] \/ owed[t] # {} => Fast
    /\ pc[t] = "wait" => owed[t] \subseteq ipi[t]
    /\ pc[t] # "wait" => ipi[t] = {}
    /\ pc[t] = "unlock" => owed[t] = {}
    /\ pc[t] = "done" => owed[t] = {} \/ Mixed

BarrierInv == TypeOK /\ StrategyInv /\ SeenInv /\ PageInv /\ OwedInv

-----------------------------------------------------------------------------
\* The invariant is kept by every step.
LEMMA NextBarrier ==
  ASSUME BarrierInv, [Next]_vars
  PROVE  BarrierInv'
<1> USE NullAssumption DEF BarrierInv, Strategies, MEMBARRIER, MPROTECT, FALLBACK, FLUSH, Linux,
                          buildVars, pageVars, memVars, kernelVars, Mixed
<1>1. ASSUME NEW t \in Threads, Detect(t) PROVE BarrierInv'
  <2>1. CASE platform \in Linux
    <3>1. /\ pc[t] = "user"
          /\ pc' = [pc EXCEPT ![t] = "register"]
          /\ UNCHANGED <<platform, offers, alive, registered, refused, STRATEGY, BARRIER, lock, page,
                         has, pending, light, seen, ipi, owed>>
      BY <1>1, <2>1 DEF Detect, Goto
    <3>2. TypeOK'  BY <3>1, <2>1 DEF TypeOK, Places, View
    <3>3. StrategyInv'  BY <3>1, <2>1 DEF TypeOK, StrategyInv, Storable, Default, Fast, View
    <3>4. SeenInv'  BY <3>1, <2>1 DEF TypeOK, SeenInv, Fast
    <3>5. PageInv'  BY <3>1, <2>1 DEF TypeOK, PageInv, Inside
    <3>6. OwedInv'  BY <3>1, <2>1 DEF TypeOK, SeenInv, OwedInv, Fast
    <3> QED  BY <3>2, <3>3, <3>4, <3>5, <3>6
  <2>2. CASE platform \notin Linux
    <3>1. /\ has' = has \cup {t}
          /\ UNCHANGED <<platform, offers, alive, registered, refused, STRATEGY, BARRIER, lock, page,
                         pending, light, pc, seen, ipi, owed>>
      BY <1>1, <2>2 DEF Detect, Goto
    <3>2. TypeOK'  BY <3>1, <2>2 DEF TypeOK, Places, View
    <3>3. StrategyInv'  BY <3>1, <2>2 DEF TypeOK, StrategyInv, Storable, Default, Fast, View
    <3>4. SeenInv'  BY <3>1, <2>2 DEF TypeOK, SeenInv, Fast
    <3>5. PageInv'  BY <3>1, <2>2 DEF TypeOK, PageInv, Inside
    <3>6. OwedInv'  BY <3>1, <2>2 DEF TypeOK, SeenInv, OwedInv, Fast
    <3> QED  BY <3>2, <3>3, <3>4, <3>5, <3>6
  <2> QED  BY <2>1, <2>2
<1>2. ASSUME NEW t \in Threads, Register(t) PROVE BarrierInv'
  <2>1. /\ pc[t] = "register" /\ offers
        /\ pc' = [pc EXCEPT ![t] = "user"]
        /\ has' = has \cup {t}
        /\ pending' = [pending EXCEPT ![t] = MEMBARRIER]
        /\ registered' = TRUE
        /\ UNCHANGED <<platform, offers, alive, refused, STRATEGY, BARRIER, lock, page, light,
                       seen, ipi, owed>>
    BY <1>2 DEF Register, Store, Goto
  <2>2. TypeOK'  BY <2>1 DEF TypeOK, Places, View
  <2>3. StrategyInv'
    <3>1. MEMBARRIER \in Storable' /\ Storable \subseteq Storable' /\ Default' = Default
      BY <2>1 DEF StrategyInv, Storable, Default
    <3>2. \A u \in Threads : pending'[u] \in Storable' \cup {NULL}
      BY <2>1, <3>1 DEF TypeOK, StrategyInv
    <3>3. ASSUME NEW u \in has', ~Mixed' PROVE View(u)' # FALLBACK
      <4>1. CASE u = t  BY <2>1, <4>1 DEF TypeOK, View
      <4>2. CASE u # t
        <5>1. u \in has /\ Fast /\ ~Mixed
          BY <2>1, <4>2, <3>3 DEF TypeOK, StrategyInv, Fast
        <5>2. View(u)' = View(u)  BY <2>1, <4>2, <3>3 DEF TypeOK, View
        <5> QED  BY <5>1, <5>2 DEF StrategyInv
      <4> QED  BY <4>1, <4>2
    <3>4. platform' \in Linux /\ STRATEGY' \in Storable' \cup {Default'}
      BY <2>1, <3>1 DEF StrategyInv
    <3>5. \A u \in Threads : pc'[u] = "arch" => refused'
      BY <2>1 DEF TypeOK, StrategyInv
    <3>6. \A u \in Threads : pc'[u] \notin {"user", "register", "arch"} => u \in has'
      BY <2>1 DEF TypeOK, StrategyInv
    <3>7. ~(platform' = "linux_other" /\ ~registered' /\ ~refused')  BY <2>1
    <3>8. \A u \in has' : Fast' /\ ~Mixed' => View(u)' # FALLBACK  BY <3>3
    <3> QED  BY <3>2, <3>4, <3>5, <3>6, <3>7, <3>8 DEF StrategyInv
  <2>4. SeenInv'
    <3>1. Fast => Fast'  BY <2>1 DEF Fast
    <3>2. ASSUME NEW u \in Threads, pc[u] \in {"light", "heavy"}, Fast' /\ ~Mixed' PROVE Fast /\ ~Mixed
      <4>1. u \in has  BY <3>2 DEF StrategyInv
      <4> QED  BY <2>1, <3>2, <4>1 DEF StrategyInv, Fast
    <3>3. \A u \in Threads : pc'[u] = IF u = t THEN "user" ELSE pc[u]  BY <2>1 DEF TypeOK
    <3>4. seen' = seen /\ registered'  BY <2>1
    <3> QED  BY <3>1, <3>2, <3>3, <3>4 DEF SeenInv
  <2>5. PageInv'  BY <2>1 DEF TypeOK, PageInv, Inside
  <2>6. OwedInv'  BY <2>1 DEF TypeOK, SeenInv, OwedInv, Fast
  <2> QED  BY <2>2, <2>3, <2>4, <2>5, <2>6
<1>3. ASSUME NEW t \in Threads, RegisterErr(t) PROVE BarrierInv'
  <2>1. TypeOK'  BY <1>3 DEF RegisterErr, Goto, TypeOK, Places, View, PageInv
  <2>2. StrategyInv'  BY <1>3 DEF RegisterErr, Goto, TypeOK, StrategyInv, Storable, Default, Fast, View
  <2>3. SeenInv'  BY <1>3 DEF RegisterErr, Goto, TypeOK, StrategyInv, SeenInv, Storable, Default, Fast, View
  <2>4. PageInv'  BY <1>3 DEF RegisterErr, Goto, TypeOK, SeenInv, PageInv, Inside
  <2>5. OwedInv'  BY <1>3 DEF RegisterErr, Goto, TypeOK, SeenInv, PageInv, OwedInv, Fast
  <2> QED  BY <2>1, <2>2, <2>3, <2>4, <2>5
<1>4. ASSUME NEW t \in Threads, Arch(t) PROVE BarrierInv'
  <2>1. CASE platform = "linux_x86"
    <3>1. /\ pc[t] = "arch"
          /\ pc' = [pc EXCEPT ![t] = "user"]
          /\ has' = has \cup {t}
          /\ pending' = [pending EXCEPT ![t] = MPROTECT]
          /\ UNCHANGED <<platform, offers, alive, registered, refused, STRATEGY, BARRIER, lock, page,
                         light, seen, ipi, owed>>
      BY <1>4, <2>1 DEF Arch, Store, Goto
    <3>2. TypeOK'  BY <3>1, <2>1 DEF TypeOK, Places, View
    <3>3. StrategyInv'
      <4>1. MPROTECT \in Storable' /\ Storable \subseteq Storable' /\ Default' = Default
        BY <3>1, <2>1 DEF StrategyInv, Storable, Default
      <4>2. \A u \in Threads : pending'[u] \in Storable' \cup {NULL}
        BY <3>1, <2>1, <4>1 DEF TypeOK, StrategyInv
      <4>3. ASSUME NEW u \in has', Fast' PROVE View(u)' # FALLBACK
        <5>1. CASE u = t  BY <3>1, <2>1, <5>1 DEF TypeOK, View
        <5>2. CASE u # t  BY <3>1, <2>1, <5>2, <4>3 DEF TypeOK, StrategyInv, View, Fast
        <5> QED  BY <5>1, <5>2
      <4> QED  BY <3>1, <2>1, <4>1, <4>2, <4>3 DEF TypeOK, StrategyInv
    <3>4. SeenInv'  BY <3>1, <2>1 DEF TypeOK, SeenInv, Fast
    <3>5. PageInv'  BY <3>1, <2>1 DEF TypeOK, PageInv, Inside
    <3>6. OwedInv'  BY <3>1, <2>1 DEF TypeOK, SeenInv, OwedInv, Fast
    <3> QED  BY <3>2, <3>3, <3>4, <3>5, <3>6
  <2>2. CASE platform # "linux_x86"
    <3>1. /\ pc[t] = "arch"
          /\ pc' = [pc EXCEPT ![t] = "user"]
          /\ has' = has \cup {t}
          /\ UNCHANGED <<platform, offers, alive, registered, refused, STRATEGY, BARRIER, lock, page,
                         pending, light, seen, ipi, owed>>
      BY <1>4, <2>2 DEF Arch, Store, Goto
    <3>2. TypeOK'  BY <3>1, <2>2 DEF TypeOK, Places, View
    <3>3. StrategyInv'  BY <3>1, <2>2 DEF TypeOK, StrategyInv, Storable, Default, Fast, View
    <3>4. SeenInv'  BY <3>1, <2>2 DEF TypeOK, SeenInv, Fast
    <3>5. PageInv'  BY <3>1, <2>2 DEF TypeOK, PageInv, Inside
    <3>6. OwedInv'  BY <3>1, <2>2 DEF TypeOK, SeenInv, OwedInv, Fast
    <3> QED  BY <3>2, <3>3, <3>4, <3>5, <3>6
  <2> QED  BY <2>1, <2>2
<1>5. ASSUME NEW t \in Threads, LightStore(t) PROVE BarrierInv'
  <2>1. TypeOK'  BY <1>5 DEF LightStore, Goto, TypeOK, Places, View, PageInv
  <2>2. StrategyInv'  BY <1>5 DEF LightStore, Goto, TypeOK, StrategyInv, Storable, Default, Fast, View
  <2>3. SeenInv'  BY <1>5 DEF LightStore, Goto, TypeOK, StrategyInv, SeenInv, Storable, Default, Fast, View
  <2>4. PageInv'  BY <1>5 DEF LightStore, Goto, TypeOK, SeenInv, PageInv, Inside
  <2>5. OwedInv'  BY <1>5 DEF LightStore, Goto, TypeOK, SeenInv, PageInv, OwedInv, Fast
  <2> QED  BY <2>1, <2>2, <2>3, <2>4, <2>5
<1>6. ASSUME NEW t \in Threads, StoreReservation(t) PROVE BarrierInv'
  <2>1. CASE seen[t] = FALLBACK
    <3>1. /\ pc[t] = "light"
          /\ pc' = [pc EXCEPT ![t] = "user"]
          /\ light' = [light EXCEPT ![t] = FALSE]
          /\ owed' = [u \in Threads |-> owed[u] \ {t}]
          /\ STRATEGY' = View(t)
          /\ pending' = [pending EXCEPT ![t] = NULL]
          /\ UNCHANGED <<platform, offers, alive, registered, refused, BARRIER, lock, page, has,
                         seen, ipi>>
      BY <1>6, <2>1 DEF StoreReservation, Goto, Empty
    <3>2. TypeOK'  BY <3>1, <2>1 DEF TypeOK, Places, View
    <3>3. StrategyInv'  BY <3>1, <2>1 DEF TypeOK, StrategyInv, Storable, Default, Fast, View
    <3>4. SeenInv'  BY <3>1, <2>1 DEF TypeOK, SeenInv, Fast
    <3>5. PageInv'  BY <3>1, <2>1 DEF TypeOK, PageInv, Inside
    <3>6. OwedInv'  BY <3>1, <2>1 DEF TypeOK, SeenInv, OwedInv, Fast
    <3> QED  BY <3>2, <3>3, <3>4, <3>5, <3>6
  <2>2. CASE seen[t] # FALLBACK
    <3>1. /\ pc[t] = "light"
          /\ pc' = [pc EXCEPT ![t] = "user"]
          /\ light' = [light EXCEPT ![t] = TRUE]
          /\ UNCHANGED <<platform, offers, alive, registered, refused, STRATEGY, BARRIER, lock, page,
                         has, pending, seen, ipi, owed>>
      BY <1>6, <2>2 DEF StoreReservation, Goto, Empty
    <3>2. TypeOK'  BY <3>1, <2>2 DEF TypeOK, Places, View
    <3>3. StrategyInv'  BY <3>1, <2>2 DEF TypeOK, StrategyInv, Storable, Default, Fast, View
    <3>4. SeenInv'  BY <3>1, <2>2 DEF TypeOK, SeenInv, Fast
    <3>5. PageInv'  BY <3>1, <2>2 DEF TypeOK, PageInv, Inside
    <3>6. OwedInv'  BY <3>1, <2>2 DEF TypeOK, SeenInv, OwedInv, Fast
    <3> QED  BY <3>2, <3>3, <3>4, <3>5, <3>6
  <2> QED  BY <2>1, <2>2
<1>7. ASSUME NEW t \in Threads, Heavy(t) PROVE BarrierInv'
  <2>1. TypeOK'  BY <1>7 DEF Heavy, Goto, TypeOK, Places, View, PageInv
  <2>2. StrategyInv'  BY <1>7 DEF Heavy, Goto, TypeOK, StrategyInv, Storable, Default, Fast, View
  <2>3. SeenInv'  BY <1>7 DEF Heavy, Goto, TypeOK, StrategyInv, SeenInv, Storable, Default, Fast, View
  <2>4. PageInv'  BY <1>7 DEF Heavy, Goto, TypeOK, PageInv, Inside, View
  <2>5. OwedInv'  BY <1>7 DEF Heavy, Goto, TypeOK, StrategyInv, OwedInv, Fast, View
  <2> QED  BY <2>1, <2>2, <2>3, <2>4, <2>5
<1>8. ASSUME NEW t \in Threads, Fence(t) PROVE BarrierInv'
  <2>1. TypeOK'  BY <1>8 DEF Fence, Goto, Empty, TypeOK, Places, View, PageInv
  <2>2. StrategyInv'  BY <1>8 DEF Fence, Goto, Empty, TypeOK, StrategyInv, Storable, Default, Fast, View
  <2>3. SeenInv'  BY <1>8 DEF Fence, Goto, Empty, TypeOK, StrategyInv, SeenInv, Storable, Default, Fast, View
  <2>4. PageInv'  BY <1>8 DEF Fence, Goto, Empty, TypeOK, SeenInv, PageInv, Inside
  <2>5. OwedInv'  BY <1>8 DEF Fence, Goto, Empty, TypeOK, SeenInv, PageInv, OwedInv, Fast
  <2> QED  BY <2>1, <2>2, <2>3, <2>4, <2>5
<1>9. ASSUME NEW t \in Threads, SysCall(t) PROVE BarrierInv'
  <2>1. TypeOK'  BY <1>9 DEF SysCall, Goto, TypeOK, Places, View, PageInv
  <2>2. StrategyInv'  BY <1>9 DEF SysCall, Goto, TypeOK, StrategyInv, Storable, Default, Fast, View
  <2>3. SeenInv'  BY <1>9 DEF SysCall, Goto, TypeOK, StrategyInv, SeenInv, Storable, Default, Fast, View
  <2>4. PageInv'  BY <1>9 DEF SysCall, Goto, TypeOK, SeenInv, PageInv, Inside
  <2>5. OwedInv'  BY <1>9 DEF SysCall, Goto, TypeOK, SeenInv, PageInv, OwedInv, Fast
  <2> QED  BY <2>1, <2>2, <2>3, <2>4, <2>5
<1>10. ASSUME NEW t \in Threads, Interrupted(t) PROVE BarrierInv'
  <2>1. TypeOK'  BY <1>10 DEF Interrupted, Goto, TypeOK, Places, View, PageInv
  <2>2. StrategyInv'  BY <1>10 DEF Interrupted, Goto, TypeOK, StrategyInv, Storable, Default, Fast, View
  <2>3. SeenInv'  BY <1>10 DEF Interrupted, Goto, TypeOK, StrategyInv, SeenInv, Storable, Default, Fast, View
  <2>4. PageInv'  BY <1>10 DEF Interrupted, Goto, TypeOK, SeenInv, PageInv, Inside
  <2>5. OwedInv'  BY <1>10 DEF Interrupted, Goto, TypeOK, SeenInv, PageInv, OwedInv, Fast
  <2> QED  BY <2>1, <2>2, <2>3, <2>4, <2>5
<1>11. ASSUME NEW t \in Threads, Return(t) PROVE BarrierInv'
  <2>1. TypeOK'  BY <1>11 DEF Return, Goto, TypeOK, Places, View, PageInv
  <2>2. StrategyInv'  BY <1>11 DEF Return, Goto, TypeOK, StrategyInv, Storable, Default, Fast, View
  <2>3. SeenInv'  BY <1>11 DEF Return, Goto, TypeOK, StrategyInv, SeenInv, Storable, Default, Fast, View
  <2>4. PageInv'  BY <1>11 DEF Return, Goto, TypeOK, SeenInv, PageInv, Inside
  <2>5. OwedInv'  BY <1>11 DEF Return, Goto, TypeOK, SeenInv, PageInv, OwedInv, Fast
  <2> QED  BY <2>1, <2>2, <2>3, <2>4, <2>5
<1>12. ASSUME NEW t \in Threads, GetOrInit(t) PROVE BarrierInv'
  <2>1. CASE BARRIER = NULL
    <3>1. /\ pc[t] = "once"
          /\ pc' = [pc EXCEPT ![t] = "init"]
          /\ BARRIER' = t
          /\ UNCHANGED <<platform, offers, alive, registered, refused, STRATEGY, lock, page, has,
                         pending, light, seen, ipi, owed>>
      BY <1>12, <2>1 DEF GetOrInit, Goto
    <3>2. TypeOK'  BY <3>1, <2>1 DEF TypeOK, Places, View
    <3>3. StrategyInv'  BY <3>1, <2>1 DEF TypeOK, StrategyInv, Storable, Default, Fast, View
    <3>4. SeenInv'  BY <3>1, <2>1 DEF TypeOK, SeenInv, Fast
    <3>5. PageInv'  BY <3>1, <2>1 DEF TypeOK, PageInv, Inside
    <3>6. OwedInv'  BY <3>1, <2>1 DEF TypeOK, SeenInv, OwedInv, Fast
    <3> QED  BY <3>2, <3>3, <3>4, <3>5, <3>6
  <2>2. CASE BARRIER # NULL
    <3>1. /\ pc[t] = "once" /\ BARRIER = "set"
          /\ pc' = [pc EXCEPT ![t] = "lock"]
          /\ UNCHANGED <<platform, offers, alive, registered, refused, STRATEGY, BARRIER, lock, page,
                         has, pending, light, seen, ipi, owed>>
      BY <1>12, <2>2 DEF GetOrInit, Goto
    <3>2. TypeOK'  BY <3>1, <2>2 DEF TypeOK, Places, View
    <3>3. StrategyInv'  BY <3>1, <2>2 DEF TypeOK, StrategyInv, Storable, Default, Fast, View
    <3>4. SeenInv'  BY <3>1, <2>2 DEF TypeOK, SeenInv, Fast
    <3>5. PageInv'  BY <3>1, <2>2 DEF TypeOK, PageInv, Inside
    <3>6. OwedInv'  BY <3>1, <2>2 DEF TypeOK, SeenInv, OwedInv, Fast
    <3> QED  BY <3>2, <3>3, <3>4, <3>5, <3>6
  <2> QED  BY <2>1, <2>2
<1>13. ASSUME NEW t \in Threads, InitBarrier(t) PROVE BarrierInv'
  <2>1. TypeOK'  BY <1>13 DEF InitBarrier, Goto, TypeOK, Places, View, PageInv
  <2>2. StrategyInv'  BY <1>13 DEF InitBarrier, Goto, TypeOK, StrategyInv, Storable, Default, Fast, View
  <2>3. SeenInv'  BY <1>13 DEF InitBarrier, Goto, TypeOK, StrategyInv, SeenInv, Storable, Default, Fast, View
  <2>4. PageInv'  BY <1>13 DEF InitBarrier, Goto, TypeOK, SeenInv, PageInv, Inside
  <2>5. OwedInv'  BY <1>13 DEF InitBarrier, Goto, TypeOK, SeenInv, PageInv, OwedInv, Fast
  <2> QED  BY <2>1, <2>2, <2>3, <2>4, <2>5
<1>14. ASSUME NEW t \in Threads, Lock(t) PROVE BarrierInv'
  <2>1. TypeOK'  BY <1>14 DEF Lock, Goto, TypeOK, Places, View, PageInv
  <2>2. StrategyInv'  BY <1>14 DEF Lock, Goto, TypeOK, StrategyInv, Storable, Default, Fast, View
  <2>3. SeenInv'  BY <1>14 DEF Lock, Goto, TypeOK, StrategyInv, SeenInv, Storable, Default, Fast, View
  <2>4. PageInv'  BY <1>14 DEF Lock, Goto, TypeOK, SeenInv, PageInv, Inside
  <2>5. OwedInv'  BY <1>14 DEF Lock, Goto, TypeOK, SeenInv, PageInv, OwedInv, Fast
  <2> QED  BY <2>1, <2>2, <2>3, <2>4, <2>5
<1>15. ASSUME NEW t \in Threads, Allow(t) PROVE BarrierInv'
  <2>1. TypeOK'  BY <1>15 DEF Allow, Goto, TypeOK, Places, PageInv, Inside
  <2>2. StrategyInv'  BY <1>15 DEF Allow, Goto, TypeOK, StrategyInv, Storable, Default, Fast, View
  <2>3. SeenInv'  BY <1>15 DEF Allow, Goto, TypeOK, StrategyInv, SeenInv, Storable, Default, Fast, View
  <2>4. PageInv'  BY <1>15 DEF Allow, Goto, TypeOK, SeenInv, PageInv, Inside
  <2>5. OwedInv'  BY <1>15 DEF Allow, Goto, TypeOK, SeenInv, PageInv, OwedInv, Fast
  <2> QED  BY <2>1, <2>2, <2>3, <2>4, <2>5
<1>16. ASSUME NEW t \in Threads, Write(t) PROVE BarrierInv'
  <2>1. TypeOK'  BY <1>16 DEF Write, Goto, Empty, TypeOK, Places, View, PageInv
  <2>2. StrategyInv'  BY <1>16 DEF Write, Goto, Empty, TypeOK, StrategyInv, Storable, Default, Fast, View
  <2>3. SeenInv'  BY <1>16 DEF Write, Goto, Empty, TypeOK, StrategyInv, SeenInv, Storable, Default, Fast, View
  <2>4. PageInv'  BY <1>16 DEF Write, Goto, Empty, TypeOK, SeenInv, PageInv, Inside
  <2>5. OwedInv'  BY <1>16 DEF Write, Goto, Empty, TypeOK, SeenInv, PageInv, OwedInv, Fast
  <2> QED  BY <2>1, <2>2, <2>3, <2>4, <2>5
<1>17. ASSUME NEW t \in Threads, Forbid(t) PROVE BarrierInv'
  <2>1. TypeOK'  BY <1>17 DEF Forbid, Goto, TypeOK, Places, View, PageInv
  <2>2. StrategyInv'  BY <1>17 DEF Forbid, Goto, TypeOK, StrategyInv, Storable, Default, Fast, View
  <2>3. SeenInv'  BY <1>17 DEF Forbid, Goto, TypeOK, StrategyInv, SeenInv, Storable, Default, Fast, View
  <2>4. PageInv'  BY <1>17 DEF Forbid, Goto, TypeOK, SeenInv, PageInv, Inside
  <2>5. OwedInv'  BY <1>17 DEF Forbid, Goto, TypeOK, SeenInv, PageInv, OwedInv, Fast
  <2> QED  BY <2>1, <2>2, <2>3, <2>4, <2>5
<1>18. ASSUME NEW t \in Threads, Unlock(t) PROVE BarrierInv'
  <2>1. TypeOK'  BY <1>18 DEF Unlock, Goto, TypeOK, Places, View, PageInv
  <2>2. StrategyInv'  BY <1>18 DEF Unlock, Goto, TypeOK, StrategyInv, Storable, Default, Fast, View
  <2>3. SeenInv'  BY <1>18 DEF Unlock, Goto, TypeOK, StrategyInv, SeenInv, Storable, Default, Fast, View
  <2>4. PageInv'  BY <1>18 DEF Unlock, Goto, TypeOK, SeenInv, PageInv, Inside
  <2>5. OwedInv'  BY <1>18 DEF Unlock, Goto, TypeOK, SeenInv, PageInv, OwedInv, Fast
  <2> QED  BY <2>1, <2>2, <2>3, <2>4, <2>5
<1>19. ASSUME NEW t \in Threads, FatalAssert(t) PROVE BarrierInv'
  <2>1. TypeOK'  BY <1>19 DEF FatalAssert, TypeOK, Places, View, PageInv
  <2>2. StrategyInv'  BY <1>19 DEF FatalAssert, TypeOK, StrategyInv, Storable, Default, Fast, View
  <2>3. SeenInv'  BY <1>19 DEF FatalAssert, TypeOK, StrategyInv, SeenInv, Storable, Default, Fast, View
  <2>4. PageInv'  BY <1>19 DEF FatalAssert, TypeOK, SeenInv, PageInv, Inside
  <2>5. OwedInv'  BY <1>19 DEF FatalAssert, TypeOK, SeenInv, PageInv, OwedInv, Fast
  <2> QED  BY <2>1, <2>2, <2>3, <2>4, <2>5
<1>20. ASSUME NEW t \in Threads, DrainLight(t) PROVE BarrierInv'
  <2>1. TypeOK'  BY <1>20 DEF DrainLight, TypeOK, Places, View, PageInv
  <2>2. StrategyInv'  BY <1>20 DEF DrainLight, TypeOK, StrategyInv, Storable, Default, Fast, View
  <2>3. SeenInv'  BY <1>20 DEF DrainLight, TypeOK, StrategyInv, SeenInv, Storable, Default, Fast, View
  <2>4. PageInv'  BY <1>20 DEF DrainLight, TypeOK, SeenInv, PageInv, Inside
  <2>5. OwedInv'  BY <1>20 DEF DrainLight, TypeOK, SeenInv, PageInv, OwedInv, Fast
  <2> QED  BY <2>1, <2>2, <2>3, <2>4, <2>5
<1>21. ASSUME NEW t \in Threads, DrainStrategy(t) PROVE BarrierInv'
  <2>1. TypeOK'  BY <1>21 DEF DrainStrategy, TypeOK, Places, View, PageInv
  <2>2. StrategyInv'  BY <1>21 DEF DrainStrategy, TypeOK, StrategyInv, Storable, Default, Fast, View
  <2>3. SeenInv'  BY <1>21 DEF DrainStrategy, TypeOK, StrategyInv, SeenInv, Storable, Default, Fast, View
  <2>4. PageInv'  BY <1>21 DEF DrainStrategy, TypeOK, SeenInv, PageInv, Inside
  <2>5. OwedInv'  BY <1>21 DEF DrainStrategy, TypeOK, SeenInv, PageInv, OwedInv, Fast
  <2> QED  BY <2>1, <2>2, <2>3, <2>4, <2>5
<1>22. ASSUME NEW t \in Threads, NEW u \in Threads, Interrupt(t, u) PROVE BarrierInv'
  <2>1. TypeOK'  BY <1>22 DEF Interrupt, Empty, TypeOK, Places, View, PageInv
  <2>2. StrategyInv'  BY <1>22 DEF Interrupt, Empty, TypeOK, StrategyInv, Storable, Default, Fast, View
  <2>3. SeenInv'  BY <1>22 DEF Interrupt, Empty, TypeOK, StrategyInv, SeenInv, Storable, Default, Fast, View
  <2>4. PageInv'  BY <1>22 DEF Interrupt, Empty, TypeOK, SeenInv, PageInv, Inside
  <2>5. OwedInv'  BY <1>22 DEF Interrupt, Empty, TypeOK, SeenInv, PageInv, OwedInv, Fast
  <2> QED  BY <2>1, <2>2, <2>3, <2>4, <2>5
<1>23. ASSUME NEW t \in Threads, NEW u \in Threads, Share(t, u) PROVE BarrierInv'
  <2>1. TypeOK'  BY <1>23 DEF Share, TypeOK, Places, View, PageInv
  <2>2. StrategyInv'  BY <1>23 DEF Share, TypeOK, StrategyInv, Storable, Default, Fast, View
  <2>3. SeenInv'  BY <1>23 DEF Share, TypeOK, StrategyInv, SeenInv, Storable, Default, Fast, View
  <2>4. PageInv'  BY <1>23 DEF Share, TypeOK, SeenInv, PageInv, Inside
  <2>5. OwedInv'  BY <1>23 DEF Share, TypeOK, SeenInv, PageInv, OwedInv, Fast
  <2> QED  BY <2>1, <2>2, <2>3, <2>4, <2>5
<1>24. ASSUME UNCHANGED vars PROVE BarrierInv'
  <2>1. TypeOK'  BY <1>24 DEF vars, TypeOK, Places, View, PageInv
  <2>2. StrategyInv'  BY <1>24 DEF vars, TypeOK, StrategyInv, Storable, Default, Fast, View
  <2>3. SeenInv'  BY <1>24 DEF vars, TypeOK, StrategyInv, SeenInv, Storable, Default, Fast, View
  <2>4. PageInv'  BY <1>24 DEF vars, TypeOK, SeenInv, PageInv, Inside
  <2>5. OwedInv'  BY <1>24 DEF vars, TypeOK, SeenInv, PageInv, OwedInv, Fast
  <2> QED  BY <2>1, <2>2, <2>3, <2>4, <2>5
<1> QED  BY <1>1, <1>2, <1>3, <1>4, <1>5, <1>6, <1>7, <1>8, <1>9, <1>10, <1>11, <1>12, <1>13, <1>14, <1>15, <1>16, <1>17, <1>18, <1>19, <1>20, <1>21, <1>22, <1>23, <1>24 DEF Next, HeavyStep

\* Before detection no thread is in a barrier and nothing is owed.
LEMMA InitBarrierInv == Init => BarrierInv
BY NullAssumption DEF Init, BarrierInv, TypeOK, StrategyInv, SeenInv, PageInv, OwedInv, Storable, Default,
   Fast, Mixed, View, Inside, Strategies, MEMBARRIER, MPROTECT, FALLBACK, FLUSH, Linux, Platforms, Places

\* The invariant holds in every reachable state.
LEMMA BarrierInvariant == Spec => []BarrierInv
BY InitBarrierInv, NextBarrier, PTL DEF Spec

-----------------------------------------------------------------------------
\* The state of the process and of its threads keeps its type.
THEOREM MembarrierTypeCorrect == Spec => []TypeOK
<1>1. BarrierInv => TypeOK  BY DEF BarrierInv
<1> QED  BY <1>1, BarrierInvariant, PTL

\* When heavy returns, every light store issued before it began is visible, for any
\* number of threads and however detections, light stores and barriers interleave,
\* on every build and kernel but one: a Linux other than x86 where the kernel has
\* both granted and refused a registration.
THEOREM HeavyOrdersLightStores == Spec => []HeavyOrdersUnlessMixed
<1>1. BarrierInv => HeavyOrdersUnlessMixed
  BY DEF BarrierInv, OwedInv, HeavyOrders, HeavyOrdersUnlessMixed
<1> QED  BY <1>1, BarrierInvariant, PTL

\* heavy writes to a page that is writable, and makes the system call in a process
\* that is registered, however many threads run it.
THEOREM BarrierNeverKills == Spec => []NeverKilled
<1>1. BarrierInv => NeverKilled  BY DEF BarrierInv, SeenInv, PageInv, NeverKilled
<1> QED  BY <1>1, BarrierInvariant, PTL

\* Users of collectors agree whether light stores may be buffered, although each
\* detection is repeated and its store is relaxed, with the same exception.
THEOREM UsersAgree == Spec => []StrategiesAgreeUnlessMixed
<1>1. BarrierInv => StrategiesAgreeUnlessMixed
  <2> SUFFICES ASSUME BarrierInv, ~Mixed, NEW t \in has PROVE View(t) = FALLBACK <=> ~Fast
    BY DEF StrategiesAgreeUnlessMixed
  <2> QED  BY DEF BarrierInv, TypeOK, StrategyInv, Storable, Default, Fast, View, MEMBARRIER, MPROTECT,
              FALLBACK, FLUSH, Linux, Platforms
<1> QED  BY <1>1, BarrierInvariant, PTL
=============================================================================
