---------------------------- MODULE Reclamation ----------------------------
(***************************************************************************)
(* What a collector promises its users, without saying how: objects are     *)
(* shared through cells, used under guards and retired, and a retired       *)
(* object is reclaimed, once, at some moment when no guard protects it.     *)
(*                                                                          *)
(* There are no batches, reservation lists, counts or barriers here.        *)
(* Hyaline is shown to implement this specification.                        *)
(***************************************************************************)
EXTENDS Integers

CONSTANTS Slots,    \* the threads and OwnedGuards that use the collector
          Objects,  \* heap objects of the application
          Cells,    \* atomic pointers through which objects are shared
          NULL      \* the null pointer

VARIABLES guards,   \* the number of live guards of each slot
          cell,     \* the object each cell points to, or NULL
          obj,      \* the state of each object
          held      \* the objects the guards of a slot protect

vars == <<guards, cell, obj, held>>

Init ==
  /\ guards = [s \in Slots |-> 0]
  /\ cell = [c \in Cells |-> NULL]
  /\ obj = [o \in Objects |-> "fresh"]
  /\ held = [s \in Slots |-> {}]

\* Slot s comes to protect what is in objs, if it has a guard and uses it.
MayHold(s, objs) ==
  \/ UNCHANGED held
  \/ guards[s] > 0 /\ held' = [held EXCEPT ![s] = @ \cup objs]

\* A guard is created.
Enter(s) ==
  /\ guards' = [guards EXCEPT ![s] = @ + 1]
  /\ UNCHANGED <<cell, obj, held>>

\* A guard is dropped.  With the last one, the slot protects nothing any more.
Leave(s) ==
  /\ guards[s] > 0
  /\ guards' = [guards EXCEPT ![s] = @ - 1]
  /\ held' = [held EXCEPT ![s] = IF guards[s] = 1 THEN {} ELSE @]
  /\ UNCHANGED <<cell, obj>>

\* The only guard of a slot is refreshed, and protects nothing loaded before.
Refresh(s) ==
  /\ guards[s] = 1
  /\ held' = [held EXCEPT ![s] = {}]
  /\ UNCHANGED <<guards, cell, obj>>

\* An object is loaded from a cell through a guard.
Protect(s, c) ==
  /\ guards[s] > 0
  /\ cell[c] # NULL
  /\ held' = [held EXCEPT ![s] = @ \cup {cell[c]}]
  /\ UNCHANGED <<guards, cell, obj>>

\* A cell is made to point to a new object, or to none.
Swap(s, c, n) ==
  /\ n # cell[c]
  /\ n \in {NULL} \cup {o \in Objects : obj[o] = "fresh"}
  /\ cell' = [cell EXCEPT ![c] = n]
  /\ obj' = [o \in Objects |-> IF o = n THEN "shared"
                               ELSE IF o = cell[c] THEN "unlinked" ELSE obj[o]]
  /\ MayHold(s, {cell[c]} \ {NULL})
  /\ UNCHANGED guards

\* An object that no cell points to is retired.
Retire(s, o) ==
  /\ obj[o] \in {"fresh", "unlinked"}
  /\ obj' = [obj EXCEPT ![o] = "retired"]
  /\ MayHold(s, {o})
  /\ UNCHANGED <<guards, cell>>

\* The reclaimer of a retired object runs: not before every guard that protects
\* the object is gone, and not a second time.
Reclaim(o) ==
  /\ obj[o] = "retired"
  /\ \A s \in Slots : o \notin held[s]
  /\ obj' = [obj EXCEPT ![o] = "reclaimed"]
  /\ UNCHANGED <<guards, cell, held>>

\* What slot s does with the collector.
Use(s) ==
  \/ Enter(s) \/ Leave(s) \/ Refresh(s)
  \/ \E c \in Cells : Protect(s, c) \/ \E n \in Objects \cup {NULL} : Swap(s, c, n)
  \/ \E o \in Objects : Retire(s, o)

Next == (\E s \in Slots : Use(s)) \/ (\E o \in Objects : Reclaim(o))

Spec == Init /\ [][Next]_vars
=============================================================================
