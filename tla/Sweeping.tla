------------------------------ MODULE Sweeping ------------------------------
(***************************************************************************)
(* What reclaim_all and the drop of a collector promise, without saying     *)
(* how: Reclamation, and calls that find no guard and leave none, and that  *)
(* return when everything retired before them has been reclaimed.           *)
(*                                                                          *)
(* There are no batches to visit, marks or iterators here.  ReclaimAll is   *)
(* shown to implement this specification.                                   *)
(***************************************************************************)
EXTENDS Reclamation

CONSTANT Helpers   \* reclaimers of the call may put other slots to work

VARIABLES sweep,    \* the slot that is in reclaim_all, or NULL
          closing,  \* the call is the drop of the collector
          gone,     \* the collector was dropped
          due       \* what was retired when the last call began

callVars == <<sweep, closing, gone, due>>

SweepingInit == Init /\ sweep = NULL /\ closing = FALSE /\ gone = FALSE /\ due = {}

NoGuards == \A s \in Slots : guards[s] = 0

\* reclaim_all is called, or the collector is dropped: no guard is alive.
Begin(s, drop) ==
  /\ ~gone
  /\ sweep = NULL
  /\ NoGuards
  /\ sweep' = s
  /\ closing' = drop
  /\ due' = {o \in Objects : obj[o] = "retired"}
  /\ UNCHANGED <<gone, vars>>

\* It returns.  The reclaimers it ran have dropped their guards.
End ==
  /\ sweep # NULL
  /\ NoGuards
  /\ \A o \in due : obj[o] = "reclaimed"
  /\ sweep' = NULL
  /\ gone' = closing
  /\ UNCHANGED <<closing, due, vars>>

\* What a reclaimer of the call retires may be reclaimed at once, under the very
\* guard it was retired through.
RetireNow(s, o) ==
  /\ sweep # NULL
  /\ obj[o] \in {"fresh", "unlinked"}
  /\ obj' = [obj EXCEPT ![o] = "reclaimed"]
  /\ MayHold(s, {o})
  /\ UNCHANGED <<guards, cell>>

\* The collector exists, and slot s may use it: during a call, the reclaimers may.
MayUse(s) == ~gone /\ (sweep \in {NULL, s} \/ Helpers)

SweepingNext ==
  \/ \E s \in Slots, drop \in BOOLEAN : Begin(s, drop)
  \/ End
  \/ /\ \/ \E s \in Slots : MayUse(s) /\ (Use(s) \/ \E o \in Objects : RetireNow(s, o))
        \/ ~gone /\ \E o \in Objects : Reclaim(o)
     /\ UNCHANGED callVars

SweepingSpec == SweepingInit /\ [][SweepingNext]_<<vars, callVars>>
=============================================================================
