----------------------------- MODULE SlotTable -----------------------------
(***************************************************************************)
(* What a ThreadLocal promises its users, without saying how: a set of      *)
(* slots that only grows while the table lives, to which the user of a slot *)
(* adds it once, and iterators that miss nothing which was there when they  *)
(* started and repeat nothing.                                              *)
(*                                                                          *)
(* There are no buckets, pointers or flags here.  ThreadLocal is shown to   *)
(* implement this specification.                                            *)
(***************************************************************************)
CONSTANTS Threads,  \* threads that use the table
          Slots,    \* the slots they use it for
          NULL      \* no slot

VARIABLES phase,    \* "building", "ready", "failed" or "dropped"
          there,    \* the slots whose value is initialised
          call,     \* what each thread is doing
          user,     \* the slot of a thread in load_or
          owed,     \* what was there when the iterator started
          got       \* what the iterator has yielded

vars == <<phase, there, call, user, owed, got>>

Init ==
  /\ phase = "building"
  /\ there = {}
  /\ call = [t \in Threads |-> "idle"]
  /\ user = [t \in Threads |-> NULL]
  /\ owed = [t \in Threads |-> {}]
  /\ got = [t \in Threads |-> {}]

\* The constructor returns a table, or an error.
New ==
  /\ phase = "building"
  /\ phase' \in {"ready", "failed"}
  /\ UNCHANGED <<there, call, user, owed, got>>

\* load_or is called for a slot that no other call uses.
LoadOr(t) ==
  /\ phase = "ready"
  /\ call[t] = "idle"
  /\ call' = [call EXCEPT ![t] = "load_or"]
  /\ \E s \in Slots :
       /\ \A u \in Threads : call[u] \in {"load_or", "secured"} => user[u] # s
       /\ user' = [user EXCEPT ![t] = s]
  /\ UNCHANGED <<phase, there, owed, got>>

\* There is room for the slot: the call can no longer fail.
Secured(t) ==
  /\ call[t] = "load_or"
  /\ call' = [call EXCEPT ![t] = "secured"]
  /\ UNCHANGED <<phase, there, user, owed, got>>

\* It returns a value: the one that was there, or a new one.
Loaded(t) ==
  /\ call[t] = "secured"
  /\ call' = [call EXCEPT ![t] = "idle"]
  /\ there' = there \cup {user[t]}
  /\ user' = [user EXCEPT ![t] = NULL]
  /\ UNCHANGED <<phase, owed, got>>

\* It returns the error of an allocation, for a slot that is not there.
Failed(t) ==
  /\ call[t] = "load_or"
  /\ user[t] \notin there
  /\ call' = [call EXCEPT ![t] = "idle"]
  /\ user' = [user EXCEPT ![t] = NULL]
  /\ UNCHANGED <<phase, there, owed, got>>

\* An iterator is created.
Iter(t) ==
  /\ phase = "ready"
  /\ call[t] = "idle"
  /\ call' = [call EXCEPT ![t] = "iter"]
  /\ owed' = [owed EXCEPT ![t] = there]
  /\ UNCHANGED <<phase, there, user, got>>

\* It yields an initialised value that it has not yielded before.
Yield(t) ==
  /\ call[t] = "iter"
  /\ \E s \in there \ got[t] : got' = [got EXCEPT ![t] = @ \cup {s}]
  /\ UNCHANGED <<phase, there, call, user, owed>>

\* It returns None, and yields nothing more: it has yielded all it owed.
Finish(t) ==
  /\ call[t] = "iter"
  /\ owed[t] \subseteq got[t]
  /\ call' = [call EXCEPT ![t] = "done"]
  /\ UNCHANGED <<phase, there, user, owed, got>>

\* The iterator is dropped.
Close(t) ==
  /\ call[t] = "done"
  /\ call' = [call EXCEPT ![t] = "idle"]
  /\ owed' = [owed EXCEPT ![t] = {}]
  /\ got' = [got EXCEPT ![t] = {}]
  /\ UNCHANGED <<phase, there, user>>

\* The table is dropped, with its values.
Drop ==
  /\ phase = "ready"
  /\ \A t \in Threads : call[t] = "idle"
  /\ phase' = "dropped"
  /\ there' = {}
  /\ UNCHANGED <<call, user, owed, got>>

Next ==
  \/ New \/ Drop
  \/ \E t \in Threads : \/ LoadOr(t) \/ Secured(t) \/ Loaded(t) \/ Failed(t)
                        \/ Iter(t) \/ Yield(t) \/ Finish(t) \/ Close(t)

Spec == Init /\ [][Next]_vars
=============================================================================
