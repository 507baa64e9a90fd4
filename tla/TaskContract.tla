----------------------------- MODULE TaskContract -----------------------------
(***************************************************************************)
(* What a client that was handed a task may rely on, whatever the store    *)
(* does to keep it: the task works until it has one outcome, the outcome   *)
(* never changes, a task that is gone never comes back, and no task works  *)
(* for ever.  Tasks go many at a time: a sweep, or the end of a process.   *)
(***************************************************************************)
CONSTANTS
  Tasks,     \* identifiers, never used twice
  Outcomes   \* how a task may end

VARIABLE fate   \* what becomes of each task

Init == fate = [t \in Tasks |-> "unborn"]

Start(t) ==
  /\ fate[t] = "unborn"
  /\ fate' = [fate EXCEPT ![t] = "working"]

Settle(t) ==
  /\ fate[t] = "working"
  /\ \E o \in Outcomes : fate' = [fate EXCEPT ![t] = o]

Forget(S) ==
  /\ S # {}
  /\ \A t \in S : fate[t] \in Outcomes \cup {"working"}
  /\ fate' = [t \in Tasks |-> IF t \in S THEN "gone" ELSE fate[t]]

Next == (\E t \in Tasks : Start(t) \/ Settle(t)) \/ (\E S \in SUBSET Tasks : Forget(S))

\* A task stops working, one way or another.
Ends(t) == fate[t] = "working" /\ (Settle(t) \/ \E S \in SUBSET Tasks : t \in S /\ Forget(S))

Fairness == \A t \in Tasks : WF_fate(Ends(t))

Safe == Init /\ [][Next]_fate
Spec == Safe /\ Fairness
=============================================================================
