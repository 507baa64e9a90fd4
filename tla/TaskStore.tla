------------------------------ MODULE TaskStore ------------------------------
(***************************************************************************)
(* `TaskStore`: the handles of calls too long for a request.  The store is *)
(* a map in memory; a record has an owner and a time to live counted from  *)
(* its creation, and goes at the first look (`get`, `size`) after that.    *)
(* The work goes on whatever becomes of its record.  The operations are    *)
(* written as what the map becomes and what the caller is told.            *)
(***************************************************************************)
EXTENDS Naturals

CONSTANTS
  Tasks,    \* identifiers: `randomUUID` never gives one twice
  Owners,   \* the names of the identities
  TTL,      \* how long a record lives after it was created, or None for ever
  None      \* no record, no limit

Outcomes == {"completed", "failed", "cancelled"}
Statuses == Outcomes \cup {"working", "input_required"}
Record == [owner : Owners, status : Statuses, expiresAt : Nat \cup {None}]

ASSUME TTLAssumption == TTL \in Nat \cup {None}
ASSUME NoneIsNobody == None \notin Record \cup Nat \cup Owners

VARIABLES
  tasks,   \* the map: a record or None
  born,    \* identifiers given out, by this process or one before: to whom
  now      \* the clock

-----------------------------------------------------------------------------
\* `create`: a fresh record, working.
Created(t, o) ==
  [tasks EXCEPT ![t] =
    [owner |-> o, status |-> "working", expiresAt |-> IF TTL = None THEN None ELSE now + TTL]]

\* Mutant of Settled: the answer is stored whatever the caller was told meanwhile.
SettledAnyway(t, outcome) ==
  IF tasks[t] = None THEN tasks ELSE [tasks EXCEPT ![t].status = outcome]

(***************************************************************************)
(* The handlers of the work's promise: `finish`, unless the task already   *)
(* has an outcome.  A record swept meanwhile is no longer in the map.      *)
(***************************************************************************)
Settled(t, outcome) ==
  IF tasks[t] = None \/ tasks[t].status \in Outcomes
    THEN tasks ELSE [tasks EXCEPT ![t].status = outcome]

\* `sweep`.
Swept ==
  [t \in Tasks |->
    IF tasks[t] # None /\ TTL # None /\ tasks[t].expiresAt <= now THEN None ELSE tasks[t]]

\* Mutant of Answer: whoever has the identifier is answered.
AnswerAnyone(map, o, t) == IF map[t] # None THEN map[t].status ELSE "unknown"

\* What identity o is told of task t: another's task is as one that does not exist.
Answer(map, o, t) == IF map[t] # None /\ map[t].owner = o THEN map[t].status ELSE "unknown"

\* `cancel`, without a sweep: an unfinished task is cancelled, a finished one stays as it is.
Cancelled(o, t) ==
  IF Answer(tasks, o, t) = "unknown" THEN tasks ELSE Settled(t, "cancelled")

\* `update`, without a sweep.  No task of this server ever waits for input.
Updated(o, t) ==
  IF Answer(tasks, o, t) = "input_required" THEN [tasks EXCEPT ![t].status = "working"] ELSE tasks
=============================================================================
