------------------------------- MODULE Service -------------------------------
(***************************************************************************)
(* The HTTP server around the tools: calls in flight, tasks whose work     *)
(* goes on behind their handle (`handleModernRequest`), the audit line of  *)
(* every call (`callTool`, `AuditLog`), and the shutdown that drains what  *)
(* is in flight (`serveHttp`).  A call is any `tools/call` that is         *)
(* answered on its request, in either era.  How long the grace lasts is    *)
(* not counted: it may end at any moment of the draining.                  *)
(***************************************************************************)
EXTENDS TaskStore, FiniteSets

CONSTANTS
  Calls,      \* calls the clients may make
  MaxTime,    \* bound on the clock
  MaxBoots    \* bound on the processes started

ASSUME CallsAssumption == Calls \cap Tasks = {}
ASSUME BoundsAssumption == MaxTime \in Nat /\ MaxBoots \in Nat

VARIABLES
  work,      \* what the promise of each task's work is doing
  calls,     \* calls: not made, running, answered, or cut off with their connection
  stream,    \* `AuditLog.stream`: open, or unset by `close`
  pending,   \* entries written to the stream and not yet in the file
  lines,     \* entries in the file
  proc,      \* the process: up, draining, closing after the drain or forced to, down
  abrupt,    \* some process was killed, or had its grace run out
  boots,     \* processes started
  told       \* of each task: whether its owner was told it is gone, or its answer, and
             \* whether another was told anything

vars == <<tasks, born, now, work, calls, stream, pending, lines, proc, abrupt, boots, told>>
taskVars == <<tasks, born, work, told>>
auditVars == <<stream, pending, lines>>
procVars == <<proc, abrupt, boots>>

TypeOK ==
  /\ tasks \in [Tasks -> Record \cup {None}]
  /\ born \in [Tasks -> Owners \cup {None}]
  /\ now \in Nat
  /\ work \in [Tasks -> {"none", "running", "done"}]
  /\ calls \in [Calls -> {"idle", "running", "answered", "late", "cut"}]
  /\ stream \in {"open", "unset"}
  /\ pending \subseteq Calls \cup Tasks
  /\ lines \subseteq Calls \cup Tasks
  /\ proc \in {"up", "draining", "closing", "forced", "down"}
  /\ abrupt \in BOOLEAN
  /\ boots \in Nat
  /\ told \in [Tasks -> SUBSET {"gone", "answer", "another's"}]

Init ==
  /\ tasks = [t \in Tasks |-> None]
  /\ born = [t \in Tasks |-> None]
  /\ now = 0
  /\ work = [t \in Tasks |-> "none"]
  /\ calls = [c \in Calls |-> "idle"]
  /\ stream = "open"
  /\ pending = {}
  /\ lines = {}
  /\ proc = "up"
  /\ abrupt = FALSE
  /\ boots = 1
  /\ told = [t \in Tasks |-> {}]

Live == proc # "down"

\* A connection stays open, and may carry requests, until the drain is over or the process gone.
Connected == proc \in {"up", "draining", "forced"}

\* `AuditLog.log`: dropped without a word once the stream is unset.
Log(x) ==
  /\ pending' = IF stream = "open" THEN pending \cup {x} ELSE pending
  /\ UNCHANGED <<stream, lines>>

\* The owner remembers an answer and a refusal; what another learns is one thing.
Tell(t, o, answer) ==
  told' = [told EXCEPT ![t] = @ \cup
    IF o # born[t] THEN {"another's" : x \in {answer} \ {"unknown"}}
    ELSE {"gone" : x \in {answer} \cap {"unknown"}} \cup {"answer" : x \in {answer} \cap {"completed"}}]
-----------------------------------------------------------------------------
\* `tools/call`, to be answered on the request.
Call(c) ==
  /\ Connected /\ calls[c] = "idle"
  /\ calls' = [calls EXCEPT ![c] = "running"]
  /\ UNCHANGED <<taskVars, auditVars, procVars, now>>

(***************************************************************************)
(* The tool has run, or has thrown, which `callTool` turns into an answer: *)
(* the line is written, and then the answer.                               *)
(***************************************************************************)
AnswerCall(c) ==
  /\ calls[c] = "running" /\ Connected
  /\ Log(c)
  /\ calls' = [calls EXCEPT ![c] = IF stream = "unset" THEN "late" ELSE "answered"]
  /\ UNCHANGED <<taskVars, procVars, now>>

\* `tools/call` of a long tool, by a client that holds tasks: the handle is the answer.
StartTask(t, o) ==
  /\ Connected /\ born[t] = None
  /\ tasks' = Created(t, o)
  /\ born' = [born EXCEPT ![t] = o]
  /\ work' = [work EXCEPT ![t] = "running"]
  /\ UNCHANGED <<told, calls, auditVars, procVars, now>>

(***************************************************************************)
(* The work of a task is `callTool`: it never rejects, so an error is a    *)
(* task completed with an error in it, and it is not handed the signal, so *)
(* a cancelled task's work also comes here.                                *)
(***************************************************************************)
FinishWork(t) ==
  /\ work[t] = "running" /\ Live
  /\ work' = [work EXCEPT ![t] = "done"]
  /\ Log(t)
  /\ tasks' = Settled(t, "completed")
  /\ UNCHANGED <<born, told, calls, procVars, now>>

\* Mutant of GetTask: an expired record is hidden from its owner, and left for a cancel to find.
GetHides(o, t) ==
  /\ Connected /\ born[t] # None
  /\ Tell(t, o, Answer(Swept, o, t))
  /\ UNCHANGED <<tasks, born, work, calls, auditVars, procVars, now>>

\* `tasks/get`.
GetTask(o, t) ==
  /\ Connected /\ born[t] # None
  /\ tasks' = Swept
  /\ Tell(t, o, Answer(tasks', o, t))
  /\ UNCHANGED <<born, work, calls, auditVars, procVars, now>>

\* `tasks/cancel`.
CancelTask(o, t) ==
  /\ Connected /\ born[t] # None
  /\ tasks' = Cancelled(o, t)
  /\ Tell(t, o, Answer(tasks', o, t))
  /\ UNCHANGED <<born, work, calls, auditVars, procVars, now>>

\* `tasks/update`: the caller learns whether the task is there, not what it is.
UpdateTask(o, t) ==
  /\ Connected /\ born[t] # None
  /\ tasks' = Updated(o, t)
  /\ IF Answer(tasks, o, t) = "unknown" THEN Tell(t, o, "unknown") ELSE UNCHANGED told
  /\ UNCHANGED <<born, work, calls, auditVars, procVars, now>>
-----------------------------------------------------------------------------
\* The stream's buffer reaches the file.
FlushLines ==
  /\ pending # {}
  /\ pending' = {}
  /\ lines' = lines \cup pending
  /\ UNCHANGED <<taskVars, calls, stream, procVars, now>>

Tick ==
  /\ now < MaxTime
  /\ now' = now + 1
  /\ UNCHANGED <<taskVars, calls, auditVars, procVars>>

\* SIGTERM or SIGINT: no new connections; a second one changes nothing.
Signal ==
  /\ proc = "up"
  /\ proc' = "draining"
  /\ UNCHANGED <<taskVars, calls, auditVars, abrupt, boots, now>>

\* `finish`: the context closes, and the audit's stream is unset at once.
Finish(how) ==
  /\ proc' = how
  /\ stream' = "unset"
  /\ UNCHANGED <<taskVars, calls, pending, lines, boots, now>>

\* `httpServer.close` calls back: no request is in flight any more.
Drained ==
  /\ proc = "draining"
  /\ \A c \in Calls : calls[c] # "running"
  /\ Finish("closing")
  /\ UNCHANGED abrupt

\* Mutant of GraceEnds: nothing bounds the wait for the last request.
GraceNeverEnds == proc = "draining" /\ (\A c \in Calls : calls[c] # "running") /\ Finish("closing") /\ UNCHANGED abrupt

\* The grace runs out first: requests in flight are left to their luck.
GraceEnds ==
  /\ proc = "draining"
  /\ Finish("forced")
  /\ abrupt' = TRUE

\* Memory goes with the process: every record, all work, every open connection.
Gone ==
  /\ proc' = "down"
  /\ tasks' = [t \in Tasks |-> None]
  /\ work' = [t \in Tasks |-> "none"]
  /\ calls' = [c \in Calls |-> IF calls[c] = "running" THEN "cut" ELSE calls[c]]
  /\ UNCHANGED <<born, told, lines, boots, now>>

\* Mutant of Exit: the end of the stream is not awaited.
ExitAtOnce ==
  /\ proc \in {"closing", "forced"}
  /\ pending' = {}
  /\ Gone
  /\ UNCHANGED <<stream, abrupt>>

\* `ctx.close` has awaited the stream's end, and git: `process.exit(0)`.
Exit ==
  /\ proc \in {"closing", "forced"} /\ pending = {}
  /\ Gone
  /\ UNCHANGED <<stream, pending, abrupt>>

\* SIGKILL, a crash, the machine: what was buffered is lost too.
Killed ==
  /\ Live
  /\ Gone
  /\ pending' = {} /\ abrupt' = TRUE
  /\ UNCHANGED stream

\* systemd starts the server again: an empty store, the log opened to append.
Restart ==
  /\ proc = "down" /\ boots < MaxBoots
  /\ proc' = "up" /\ boots' = boots + 1
  /\ stream' = "open"
  /\ UNCHANGED <<taskVars, calls, pending, lines, abrupt, now>>

Serving ==
  \/ \E c \in Calls : Call(c) \/ AnswerCall(c)
  \/ \E t \in Tasks : FinishWork(t)
  \/ \E t \in Tasks, o \in Owners : StartTask(t, o) \/ GetTask(o, t) \/ CancelTask(o, t) \/ UpdateTask(o, t)

Environment ==
  \/ FlushLines \/ Tick \/ Signal \/ Drained \/ GraceEnds \/ Exit \/ Killed \/ Restart

Next == Serving \/ Environment

(***************************************************************************)
(* Work and buffers make progress, timers fire and a closing process ends. *)
(* Nothing obliges a plain call to end, a client to ask or cancel, or a    *)
(* process to be stopped or started.                                       *)
(***************************************************************************)
Fairness ==
  /\ \A t \in Tasks : WF_vars(FinishWork(t))
  /\ WF_vars(FlushLines) /\ WF_vars(GraceEnds) /\ WF_vars(Exit)

Spec == Init /\ [][Next]_vars /\ Fairness
-----------------------------------------------------------------------------
Fate(t) ==
  IF born[t] = None THEN "unborn" ELSE IF tasks[t] = None THEN "gone" ELSE tasks[t].status

Contract == INSTANCE TaskContract WITH fate <- [t \in Tasks |-> Fate(t)]

(***************************************************************************)
(* The server keeps the contract of tasks: one outcome that stands, though *)
(* completion and cancellation race and the work does not stop for a       *)
(* cancel; nothing comes back once swept or lost with its process; and no  *)
(* task works for ever (tasks.ts:99-143, modern.ts:166-229).               *)
(***************************************************************************)
ContractKept == Contract!Spec

(***************************************************************************)
(* A task exists for its owner alone: nobody else is ever told anything of *)
(* it but that there is none (tasks.ts:126,136,152).                       *)
(***************************************************************************)
OwnersOnly == \A t \in Tasks : "another's" \notin told[t]

(***************************************************************************)
(* Once its owner has been told a task does not exist, no later get,       *)
(* cancel or update finds it, though only `get` sweeps (tasks.ts:123-157). *)
(***************************************************************************)
UnknownIsFinal ==
  [][\A t \in Tasks :
       "gone" \in told[t] => tasks'[t] = None /\ told'[t] = told[t]]_vars

(***************************************************************************)
(* A call answered before the close began has its line, and so has a task  *)
(* whose answer was collected: in the file, or on its way there while the  *)
(* process lives.  Only a kill or a grace that ran out loses one           *)
(* (tools.ts:938-945, audit.ts:35-48, context.ts:343-350).                 *)
(***************************************************************************)
AnsweredIsAudited ==
  \/ abrupt
  \/ /\ \A c \in Calls : calls[c] = "answered" => c \in lines \cup pending
     /\ \A t \in Tasks : "answer" \in told[t] => t \in lines \cup pending

(***************************************************************************)
(* A server told to stop stops, though a call in flight may never end and  *)
(* clients may keep asking (http.ts:239-261).                              *)
(***************************************************************************)
ShutdownEnds == proc = "draining" ~> proc = "down"
=============================================================================
