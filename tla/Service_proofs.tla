--------------------------- MODULE Service_proofs ---------------------------
(***************************************************************************)
(* The server's tasks and audit, for any tasks, identities, calls, TTL and *)
(* processes: whose a task is, how long it can be asked for, what its      *)
(* owner was told, the lines of what was answered, and the contract of     *)
(* tasks that all of this implements, up to its fairness.                  *)
(***************************************************************************)
EXTENDS Service, TLAPS

\* A record is of a task given out, to whom it was given to, waits for no input and expires.
RecordsAreBorn ==
  \A t \in Tasks : tasks[t] # None =>
    /\ born[t] # None /\ tasks[t].owner = born[t] /\ tasks[t].status # "input_required"
    /\ TTL # None => tasks[t].expiresAt # None

\* What an owner was told is gone, or nobody else was told of, is so.
ToldIsTrue ==
  \A t \in Tasks :
    /\ "another's" \notin told[t]
    /\ "gone" \in told[t] => born[t] # None /\ tasks[t] = None

\* The stream is open until the close, and no process means no record.
StreamFollows ==
  /\ proc \in {"up", "draining"} => stream = "open"
  /\ proc \in {"closing", "forced"} => stream = "unset"
  /\ proc = "down" => tasks = [t \in Tasks |-> None]
  /\ proc = "forced" => abrupt

\* What is answered, or can be collected while the stream is open, has its line.
LinesAreThere ==
  \/ abrupt
  \/ /\ \A c \in Calls : calls[c] = "answered" => c \in lines \cup pending
     /\ \A t \in Tasks : "answer" \in told[t] => t \in lines \cup pending
     /\ proc \in {"up", "draining"} =>
          \A t \in Tasks : tasks[t] # None /\ tasks[t].status = "completed" => t \in lines \cup pending

Inv == TypeOK /\ RecordsAreBorn /\ ToldIsTrue /\ StreamFollows /\ LinesAreThere

LEMMA InitInv == Init => Inv
<1> SUFFICES ASSUME Init PROVE Inv
  OBVIOUS
<1>1. TypeOK
  BY DEF Init, TypeOK
<1>2. RecordsAreBorn /\ ToldIsTrue
  BY DEF Init, RecordsAreBorn, ToldIsTrue
<1>3. StreamFollows /\ LinesAreThere
  BY DEF Init, StreamFollows, LinesAreThere
<1>. QED BY <1>1, <1>2, <1>3 DEF Inv
-----------------------------------------------------------------------------
\* A task that settles has an outcome, one it had already or this one; the others are as they were.
LEMMA SettledIs ==
  ASSUME TypeOK, NEW t \in Tasks, NEW outcome \in Outcomes
  PROVE  /\ Settled(t, outcome) \in [Tasks -> Record \cup {None}]
         /\ \A u \in Tasks : u # t => Settled(t, outcome)[u] = tasks[u]
         /\ Settled(t, outcome)[t] = None <=> tasks[t] = None
         /\ tasks[t] # None => /\ Settled(t, outcome)[t].owner = tasks[t].owner
                               /\ Settled(t, outcome)[t].expiresAt = tasks[t].expiresAt
                               /\ Settled(t, outcome)[t].status \in Outcomes
                               /\ Settled(t, outcome)[t].status \in {tasks[t].status, outcome}
<1>1. CASE tasks[t] = None \/ tasks[t].status \in Outcomes
  BY <1>1 DEF Settled, TypeOK
<1>2. CASE tasks[t] # None /\ tasks[t].status \notin Outcomes
  <2>1. tasks[t] \in Record /\ [tasks[t] EXCEPT !.status = outcome] \in Record
    BY <1>2 DEF TypeOK, Record, Statuses
  <2>2. Settled(t, outcome) = [tasks EXCEPT ![t] = [tasks[t] EXCEPT !.status = outcome]]
    BY <1>2 DEF Settled
  <2>. QED BY <1>2, <2>1, <2>2, NoneIsNobody DEF TypeOK, Record
<1>. QED BY <1>1, <1>2

\* What the owner's questions make of the store: records go, or are cancelled.
LEMMA AskedStore ==
  ASSUME TypeOK, RecordsAreBorn, NEW o \in Owners, NEW t \in Tasks
  PROVE  /\ Swept \in [Tasks -> Record \cup {None}]
         /\ \A u \in Tasks : Swept[u] \in {tasks[u], None}
         /\ Cancelled(o, t) \in {tasks, Settled(t, "cancelled")}
         /\ Updated(o, t) = tasks
<1>1. /\ Swept \in [Tasks -> Record \cup {None}]
      /\ \A u \in Tasks : Swept[u] \in {tasks[u], None}
  BY DEF TypeOK, Swept
<1>2. Cancelled(o, t) \in {tasks, Settled(t, "cancelled")}
  BY DEF Cancelled
<1>3. Updated(o, t) = tasks
  BY DEF Updated, Answer, RecordsAreBorn
<1>. QED BY <1>1, <1>2, <1>3

\* What a caller remembers of one answer.
LEMMA TellIs ==
  ASSUME TypeOK, NEW t \in Tasks, NEW o \in Owners, NEW answer, Tell(t, o, answer)
  PROVE  /\ told' \in [Tasks -> SUBSET {"gone", "answer", "another's"}]
         /\ \A u \in Tasks : u # t => told'[u] = told[u]
         /\ "another's" \in told'[t] => "another's" \in told[t] \/ (o # born[t] /\ answer # "unknown")
         /\ "gone" \in told'[t] => "gone" \in told[t] \/ (o = born[t] /\ answer = "unknown")
         /\ "answer" \in told'[t] => "answer" \in told[t] \/ (o = born[t] /\ answer = "completed")
         /\ "gone" \in told[t] /\ answer = "unknown" => told'[t] = told[t]
<1> DEFINE more == IF o # born[t] THEN {"another's" : x \in {answer} \ {"unknown"}}
                   ELSE {"gone" : x \in {answer} \cap {"unknown"}} \cup {"answer" : x \in {answer} \cap {"completed"}}
<1>1. told' = [told EXCEPT ![t] = told[t] \cup more]
  BY DEF Tell
<1>2. CASE o # born[t]
  <2>1. \A x : x \in more <=> x = "another's" /\ answer # "unknown"
    BY <1>2
  <2> HIDE DEF more
  <2>. QED BY <1>1, <1>2, <2>1 DEF TypeOK
<1>3. CASE o = born[t]
  <2>1. \A x : x \in more <=> (x = "gone" /\ answer = "unknown") \/ (x = "answer" /\ answer = "completed")
    BY <1>3
  <2> HIDE DEF more
  <2>. QED BY <1>1, <1>3, <2>1 DEF TypeOK
<1>. QED BY <1>2, <1>3

(***************************************************************************)
(* A question about a task, whatever it does to the store: records may go, *)
(* or be cancelled, and the caller is told what is left of the one asked   *)
(* about.                                                                  *)
(***************************************************************************)
LEMMA AskInv ==
  ASSUME Inv, NEW t \in Tasks, NEW o \in Owners, Connected, born[t] # None,
         tasks' \in [Tasks -> Record \cup {None}],
         \A u \in Tasks : tasks'[u] # None =>
           /\ tasks[u] # None /\ tasks'[u].owner = tasks[u].owner
           /\ tasks'[u].expiresAt = tasks[u].expiresAt
           /\ tasks'[u].status \in {tasks[u].status, "cancelled"},
         Tell(t, o, Answer(tasks', o, t)),
         UNCHANGED <<born, work, calls, auditVars, procVars, now>>
  PROVE  Inv'
<1>1. TypeOK'
  BY TellIs DEF Inv, TypeOK, auditVars, procVars
<1>2. RecordsAreBorn'
  BY DEF Inv, RecordsAreBorn
<1>3. Answer(tasks', o, t) # "unknown" => tasks'[t] # None /\ o = born[t] /\ tasks'[t].status = Answer(tasks', o, t)
  BY <1>2 DEF Answer, RecordsAreBorn
<1>4. Answer(tasks', o, t) = "unknown" /\ o = born[t] => tasks'[t] = None
  <2>1. "unknown" \notin Statuses
    BY DEF Statuses, Outcomes
  <2>2. tasks'[t] # None => tasks'[t].status \in Statuses
    BY DEF Record
  <2>. QED BY <1>2, <2>1, <2>2 DEF Answer, RecordsAreBorn
<1>5. ToldIsTrue'
  BY <1>3, <1>4, TellIs DEF Inv, ToldIsTrue
<1>6. StreamFollows'
  BY DEF Inv, StreamFollows, Connected, auditVars, procVars
<1>7. LinesAreThere'
  <2>1. CASE abrupt
    BY <2>1 DEF LinesAreThere, procVars
  <2>2. CASE ~abrupt
    <3>1. proc \in {"up", "draining"}
      BY <2>2 DEF Inv, TypeOK, StreamFollows, Connected
    <3>2. \A u \in Tasks : tasks'[u] # None /\ tasks'[u].status = "completed" => u \in lines \cup pending
      BY <2>2, <3>1 DEF Inv, LinesAreThere
    <3>3. \A u \in Tasks : "answer" \in told'[u] => u \in lines \cup pending
      BY <1>3, <2>2, <3>2, TellIs DEF Inv, LinesAreThere
    <3>. QED BY <2>2, <3>2, <3>3 DEF Inv, LinesAreThere, auditVars, procVars
  <2>. QED BY <2>1, <2>2 DEF Inv, TypeOK
<1>. QED BY <1>1, <1>2, <1>5, <1>6, <1>7 DEF Inv

LEMMA AskedInv ==
  ASSUME Inv, NEW t \in Tasks, NEW o \in Owners, GetTask(o, t) \/ CancelTask(o, t) \/ UpdateTask(o, t)
  PROVE  Inv'
<1>1. CASE GetTask(o, t)
  <2>1. tasks' \in [Tasks -> Record \cup {None}] /\ \A u \in Tasks : tasks'[u] \in {tasks[u], None}
    BY <1>1, AskedStore DEF GetTask, Inv
  <2>. QED BY <1>1, <2>1, AskInv DEF GetTask
<1>2. CASE CancelTask(o, t)
  <2>1. /\ tasks' \in [Tasks -> Record \cup {None}]
        /\ \A u \in Tasks : tasks'[u] # None =>
             /\ tasks[u] # None /\ tasks'[u].owner = tasks[u].owner
             /\ tasks'[u].expiresAt = tasks[u].expiresAt
             /\ tasks'[u].status \in {tasks[u].status, "cancelled"}
    <3>1. tasks' \in {tasks, Settled(t, "cancelled")} /\ "cancelled" \in Outcomes
      BY <1>2, AskedStore DEF CancelTask, Inv, Outcomes
    <3>. QED BY <3>1, SettledIs DEF Inv, TypeOK
  <2>. QED BY <1>2, <2>1, AskInv DEF CancelTask
<1>3. CASE UpdateTask(o, t)
  <2>1. tasks' = tasks
    BY <1>3, AskedStore DEF UpdateTask, Inv
  <2>2. CASE Answer(tasks, o, t) = "unknown"
    <3>1. Tell(t, o, Answer(tasks', o, t))
      BY <1>3, <2>1, <2>2 DEF UpdateTask
    <3>. QED BY <1>3, <2>1, <3>1, AskInv DEF UpdateTask, Inv, TypeOK
  <2>3. CASE Answer(tasks, o, t) # "unknown"
    BY <1>3, <2>1, <2>3 DEF UpdateTask, auditVars, procVars, Inv, TypeOK, RecordsAreBorn, ToldIsTrue,
       StreamFollows, LinesAreThere
  <2>. QED BY <2>2, <2>3
<1>. QED BY <1>1, <1>2, <1>3
-----------------------------------------------------------------------------
\* Calls and work: a fresh record, an answer and its line, the end of the work.
LEMMA CallInv ==
  ASSUME Inv, NEW c \in Calls, Call(c) \/ AnswerCall(c)
  PROVE  Inv'
<1>1. CASE Call(c)
  BY <1>1 DEF Call, taskVars, auditVars, procVars, Inv, TypeOK, RecordsAreBorn, ToldIsTrue,
     StreamFollows, LinesAreThere
<1>2. CASE AnswerCall(c)
  <2>1. TypeOK'
    BY <1>2 DEF AnswerCall, Log, taskVars, procVars, Inv, TypeOK
  <2>2. RecordsAreBorn' /\ ToldIsTrue' /\ StreamFollows'
    BY <1>2 DEF AnswerCall, Log, taskVars, procVars, Inv, RecordsAreBorn, ToldIsTrue, StreamFollows
  <2>3. LinesAreThere'
    BY <1>2 DEF AnswerCall, Log, taskVars, procVars, Inv, TypeOK, LinesAreThere
  <2>. QED BY <2>1, <2>2, <2>3 DEF Inv
<1>. QED BY <1>1, <1>2

LEMMA StartInv ==
  ASSUME Inv, NEW t \in Tasks, NEW o \in Owners, StartTask(t, o)
  PROVE  Inv'
<1> DEFINE record == [owner |-> o, status |-> "working", expiresAt |-> IF TTL = None THEN None ELSE now + TTL]
<1>1. record \in Record /\ record.owner = o /\ record.status = "working" /\ (TTL # None => record.expiresAt # None)
  BY TTLAssumption, NoneIsNobody DEF Record, Statuses, Inv, TypeOK
<1>2. tasks' = [tasks EXCEPT ![t] = record] /\ born' = [born EXCEPT ![t] = o] /\ born[t] = None
  BY DEF StartTask, Created
<1> HIDE DEF record
<1>3. TypeOK'
  BY <1>1, <1>2 DEF StartTask, auditVars, procVars, Inv, TypeOK
<1>4. RecordsAreBorn'
  BY <1>1, <1>2, NoneIsNobody DEF Inv, TypeOK, RecordsAreBorn
<1>5. ToldIsTrue'
  BY <1>2, NoneIsNobody DEF StartTask, Inv, TypeOK, ToldIsTrue
<1>6. StreamFollows' /\ LinesAreThere'
  BY <1>1, <1>2 DEF StartTask, Connected, auditVars, procVars, Inv, TypeOK, StreamFollows, LinesAreThere
<1>. QED BY <1>3, <1>4, <1>5, <1>6 DEF Inv

LEMMA WorkInv ==
  ASSUME Inv, NEW t \in Tasks, FinishWork(t)
  PROVE  Inv'
<1>1. /\ tasks' \in [Tasks -> Record \cup {None}]
      /\ \A u \in Tasks : u # t => tasks'[u] = tasks[u]
      /\ tasks'[t] = None <=> tasks[t] = None
      /\ tasks[t] # None => /\ tasks'[t].owner = tasks[t].owner /\ tasks'[t].status \in Outcomes
                            /\ tasks'[t].expiresAt = tasks[t].expiresAt
  BY SettledIs DEF FinishWork, Inv, Outcomes
<1>2. TypeOK'
  BY <1>1 DEF FinishWork, Log, procVars, Inv, TypeOK
<1>3. RecordsAreBorn' /\ ToldIsTrue'
  BY <1>1 DEF FinishWork, Outcomes, Inv, RecordsAreBorn, ToldIsTrue
<1>4. StreamFollows' /\ LinesAreThere'
  BY <1>1 DEF FinishWork, Log, Live, procVars, Inv, TypeOK, StreamFollows, LinesAreThere
<1>. QED BY <1>2, <1>3, <1>4 DEF Inv
-----------------------------------------------------------------------------
\* The process: lines reach the file, time goes by, it is told to stop, ends, starts again.
LEMMA ProcessInv ==
  ASSUME Inv, FlushLines \/ Tick \/ Signal \/ Drained \/ GraceEnds \/ Restart
  PROVE  Inv'
<1> USE DEF taskVars, auditVars, procVars, Inv, TypeOK, RecordsAreBorn, ToldIsTrue, StreamFollows, LinesAreThere
<1>1. CASE FlushLines
  BY <1>1 DEF FlushLines
<1>2. CASE Tick
  BY <1>2 DEF Tick
<1>3. CASE Signal
  BY <1>3 DEF Signal
<1>4. CASE Drained \/ GraceEnds
  BY <1>4 DEF Drained, GraceEnds, Finish
<1>5. CASE Restart
  BY <1>5 DEF Restart
<1>. QED BY <1>1, <1>2, <1>3, <1>4, <1>5

LEMMA GoneInv ==
  ASSUME Inv, Exit \/ Killed
  PROVE  Inv'
<1>1. Gone /\ UNCHANGED stream /\ pending' \in {pending, {}}
  BY DEF Exit, Killed
<1>2. TypeOK'
  BY <1>1 DEF Exit, Killed, Gone, Inv, TypeOK
<1>3. RecordsAreBorn' /\ ToldIsTrue' /\ StreamFollows'
  BY <1>1 DEF Gone, Inv, TypeOK, RecordsAreBorn, ToldIsTrue, StreamFollows
<1>4. ASSUME Exit PROVE LinesAreThere'
  BY <1>1, <1>4 DEF Exit, Gone, Inv, TypeOK, LinesAreThere
<1>5. ASSUME Killed PROVE LinesAreThere'
  BY <1>5 DEF Killed, LinesAreThere
<1>. QED BY <1>2, <1>3, <1>4, <1>5 DEF Inv
-----------------------------------------------------------------------------
LEMMA StepInv == Inv /\ [Next]_vars => Inv'
<1> SUFFICES ASSUME Inv, [Next]_vars PROVE Inv'
  OBVIOUS
<1>1. ASSUME NEW c \in Calls, Call(c) \/ AnswerCall(c) PROVE Inv'
  BY <1>1, CallInv
<1>2. ASSUME NEW t \in Tasks, FinishWork(t) PROVE Inv'
  BY <1>2, WorkInv
<1>3. ASSUME NEW t \in Tasks, NEW o \in Owners,
             StartTask(t, o) \/ GetTask(o, t) \/ CancelTask(o, t) \/ UpdateTask(o, t)
      PROVE  Inv'
  BY <1>3, StartInv, AskedInv
<1>4. CASE Environment
  BY <1>4, ProcessInv, GoneInv DEF Environment
<1>5. CASE UNCHANGED vars
  BY <1>5 DEF vars, Inv, TypeOK, RecordsAreBorn, ToldIsTrue, StreamFollows, LinesAreThere
<1>. QED BY <1>1, <1>2, <1>3, <1>4, <1>5 DEF Next, Serving

LEMMA InvAlways == Spec => []Inv
  BY InitInv, StepInv, PTL DEF Spec

(***************************************************************************)
(* A task exists for its owner alone (tasks.ts:126,136,152).               *)
(***************************************************************************)
THEOREM OwnersAlone == Spec => []OwnersOnly
<1>1. Inv => OwnersOnly
  BY DEF Inv, ToldIsTrue, OwnersOnly
<1>. QED BY InvAlways, <1>1, PTL

(***************************************************************************)
(* What was answered has its line in the audit, or on its way there, as    *)
(* long as nothing was killed and no grace ran out (tools.ts:938-945,      *)
(* audit.ts:35-48).                                                        *)
(***************************************************************************)
THEOREM Audited == Spec => [](TypeOK /\ AnsweredIsAudited)
<1>1. Inv => TypeOK /\ AnsweredIsAudited
  BY DEF Inv, LinesAreThere, AnsweredIsAudited
<1>. QED BY InvAlways, <1>1, PTL
-----------------------------------------------------------------------------
(***************************************************************************)
(* What a step does to the store, all actions together: nothing, a fresh   *)
(* record, an outcome, a sweep, or the end of the process.                 *)
(***************************************************************************)
StoreStep ==
  \/ UNCHANGED <<tasks, born>>
  \/ \E t \in Tasks, o \in Owners :
       born[t] = None /\ tasks' = Created(t, o) /\ born' = [born EXCEPT ![t] = o]
  \/ \E t \in Tasks, outcome \in Outcomes : tasks' = Settled(t, outcome) /\ born' = born
  \/ tasks' = Swept /\ born' = born
  \/ proc' = "down" /\ tasks' = [t \in Tasks |-> None] /\ born' = born

LEMMA NextStoreStep == Inv /\ [Next]_vars => StoreStep
<1> SUFFICES ASSUME Inv, [Next]_vars PROVE StoreStep
  OBVIOUS
<1>1. ASSUME NEW c \in Calls, Call(c) \/ AnswerCall(c) PROVE StoreStep
  BY <1>1 DEF Call, AnswerCall, taskVars, StoreStep
<1>2. ASSUME NEW t \in Tasks, FinishWork(t) PROVE StoreStep
  BY <1>2 DEF FinishWork, StoreStep, Outcomes
<1>3. ASSUME NEW t \in Tasks, NEW o \in Owners, StartTask(t, o) PROVE StoreStep
  BY <1>3 DEF StartTask, StoreStep
<1>4. ASSUME NEW t \in Tasks, NEW o \in Owners, GetTask(o, t) PROVE StoreStep
  BY <1>4 DEF GetTask, StoreStep
<1>5. ASSUME NEW t \in Tasks, NEW o \in Owners, CancelTask(o, t) PROVE StoreStep
  <2>1. tasks' \in {tasks, Settled(t, "cancelled")} /\ born' = born
    BY <1>5, AskedStore DEF CancelTask, Inv
  <2>. QED BY <2>1 DEF StoreStep, Outcomes
<1>6. ASSUME NEW t \in Tasks, NEW o \in Owners, UpdateTask(o, t) PROVE StoreStep
  BY <1>6, AskedStore DEF UpdateTask, StoreStep, Inv
<1>7. CASE Environment
  BY <1>7 DEF Environment, FlushLines, Tick, Signal, Drained, GraceEnds, Finish, Exit, Killed, Gone, Restart,
     taskVars, StoreStep
<1>8. CASE UNCHANGED vars
  BY <1>8 DEF vars, StoreStep
<1>. QED BY <1>1, <1>2, <1>3, <1>4, <1>5, <1>6, <1>7, <1>8 DEF Next, Serving

(***************************************************************************)
(* What an owner was told does not exist stays so: no later question finds *)
(* it, though only some of them sweep (tasks.ts:123-157).                  *)
(***************************************************************************)
THEOREM GoneForGood == Spec => UnknownIsFinal
<1>1. ASSUME Inv, [Next]_vars, NEW t \in Tasks, "gone" \in told[t]
      PROVE  tasks'[t] = None /\ told'[t] = told[t]
  <2>1. tasks[t] = None /\ born[t] # None
    BY <1>1 DEF Inv, ToldIsTrue
  <2>2. tasks'[t] = None
    <3>1. ASSUME NEW u \in Tasks, NEW o \in Owners, born[u] = None, tasks' = Created(u, o) PROVE tasks'[t] = None
      BY <1>1, <2>1, <3>1 DEF Created, Inv, TypeOK
    <3>2. ASSUME NEW u \in Tasks, NEW outcome \in Outcomes, tasks' = Settled(u, outcome) PROVE tasks'[t] = None
      BY <1>1, <2>1, <3>2, SettledIs DEF Inv
    <3>3. CASE tasks' = Swept
      BY <2>1, <3>3 DEF Swept
    <3>. QED BY <1>1, <2>1, <3>1, <3>2, <3>3, NextStoreStep DEF StoreStep
  <2>3. ASSUME NEW u \in Tasks, NEW o \in Owners, NEW answer, Tell(u, o, answer), answer # "unknown" => u # t
        PROVE  told'[t] = told[t]
    BY <1>1, <2>3, TellIs DEF Inv
  <2>4. ASSUME NEW u \in Tasks, NEW o \in Owners, GetTask(o, u) \/ CancelTask(o, u) \/ UpdateTask(o, u)
        PROVE  told'[t] = told[t]
    <3>1. Answer(tasks', o, u) # "unknown" => u # t
      BY <2>2 DEF Answer
    <3>. QED BY <2>3, <2>4, <3>1 DEF GetTask, CancelTask, UpdateTask
  <2>5. ASSUME NEW c \in Calls, Call(c) \/ AnswerCall(c) PROVE told'[t] = told[t]
    BY <2>5 DEF Call, AnswerCall, taskVars
  <2>6. ASSUME NEW u \in Tasks, FinishWork(u) PROVE told'[t] = told[t]
    BY <2>6 DEF FinishWork
  <2>7. ASSUME NEW u \in Tasks, NEW o \in Owners, StartTask(u, o) PROVE told'[t] = told[t]
    BY <2>7 DEF StartTask
  <2>8. ASSUME Environment PROVE told'[t] = told[t]
    BY <2>8 DEF Environment, FlushLines, Tick, Signal, Drained, GraceEnds, Finish, Exit, Killed, Gone, Restart, taskVars
  <2>9. ASSUME UNCHANGED vars PROVE told'[t] = told[t]
    BY <2>9 DEF vars
  <2>. QED BY <1>1, <2>2, <2>4, <2>5, <2>6, <2>7, <2>8, <2>9 DEF Next, Serving
<1>2. Inv /\ [Next]_vars =>
        [\A t \in Tasks : "gone" \in told[t] => tasks'[t] = None /\ told'[t] = told[t]]_vars
  BY <1>1
<1>. QED BY InvAlways, <1>2, PTL DEF Spec, UnknownIsFinal
-----------------------------------------------------------------------------
\* What has become of each task: the state of the contract.
Fates == [t \in Tasks |-> Fate(t)]

LEMMA FateIs ==
  ASSUME Inv, NEW t \in Tasks
  PROVE  /\ Fates[t] = Fate(t)
         /\ tasks[t] # None => Fates[t] = tasks[t].status /\ Fates[t] \in Outcomes \cup {"working"}
         /\ tasks[t] = None /\ born[t] # None => Fates[t] = "gone"
         /\ born[t] = None => Fates[t] = "unborn" /\ tasks[t] = None
<1>1. tasks[t] # None => tasks[t].status \in Outcomes \cup {"working"}
  BY DEF Inv, TypeOK, RecordsAreBorn, Record, Statuses
<1>. QED BY <1>1 DEF Fates, Fate, Inv, RecordsAreBorn

\* Records that go, several at once or none.
LEMMA ForgetStep ==
  ASSUME Inv, Inv', \A t \in Tasks : tasks'[t] \in {tasks[t], None}, born' = born
  PROVE  [Contract!Next]_Fates
<1> DEFINE S == {t \in Tasks : tasks[t] # None /\ tasks'[t] = None}
<1>1. Fates' = [t \in Tasks |-> IF t \in S THEN "gone" ELSE Fates[t]]
  <2>1. ASSUME NEW t \in Tasks PROVE Fate(t)' = IF t \in S THEN "gone" ELSE Fates[t]
    BY <2>1, FateIs DEF Fate, Inv, RecordsAreBorn
  <2>. QED BY <2>1 DEF Fates
<1>2. CASE S = {}
  <2>1. Fates' = Fates
    BY <1>1, <1>2 DEF Fates
  <2>. QED BY <2>1
<1>3. CASE S # {}
  <2>1. S \in SUBSET Tasks /\ \A t \in S : Fates[t] \in Outcomes \cup {"working"}
    BY FateIs
  <2>2. Contract!Forget(S)
    BY <1>1, <1>3, <2>1 DEF Contract!Forget, Fates
  <2>. QED BY <2>1, <2>2 DEF Contract!Next
<1>. QED BY <1>2, <1>3

\* A fresh handle.
LEMMA StartStep ==
  ASSUME Inv, Inv', NEW t \in Tasks, NEW o \in Owners, born[t] = None,
         tasks' = Created(t, o), born' = [born EXCEPT ![t] = o]
  PROVE  [Contract!Next]_Fates
<1>1. tasks'[t].status = "working" /\ tasks'[t] # None /\ born'[t] # None
  <2>1. tasks'[t] = [owner |-> o, status |-> "working", expiresAt |-> IF TTL = None THEN None ELSE now + TTL]
    BY DEF Created, Inv, TypeOK
  <2>2. tasks'[t] \in Record
    BY <2>1, TTLAssumption DEF Record, Statuses, Inv, TypeOK
  <2>. QED BY <2>1, <2>2, NoneIsNobody DEF Inv, TypeOK
<1>2. \A u \in Tasks : u # t => tasks'[u] = tasks[u] /\ born'[u] = born[u]
  BY DEF Created, Inv, TypeOK
<1>3. Fates' = [Fates EXCEPT ![t] = "working"]
  BY <1>1, <1>2 DEF Fates, Fate
<1>4. Fates[t] = "unborn"
  BY FateIs
<1>. QED BY <1>3, <1>4 DEF Contract!Next, Contract!Start, Fates

\* An outcome: the first one, or nothing.
LEMMA SettleStep ==
  ASSUME Inv, Inv', NEW t \in Tasks, NEW outcome \in Outcomes, tasks' = Settled(t, outcome), born' = born
  PROVE  [Contract!Next]_Fates
<1>1. CASE tasks[t] = None \/ tasks[t].status \in Outcomes
  <2>1. Fates' = Fates
    BY <1>1 DEF Settled, Fates, Fate
  <2>. QED BY <2>1
<1>2. CASE tasks[t] # None /\ tasks[t].status \notin Outcomes
  <2>1. Fates[t] = "working"
    BY <1>2, FateIs
  <2>2. tasks'[t].status = outcome /\ tasks'[t] # None
    BY <1>2, SettledIs DEF Settled, Inv, TypeOK
  <2>3. \A u \in Tasks : u # t => tasks'[u] = tasks[u]
    BY SettledIs DEF Inv
  <2>4. born[t] # None
    BY <1>2 DEF Inv, RecordsAreBorn
  <2>5. Fates' = [Fates EXCEPT ![t] = outcome]
    BY <2>2, <2>3, <2>4 DEF Fates, Fate
  <2>. QED BY <2>1, <2>5 DEF Contract!Next, Contract!Settle, Fates
<1>. QED BY <1>1, <1>2

(***************************************************************************)
(* The safety of the contract of tasks: every step of the server is one of *)
(* its steps or none, whatever races with what (tasks.ts:85-175,           *)
(* modern.ts:166-229).  That no task works for ever is left to the runs.   *)
(***************************************************************************)
THEOREM Implements == Spec => Contract!Safe
<1>1. Init => Contract!Init
  BY DEF Init, Contract!Init, Fate
<1>2. Inv /\ Inv' /\ [Next]_vars => [Contract!Next]_Fates
  <2> SUFFICES ASSUME Inv, Inv', [Next]_vars PROVE [Contract!Next]_Fates
    OBVIOUS
  <2>1. CASE UNCHANGED <<tasks, born>>
    BY <2>1, ForgetStep
  <2>2. CASE \E t \in Tasks, o \in Owners :
               born[t] = None /\ tasks' = Created(t, o) /\ born' = [born EXCEPT ![t] = o]
    BY <2>2, StartStep
  <2>3. CASE \E t \in Tasks, outcome \in Outcomes : tasks' = Settled(t, outcome) /\ born' = born
    BY <2>3, SettleStep
  <2>4. CASE tasks' = Swept /\ born' = born
    BY <2>4, ForgetStep DEF Swept
  <2>5. CASE proc' = "down" /\ tasks' = [t \in Tasks |-> None] /\ born' = born
    BY <2>5, ForgetStep
  <2>. QED BY <2>1, <2>2, <2>3, <2>4, <2>5, NextStoreStep DEF StoreStep
<1>. QED BY InvAlways, <1>1, <1>2, PTL DEF Spec, Contract!Safe, Fates
=============================================================================
