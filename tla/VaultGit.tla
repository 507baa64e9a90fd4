------------------------------ MODULE VaultGit ------------------------------
(***************************************************************************)
(* `VaultGit` (packages/server/src/git.ts) with `--git-push`, the writes   *)
(* of packages/server/src/tools.ts that end in a commit, and the close     *)
(* that ends it all (context.ts).                                          *)
(*                                                                         *)
(* Every git command is a step of its own: it is another process, and      *)
(* while it runs calls go on writing files, the debounce of the push runs  *)
(* out, and somebody else pushes to the remote.  Each may fail.            *)
(*                                                                         *)
(* A write is two steps, between which the file is empty, for git too.     *)
(* `texts` lists what the files have held, in order: an entry each time a  *)
(* file is truncated and each time one is written.  The tree, the index    *)
(* and the commits hold entries of it, 0 for what the repository was       *)
(* created with; git compares their bytes.                                 *)
(***************************************************************************)
EXTENDS Naturals, FiniteSets, SequencesExt

CONSTANTS
  Files,      \* the notes written
  MaxCalls    \* bound: calls ever made

ASSUME MaxCallsAssumption == MaxCalls \in Nat

VARIABLES
  texts,     \* what the files have held: the file and its bytes, oldest first
  tree,      \* the files in the vault
  index,     \* what git has staged
  commits,   \* the commits made, oldest first
  calls,     \* the calls made so far, in the order they opened their file
  queue,     \* `queue`: the commits and pushes not done yet, the first one running
  stage,     \* the git command the first job comes to next; "start" is its first
  timer,     \* `pushTimer` is set
  lastPush,  \* `lastPush`
  branch,    \* the remote has our branch
  pushed,    \* how many of the commits the remote has
  moved,     \* the remote has commits this vault does not
  fetched,   \* FETCH_HEAD is one of those
  phase,     \* of the process
  awaited,   \* jobs `flush` still waits for
  owed       \* as the flush began: calls queued, commits about to be pushed

gitVars == <<index, commits>>
remoteVars == <<branch, pushed, moved, fetched>>
closeVars == <<phase, owed>>
fileVars == <<texts, tree>>
vars == <<fileVars, gitVars, calls, queue, stage, timer, lastPush, remoteVars, awaited, closeVars>>

Seed == [f \in Files |-> 0]

\* Bytes: of an empty file, of the seed, of a call's own text, and of that text
\* over the rest of a longer one.
EmptyFile == 0
Own(n) == n + 1
Over(n) == MaxCalls + n + 1

Bytes(t) == IF t = 0 THEN 1 ELSE texts[t].bytes

\* The entries that are of a file.
Held(f) == {t \in DOMAIN texts : texts[t].file = f} \cup {0}

HEAD == IF commits = <<>> THEN Seed ELSE Last(commits).tree

Outcomes == {"committed", "skipped", "failed"}
PushJob == [kind |-> "push"]

IsPush(job) == job.kind = "push"

Init ==
  /\ texts = <<>>
  /\ tree = Seed /\ index = Seed
  /\ commits = <<>> /\ calls = <<>>
  /\ queue = <<>> /\ stage = "start"
  /\ timer = FALSE
  /\ lastPush = "none"
  /\ branch \in BOOLEAN
  /\ pushed = 0 /\ moved = FALSE /\ fetched = FALSE
  /\ phase = "open"
  /\ awaited = 0
  /\ owed = [calls |-> {}, commits |-> 0]

Up == phase # "exited"
-----------------------------------------------------------------------------
\* The file now holds b.
Becomes(f, b) ==
  /\ texts' = Append(texts, [file |-> f, bytes |-> b])
  /\ tree' = [tree EXCEPT ![f] = Len(texts) + 1]

(***************************************************************************)
(* `writeFile` opens the note for a call, which truncates it.  The text to *)
(* be written is the call's own, or byte for byte one the file has held.   *)
(***************************************************************************)
Open(f) ==
  /\ Up
  /\ Len(calls) < MaxCalls
  /\ Becomes(f, EmptyFile)
  /\ \E c \in ({Bytes(t) : t \in Held(f)} \ {EmptyFile}) \cup {Own(Len(calls) + 1)} :
       calls' = Append(calls, [file |-> f, content |-> c, at |-> "opened", turn |-> Len(texts) + 1])
  /\ UNCHANGED <<gitVars, queue, stage, timer, lastPush, remoteVars, awaited, closeVars>>

(***************************************************************************)
(* It writes the text from the start of the file, and does not truncate    *)
(* again: over what another call has written since, its end may remain.    *)
(***************************************************************************)
Write(n) ==
  /\ Up
  /\ calls[n].at = "opened"
  /\ \/ Becomes(calls[n].file, calls[n].content)
     \/ /\ Bytes(tree[calls[n].file]) # EmptyFile
        /\ Becomes(calls[n].file, Over(n))
  /\ calls' = [calls EXCEPT ![n].at = "written", ![n].turn = Len(texts) + 1]
  /\ UNCHANGED <<gitVars, queue, stage, timer, lastPush, remoteVars, awaited, closeVars>>

\* The disk is full: the call fails, and nothing of it is committed.
WriteFails(n) ==
  /\ Up
  /\ calls[n].at = "opened"
  /\ calls' = [calls EXCEPT ![n].at = "unwritten"]
  /\ UNCHANGED <<fileVars, gitVars, queue, stage, timer, lastPush, remoteVars, awaited, closeVars>>

\* The note is applied, and `commit` queues its job behind whatever runs.
Commit(n) ==
  /\ Up
  /\ calls[n].at = "written"
  /\ calls' = [calls EXCEPT ![n].at = "queued"]
  /\ queue' = Append(queue, [kind |-> "commit", call |-> n])
  /\ UNCHANGED <<fileVars, gitVars, stage, timer, lastPush, remoteVars, awaited, closeVars>>
-----------------------------------------------------------------------------
Runs(kind) == Up /\ queue # <<>> /\ queue[1].kind = kind

\* The call whose commit is running.
Current == queue[1].call

\* The job in front settles, and the next one starts.
JobEnds ==
  /\ queue' = Tail(queue)
  /\ stage' = "start"
  /\ awaited' = IF awaited = 0 THEN 0 ELSE awaited - 1

Answer(outcome) ==
  /\ JobEnds
  /\ calls' = [calls EXCEPT ![Current].at = outcome]

\* Mutant of Add: a failed `git add` is ignored.
AddUnchecked ==
  /\ Runs("commit") /\ stage = "start"
  /\ \/ index' = [index EXCEPT ![calls[Current].file] = tree[calls[Current].file]]
     \/ UNCHANGED index
  /\ stage' = "diff"
  /\ UNCHANGED <<fileVars, commits, calls, queue, timer, lastPush, remoteVars, awaited, closeVars>>

\* `git add -- <path>`: this call's file, as it stands now, whoever wrote it last.
Add ==
  /\ Runs("commit") /\ stage = "start"
  /\ index' = [index EXCEPT ![calls[Current].file] = tree[calls[Current].file]]
  /\ stage' = "diff"
  /\ UNCHANGED <<fileVars, commits, calls, queue, timer, lastPush, remoteVars, awaited, closeVars>>

\* Something is staged of the file that the history does not have.
Staged(f) == Bytes(index[f]) # Bytes(HEAD[f])

\* `git diff --cached --quiet -- <path>`
DiffStaged ==
  /\ Runs("commit") /\ stage = "diff"
  /\ IF Staged(calls[Current].file)
     THEN stage' = "commit" /\ UNCHANGED <<queue, calls, awaited>>
     ELSE Answer("skipped")
  /\ UNCHANGED <<fileVars, gitVars, timer, lastPush, remoteVars, closeVars>>

\* `git commit`, of everything staged.
CommitStaged ==
  /\ Runs("commit") /\ stage = "commit"
  /\ commits' = Append(commits, [tree |-> index, call |-> Current])
  /\ stage' = "rev-parse"
  /\ UNCHANGED <<fileVars, index, calls, queue, timer, lastPush, remoteVars, awaited, closeVars>>

\* Mutant of CommitDone: the push is left to the job behind, if there is one.
CommitDoneLeavesPush ==
  /\ Runs("commit") /\ stage = "rev-parse"
  /\ timer' = (timer \/ Len(queue) = 1)
  /\ Answer("committed")
  /\ UNCHANGED <<fileVars, gitVars, lastPush, remoteVars, closeVars>>

\* `git rev-parse`, then `schedulePush`, which starts the debounce again.
CommitDone ==
  /\ Runs("commit") /\ stage = "rev-parse"
  /\ timer' = TRUE
  /\ Answer("committed")
  /\ UNCHANGED <<fileVars, gitVars, lastPush, remoteVars, closeVars>>

\* Whichever command the job has come to fails: the call is told, the rest is skipped.
CommitFails ==
  /\ Runs("commit")
  /\ Answer("failed")
  /\ UNCHANGED <<fileVars, gitVars, timer, lastPush, remoteVars, closeVars>>
-----------------------------------------------------------------------------
\* The debounce runs out: `push` queues its job, which is now `pushPending`.
PushDue ==
  /\ Up /\ timer
  /\ timer' = FALSE
  /\ queue' = Append(queue, PushJob)
  /\ UNCHANGED <<fileVars, gitVars, calls, stage, lastPush, remoteVars, awaited, closeVars>>

\* `git ls-remote`: with no branch there yet, nothing to be behind of.
LsRemote ==
  /\ Runs("push") /\ stage = "start"
  /\ stage' = IF branch THEN "fetch" ELSE "push"
  /\ UNCHANGED <<fileVars, gitVars, calls, queue, timer, lastPush, remoteVars, awaited, closeVars>>

Fetch ==
  /\ Runs("push") /\ stage = "fetch"
  /\ fetched' = moved
  /\ stage' = "merge-base"
  /\ UNCHANGED <<fileVars, gitVars, calls, queue, timer, lastPush, branch, pushed, moved, awaited, closeVars>>

\* Mutant of MergeBase: a remote that moved on is left alone, and not reported.
MergeBaseSilent ==
  /\ Runs("push") /\ stage = "merge-base"
  /\ \/ fetched /\ JobEnds
     \/ ~fetched /\ stage' = "push" /\ UNCHANGED <<queue, awaited>>
  /\ UNCHANGED <<fileVars, gitVars, calls, timer, lastPush, remoteVars, closeVars>>

\* `git merge-base --is-ancestor FETCH_HEAD HEAD`
MergeBase ==
  /\ Runs("push") /\ stage = "merge-base"
  /\ \/ fetched /\ lastPush' = "diverged" /\ JobEnds
     \/ ~fetched /\ stage' = "push" /\ UNCHANGED <<queue, lastPush, awaited>>
  /\ UNCHANGED <<fileVars, gitVars, calls, timer, remoteVars, closeVars>>

\* `git push`, without force: a remote that moved since the fetch refuses it.
Push ==
  /\ Runs("push") /\ stage = "push"
  /\ ~moved
  /\ pushed' = Len(commits)
  /\ branch' = TRUE
  /\ lastPush' = "pushed"
  /\ JobEnds
  /\ UNCHANGED <<fileVars, gitVars, calls, timer, moved, fetched, closeVars>>

\* A refusal, a network down, any command of a push that fails.
PushFails ==
  /\ Runs("push")
  /\ lastPush' = "error"
  /\ JobEnds
  /\ UNCHANGED <<fileVars, gitVars, calls, timer, remoteVars, closeVars>>
-----------------------------------------------------------------------------
\* Somebody else pushes to the branch.
SomeoneElse ==
  /\ Up /\ ~moved
  /\ moved' = TRUE
  /\ branch' = TRUE
  /\ UNCHANGED <<fileVars, gitVars, calls, queue, stage, timer, lastPush, pushed, fetched, awaited, closeVars>>

\* `git pull --rebase`, by hand; git refuses it over changes not committed.
PullByHand ==
  /\ Up /\ moved
  /\ \A f \in Files : ~Staged(f) /\ Bytes(tree[f]) = Bytes(index[f])
  /\ moved' = FALSE /\ fetched' = FALSE
  /\ UNCHANGED <<fileVars, gitVars, calls, queue, stage, timer, lastPush, branch, pushed, awaited, closeVars>>
-----------------------------------------------------------------------------
\* Mutant of Flush: only a push is waited for, not the queue.
FlushPushOnly ==
  /\ phase = "open"
  /\ phase' = "flushing"
  /\ timer' = FALSE
  /\ queue' = IF timer THEN Append(queue, PushJob) ELSE queue
  /\ awaited' = SelectLastInSeq(queue', IsPush)
  /\ owed' = [calls |-> {n \in DOMAIN calls : calls[n].at = "queued"},
              commits |-> IF \E i \in DOMAIN queue' : IsPush(queue'[i]) THEN Len(commits) ELSE 0]
  /\ UNCHANGED <<fileVars, gitVars, calls, stage, lastPush, remoteVars>>

(***************************************************************************)
(* `flush`, on close: a push waiting its debounce is queued at once; then  *)
(* `await this.queue`, as it is at that moment, and `await pushPending`,   *)
(* as it is after that.  Calls still in flight are not waited for, and     *)
(* once both have settled the process exits, a timer armed or not.         *)
(***************************************************************************)
Flush ==
  /\ phase = "open"
  /\ phase' = "flushing"
  /\ timer' = FALSE
  /\ queue' = IF timer THEN Append(queue, PushJob) ELSE queue
  /\ awaited' = Len(queue')
  /\ owed' = [calls |-> {n \in DOMAIN calls : calls[n].at = "queued"},
              commits |-> IF \E i \in DOMAIN queue' : IsPush(queue'[i]) THEN Len(commits) ELSE 0]
  /\ UNCHANGED <<fileVars, gitVars, calls, stage, lastPush, remoteVars>>

QueueAwaited ==
  /\ phase = "flushing" /\ awaited = 0
  /\ phase' = "draining"
  /\ awaited' = SelectLastInSeq(queue, IsPush)
  /\ UNCHANGED <<fileVars, gitVars, calls, queue, stage, timer, lastPush, remoteVars, owed>>

Exit ==
  /\ phase = "draining" /\ awaited = 0
  /\ phase' = "exited"
  /\ UNCHANGED <<fileVars, gitVars, calls, queue, stage, timer, lastPush, remoteVars, awaited, owed>>
-----------------------------------------------------------------------------
Proceed(n) == Write(n) \/ WriteFails(n) \/ Commit(n)

CommitJob == Add \/ DiffStaged \/ CommitStaged \/ CommitDone \/ CommitFails

PushJobRuns == LsRemote \/ Fetch \/ MergeBase \/ Push \/ PushFails

Close == Flush \/ QueueAwaited \/ Exit

Next ==
  \/ \E f \in Files : Open(f)
  \/ \E n \in DOMAIN calls : Proceed(n)
  \/ CommitJob
  \/ PushDue
  \/ PushJobRuns
  \/ SomeoneElse
  \/ PullByHand
  \/ Close

(***************************************************************************)
(* Git commands and writes end and timers run out.  Nobody has to write,   *)
(* push from elsewhere, pull or stop the server; a stop that has begun     *)
(* goes on.                                                                *)
(***************************************************************************)
Fairness ==
  /\ WF_vars(\E n \in DOMAIN calls : Proceed(n))
  /\ WF_vars(CommitJob)
  /\ WF_vars(PushDue)
  /\ WF_vars(PushJobRuns)
  /\ WF_vars(QueueAwaited)
  /\ WF_vars(Exit)

Spec == Init /\ [][Next]_vars /\ Fairness
-----------------------------------------------------------------------------
Told(n) == calls[n].at \in {"committed", "skipped"}

(***************************************************************************)
(* What a call is told is true (tools.ts:862, git.ts:92-112).              *)
(*                                                                         *)
(* "committed", and "skipped" because nothing changed, both mean that the  *)
(* history has of its file what the call left there, or what the file held *)
(* later: another call's text, or nothing, where another call had opened   *)
(* the file as `git add` read it -- whichever commit carried it there.     *)
(*                                                                         *)
(* And once every call on a file has been told so, the history has the     *)
(* file as it stands.                                                      *)
(***************************************************************************)
OutcomesAreTrue ==
  /\ \A n \in DOMAIN calls :
       Told(n) => \E t \in calls[n].turn .. Len(texts) :
                    texts[t].file = calls[n].file /\ texts[t].bytes = Bytes(HEAD[calls[n].file])
  /\ \A f \in Files :
       (\A n \in DOMAIN calls : calls[n].file = f => Told(n)) => Bytes(HEAD[f]) = Bytes(tree[f])

(***************************************************************************)
(* A commit the remote does not have has a push coming, or a failed push   *)
(* was reported, or its own call was told that it failed.                  *)
(***************************************************************************)
PushComing == timer \/ \E i \in DOMAIN queue : IsPush(queue[i])

PushedOrReported ==
  \A i \in pushed + 1 .. Len(commits) :
    \/ PushComing
    \/ lastPush \in {"diverged", "error"}
    \/ calls[commits[i].call].at \in {"queued", "failed"}
    \/ ~Up

(***************************************************************************)
(* A close waits for what was under way when it began: every commit in the *)
(* queue is answered, and commits whose push was queued or waiting its     *)
(* debounce are on the remote, or the push is known to have failed         *)
(* (context.ts:347-348).                                                   *)
(***************************************************************************)
CloseWaits ==
  phase = "exited" =>
    /\ \A n \in owed.calls : calls[n].at \in Outcomes
    /\ pushed >= owed.commits \/ lastPush \in {"diverged", "error"}

(***************************************************************************)
(* Left running, every commit ends up pushed or the failure reported.      *)
(***************************************************************************)
EventuallyPushed ==
  <>[](\/ pushed = Len(commits)
       \/ lastPush \in {"diverged", "error"}
       \/ \E n \in DOMAIN calls : calls[n].at = "failed"
       \/ phase # "open")
=============================================================================
