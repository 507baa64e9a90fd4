--------------------------- MODULE VaultGit_proofs ---------------------------
(***************************************************************************)
(* The queue of commits and pushes, for any files and calls: what *)
(* a call is told is true, no commit is left behind in silence, and a      *)
(* close waits for what was under way.                                     *)
(***************************************************************************)
EXTENDS VaultGit, SequenceTheorems, TLAPS

Call == [file : Files, content : Nat,
         at : {"opened", "unwritten", "written", "queued"} \cup Outcomes, turn : Nat]
CommitJobs == [kind : {"commit"}, call : Nat]
Job == CommitJobs \cup {PushJob}
Commits == [tree : [Files -> Nat], call : Nat]
Entries == [file : Files, bytes : Nat]

Types ==
  /\ texts \in Seq(Entries) /\ tree \in [Files -> Nat] /\ index \in [Files -> Nat]
  /\ commits \in Seq(Commits) /\ calls \in Seq(Call) /\ queue \in Seq(Job)
  /\ pushed \in Nat /\ pushed <= Len(commits)

\* The history is never ahead of the index, nor the index of the files.
Ordered(f) ==
  /\ HEAD[f] <= index[f] /\ index[f] <= tree[f] /\ tree[f] <= Len(texts)
  /\ index[f] \in Held(f) /\ tree[f] \in Held(f)

\* What a file holds was left there by a call, the last to touch it.
Touched(f) == tree[f] = 0 \/ \E n \in DOMAIN calls : calls[n].file = f /\ calls[n].turn = tree[f]

NeverBackwards ==
  /\ \A f \in Files : Ordered(f) /\ Touched(f)
  /\ \A n \in DOMAIN calls : calls[n].turn \in 1 .. tree[calls[n].file]

\* What a call was told is staged, or was; what is staged and not committed
\* belongs to a call that waits or was told that it failed.
Waited(f) == \E n \in DOMAIN calls : calls[n].file = f /\ calls[n].at \in {"queued", "failed"}

Recorded ==
  /\ \A n \in DOMAIN calls : Told(n) => index[calls[n].file] >= calls[n].turn
  /\ \A f \in Files : Staged(f) => Waited(f)

\* The first half of OutcomesAreTrue, for one call.
Carries(n) ==
  \E t \in calls[n].turn .. Len(texts) :
    texts[t].file = calls[n].file /\ texts[t].bytes = Bytes(HEAD[calls[n].file])

Carried == \A n \in DOMAIN calls : Told(n) => Carries(n)

IsCommit(job) == job.kind = "commit"

\* A call waits for its commit exactly as long as there is a job for it, and one is enough.
JobsAreCalls ==
  /\ \A i \in DOMAIN queue :
       IsCommit(queue[i]) => queue[i].call \in DOMAIN calls /\ calls[queue[i].call].at = "queued"
  /\ \A i, j \in DOMAIN queue :
       IsCommit(queue[i]) /\ IsCommit(queue[j]) /\ queue[i].call = queue[j].call => i = j
  /\ \A n \in DOMAIN calls :
       calls[n].at = "queued" => \E i \in DOMAIN queue : IsCommit(queue[i]) /\ queue[i].call = n

\* The command come to is one of the job in front, and what it found is there still.
StageIsSound ==
  /\ queue = <<>> => stage = "start"
  /\ stage \in {"diff", "commit", "rev-parse"} => IsCommit(queue[1])
  /\ stage \in {"fetch", "merge-base", "push"} => IsPush(queue[1])
  /\ stage \in {"diff", "commit", "rev-parse"} => index[calls[Current].file] >= calls[Current].turn
  /\ stage = "rev-parse" => HEAD = index

\* A commit is of a call: of the one told nothing yet, only from its commit to its rev-parse.
CommitsAreCalls ==
  \A i \in DOMAIN commits :
    /\ commits[i].call \in DOMAIN calls
    /\ calls[commits[i].call].at \in {"queued"} \cup Outcomes
    /\ calls[commits[i].call].at = "queued" => stage = "rev-parse" /\ Current = commits[i].call

FailureKnown == lastPush \in {"diverged", "error"}

\* What a close waits for is among the jobs it waits for, or done.
Closing ==
  /\ phase = "flushing" => awaited \in 0 .. Len(queue)
  /\ phase # "open" =>
       /\ owed.commits \in Nat /\ owed.commits <= Len(commits)
       /\ \A n \in owed.calls :
            /\ n \in DOMAIN calls
            /\ \/ calls[n].at \in Outcomes
               \/ phase = "flushing" /\ \E i \in 1 .. awaited : IsCommit(queue[i]) /\ queue[i].call = n
       /\ \/ pushed >= owed.commits \/ FailureKnown
          \/ phase = "flushing" /\ \E i \in 1 .. awaited : IsPush(queue[i])

Inv ==
  /\ Types /\ NeverBackwards /\ JobsAreCalls /\ StageIsSound /\ CommitsAreCalls
  /\ Recorded /\ Carried /\ PushedOrReported /\ Closing
-----------------------------------------------------------------------------
\* What a step does to the calls, the queue and the history, in the terms the invariant is in.
Says(n, x) ==
  /\ calls' \in Seq(Call)
  /\ Len(calls') = Len(calls) /\ DOMAIN calls' = DOMAIN calls
  /\ \A m \in DOMAIN calls :
       /\ calls'[m].file = calls[m].file /\ calls'[m].turn = calls[m].turn
       /\ calls'[m].at = IF m = n THEN x ELSE calls[m].at

Shifted ==
  /\ queue' \in Seq(Job)
  /\ Len(queue') = Len(queue) - 1
  /\ \A i \in DOMAIN queue' : i + 1 \in DOMAIN queue /\ queue'[i] = queue[i + 1]
  /\ \A i \in DOMAIN queue : i # 1 => i - 1 \in DOMAIN queue' /\ queue'[i - 1] = queue[i]

Queued(job) ==
  /\ queue' \in Seq(Job)
  /\ Len(queue') = Len(queue) + 1
  /\ DOMAIN queue' = DOMAIN queue \cup {Len(queue) + 1}
  /\ \A i \in DOMAIN queue : queue'[i] = queue[i]
  /\ queue'[Len(queue) + 1] = job

\* A call told something is the call it was.
LEMMA CallTold ==
  ASSUME Types, NEW n \in DOMAIN calls, NEW x \in {"queued"} \cup Outcomes,
         calls' = [calls EXCEPT ![n].at = x]
  PROVE  Says(n, x)
<1>1. calls \in Seq(Call)
  BY DEF Types
<1>2. calls[n] \in Call
  BY <1>1
<1>3. [calls[n] EXCEPT !.at = x] \in Call
  BY <1>2 DEF Call
<1>4. calls' \in Seq(Call) /\ Len(calls') = Len(calls) /\ DOMAIN calls' = DOMAIN calls
  BY <1>1, <1>3
<1>5. ASSUME NEW m \in DOMAIN calls
      PROVE  /\ calls'[m].file = calls[m].file /\ calls'[m].turn = calls[m].turn
             /\ calls'[m].at = IF m = n THEN x ELSE calls[m].at
  BY <1>1, <1>2 DEF Call
<1> QED
  BY <1>4, <1>5 DEF Says

\* The jobs behind the one that settled move up.
LEMMA JobsMoveUp ==
  ASSUME Types, queue # <<>>, JobEnds
  PROVE  Shifted
<1>1. queue \in Seq(Job) /\ queue' = Tail(queue)
  BY DEF Types, JobEnds
<1> QED
  BY <1>1 DEF Shifted

\* A job queued is the last.
LEMMA JobQueued ==
  ASSUME Types, NEW job \in Job, queue' = Append(queue, job)
  PROVE  Queued(job)
<1>1. queue \in Seq(Job)
  BY DEF Types
<1> QED
  BY <1>1 DEF Queued

\* What is committed is what the last commit holds, and stays until the next.
LEMMA HeadIsTree ==
  ASSUME Types
  PROVE  /\ HEAD \in [Files -> Nat]
         /\ commits' = commits => HEAD' = HEAD
         /\ \A c \in Commits : commits' = Append(commits, c) => HEAD' = c.tree
<1>1. commits \in Seq(Commits)
  BY DEF Types
<1>2. HEAD \in [Files -> Nat]
  <2>1. CASE commits = <<>>
    BY <2>1 DEF HEAD, Seed
  <2>2. CASE commits # <<>>
    <3>1. Last(commits) \in Commits
      BY <1>1, <2>2 DEF Last
    <3> QED
      BY <3>1, <2>2 DEF HEAD, Commits
  <2> QED
    BY <2>1, <2>2
<1>3. commits' = commits => HEAD' = HEAD
  BY DEF HEAD, Seed, Last
<1>4. ASSUME NEW c \in Commits, commits' = Append(commits, c)
      PROVE  HEAD' = c.tree
  <2>1. commits' # <<>> /\ commits'[Len(commits')] = c
    BY <1>1, <1>4
  <2> QED
    BY <2>1 DEF HEAD, Last
<1> QED
  BY <1>2, <1>3, <1>4
-----------------------------------------------------------------------------
\* Steps that leave the files, the index, the history and the calls alone.
LEMMA HistoryStays ==
  ASSUME Inv, UNCHANGED <<texts, tree, index, commits, calls>>
  PROVE  NeverBackwards' /\ Recorded' /\ Carried' /\ HEAD' = HEAD
<1>1. HEAD' = HEAD
  BY HeadIsTree DEF Inv
<1>2. NeverBackwards'
  BY <1>1 DEF Inv, NeverBackwards, Ordered, Touched, Held
<1>3. Recorded'
  BY <1>1 DEF Inv, Recorded, Waited, Staged, Bytes, Told
<1>4. Carried'
  BY <1>1 DEF Inv, Carried, Carries, Bytes, Told
<1> QED
  BY <1>1, <1>2, <1>3, <1>4

\* A file's entry in the index is one it held, no later than the last of all.
LEMMA IndexHeld ==
  ASSUME Inv, NEW f \in Files
  PROVE  /\ index[f] \in Nat /\ tree[f] \in Nat /\ HEAD[f] \in Nat
         /\ HEAD[f] <= index[f] /\ index[f] <= tree[f] /\ tree[f] <= Len(texts)
         /\ index[f] > 0 => index[f] \in DOMAIN texts /\ texts[index[f]].file = f
         /\ tree[f] > 0 => tree[f] \in DOMAIN texts /\ texts[tree[f]].file = f
<1>1. index \in [Files -> Nat] /\ tree \in [Files -> Nat] /\ HEAD \in [Files -> Nat]
  BY HeadIsTree DEF Inv, Types
<1>2. Ordered(f)
  BY DEF Inv, NeverBackwards
<1> QED
  BY <1>1, <1>2 DEF Ordered, Held

LEMMA CallTyped ==
  ASSUME Inv, NEW n \in DOMAIN calls
  PROVE  /\ calls[n].file \in Files /\ calls[n].content \in Nat
         /\ calls[n].turn \in Nat /\ calls[n].turn > 0 /\ calls[n].turn <= tree[calls[n].file]
<1>1. calls[n] \in Call
  BY DEF Inv, Types
<1>2. calls[n].turn \in 1 .. tree[calls[n].file]
  BY DEF Inv, NeverBackwards
<1>3. tree[calls[n].file] \in Nat
  BY <1>1 DEF Inv, Types, Call
<1> QED
  BY <1>1, <1>2, <1>3 DEF Call

\* A call whose text is staged has it, or what came later, once the history has the index.
LEMMA StagedCarries ==
  ASSUME Inv, NEW n \in DOMAIN calls, index[calls[n].file] >= calls[n].turn
  PROVE  \E t \in calls[n].turn .. Len(texts) :
           texts[t].file = calls[n].file /\ texts[t].bytes = Bytes(index[calls[n].file])
<1> DEFINE t == index[calls[n].file]
<1>1. calls[n].file \in Files /\ calls[n].turn \in Nat /\ calls[n].turn > 0
  BY CallTyped
<1>2. /\ t \in Nat /\ t <= Len(texts)
      /\ t > 0 => t \in DOMAIN texts /\ texts[t].file = calls[n].file
  <2>1. tree[calls[n].file] \in Nat /\ Len(texts) \in Nat
    BY <1>1, IndexHeld DEF Inv, Types
  <2> QED
    BY <1>1, <2>1, IndexHeld
<1>3. t > 0 /\ t \in calls[n].turn .. Len(texts)
  <2>1. Len(texts) \in Nat
    BY DEF Inv, Types
  <2> QED
    BY <1>1, <1>2, <2>1
<1>4. texts[t].bytes = Bytes(t)
  BY <1>2, <1>3 DEF Bytes
<1> QED
  BY <1>2, <1>3, <1>4

\* A call told something, where the files, the index and the history stay.
LEMMA SaysKeepsHistory ==
  ASSUME Inv, NEW n \in DOMAIN calls, NEW x \in {"queued"} \cup Outcomes, Says(n, x),
         UNCHANGED <<texts, tree, index, commits>>,
         x \in {"committed", "skipped"} =>
           index[calls[n].file] >= calls[n].turn /\ ~Staged(calls[n].file)
  PROVE  NeverBackwards' /\ Recorded' /\ Carried' /\ HEAD' = HEAD
<1>1. HEAD' = HEAD
  BY HeadIsTree DEF Inv
<1>2. NeverBackwards'
  <2>1. ASSUME NEW f \in Files PROVE Ordered(f)' /\ Touched(f)'
    BY <1>1 DEF Inv, NeverBackwards, Ordered, Touched, Held, Says
  <2>2. ASSUME NEW m \in DOMAIN calls' PROVE calls'[m].turn \in 1 .. tree'[calls'[m].file]
    BY DEF Inv, NeverBackwards, Says
  <2> QED
    BY <2>1, <2>2 DEF NeverBackwards
<1>3. \A f \in Files : Staged(f)' <=> Staged(f)
  BY <1>1 DEF Staged, Bytes
<1>4. Recorded'
  <2>1. ASSUME NEW m \in DOMAIN calls', Told(m)'
        PROVE  index'[calls'[m].file] >= calls'[m].turn
    BY <2>1 DEF Inv, Recorded, Told, Says
  <2>2. ASSUME NEW f \in Files, Staged(f)'
        PROVE  Waited(f)'
    <3>1. PICK m \in DOMAIN calls : calls[m].file = f /\ calls[m].at \in {"queued", "failed"}
      BY <1>3, <2>2 DEF Inv, Recorded, Waited
    <3>2. CASE m = n
      <4>1. x \notin {"committed", "skipped"}
        BY <1>3, <2>2, <3>1, <3>2
      <4>2. x \in {"queued", "failed"}
        BY <4>1 DEF Outcomes
      <4> QED
        BY <3>1, <3>2, <4>2 DEF Waited, Says
    <3>3. CASE m # n
      BY <3>1, <3>3 DEF Waited, Says
    <3> QED
      BY <3>2, <3>3
  <2> QED
    BY <2>1, <2>2 DEF Recorded
<1>5. Carried'
  <2> SUFFICES ASSUME NEW m \in DOMAIN calls', Told(m)'
               PROVE  Carries(m)'
    BY DEF Carried
  <2>0. /\ m \in DOMAIN calls /\ calls'[m].file = calls[m].file /\ calls'[m].turn = calls[m].turn
        /\ Bytes(HEAD[calls[m].file])' = Bytes(HEAD[calls[m].file])
    BY <1>1 DEF Says, Bytes
  <2>1. CASE m = n
    <3>1. x \in {"committed", "skipped"}
      BY <2>0, <2>1 DEF Says, Told
    <3>2. Bytes(index[calls[n].file]) = Bytes(HEAD[calls[n].file])
      BY <3>1 DEF Staged
    <3> QED
      BY <2>0, <2>1, <3>1, <3>2, StagedCarries DEF Carries
  <2>2. CASE m # n
    <3>1. Told(m)
      BY <2>0, <2>2 DEF Says, Told
    <3>2. Carries(m)
      BY <2>0, <3>1 DEF Inv, Carried
    <3> QED
      BY <2>0, <3>2 DEF Carries
  <2> QED
    BY <2>1, <2>2
<1> QED
  BY <1>1, <1>2, <1>4, <1>5

\* Once every call on a file was told that it is in the history, it is.
LEMMA AllAreTrue ==
  ASSUME Inv
  PROVE  OutcomesAreTrue
<1>1. \A n \in DOMAIN calls : Told(n) => Carries(n)
  BY DEF Inv, Carried
<1>2. ASSUME NEW f \in Files, \A n \in DOMAIN calls : calls[n].file = f => Told(n)
      PROVE  Bytes(HEAD[f]) = Bytes(tree[f])
  <2>1. ~Staged(f)
    BY <1>2 DEF Inv, Recorded, Waited, Told
  <2>2. index[f] = tree[f]
    <3>1. index[f] \in Nat /\ tree[f] \in Nat /\ index[f] <= tree[f]
      BY IndexHeld
    <3>2. CASE tree[f] = 0
      BY <3>1, <3>2
    <3>3. CASE \E n \in DOMAIN calls : calls[n].file = f /\ calls[n].turn = tree[f]
      <4>1. PICK n \in DOMAIN calls : calls[n].file = f /\ calls[n].turn = tree[f]
        BY <3>3
      <4>2. index[f] >= tree[f]
        BY <1>2, <4>1 DEF Inv, Recorded
      <4> QED
        BY <3>1, <4>2
    <3> QED
      BY <3>2, <3>3 DEF Inv, NeverBackwards, Touched
  <2> QED
    BY <2>1, <2>2 DEF Staged
<1> QED
  BY <1>1, <1>2 DEF OutcomesAreTrue, Carries
-----------------------------------------------------------------------------
LEMMA InvInit == Init => Inv
<1> SUFFICES ASSUME Init
             PROVE  Inv
  OBVIOUS
<1> USE DEF Init
<1>1. Types
  BY DEF Types, Seed
<1>2. HEAD = Seed
  BY DEF HEAD
<1>3. NeverBackwards
  BY <1>2 DEF NeverBackwards, Ordered, Touched, Held, Seed
<1>4. JobsAreCalls /\ StageIsSound /\ CommitsAreCalls
  BY DEF JobsAreCalls, StageIsSound, CommitsAreCalls
<1>5. Recorded /\ Carried
  BY <1>2 DEF Recorded, Staged, Carried
<1>6. PushedOrReported /\ Closing
  BY DEF PushedOrReported, Closing
<1> QED
  BY <1>1, <1>3, <1>4, <1>5, <1>6 DEF Inv

\* A call that writes: new, or one that had its file open, and waits for nothing.
Writes(n) ==
  /\ calls' \in Seq(Call)
  /\ DOMAIN calls' = DOMAIN calls \cup {n}
  /\ \A m \in DOMAIN calls : m # n => calls'[m] = calls[m]
  /\ calls'[n].at \in {"opened", "unwritten", "written"}
  /\ n \in DOMAIN calls => calls[n].at = "opened" /\ calls'[n].file = calls[n].file

\* Its file has one entry more, which is the call's.
Enters(n) ==
  /\ \E b \in Nat : Becomes(calls'[n].file, b)
  /\ calls'[n].turn = Len(texts) + 1

Stays(n) ==
  /\ UNCHANGED <<texts, tree>>
  /\ n \in DOMAIN calls /\ calls'[n].turn = calls[n].turn

\* The entries there were are there still.
Grown ==
  /\ texts' \in Seq(Entries)
  /\ Len(texts) \in Nat /\ Len(texts') \in Nat /\ Len(texts) <= Len(texts')
  /\ \A t \in DOMAIN texts : texts'[t] = texts[t]

LEMMA EntersGrows ==
  ASSUME Inv, NEW n, Enters(n), calls'[n].file \in Files
  PROVE  /\ Grown
         /\ Len(texts') = Len(texts) + 1
         /\ texts'[Len(texts) + 1].file = calls'[n].file
         /\ tree' = [tree EXCEPT ![calls'[n].file] = Len(texts) + 1]
<1>1. PICK b \in Nat : Becomes(calls'[n].file, b)
  BY DEF Enters
<1> DEFINE e == [file |-> calls'[n].file, bytes |-> b]
<1>2. e \in Entries /\ e.file = calls'[n].file
  BY DEF Entries
<1>3. texts \in Seq(Entries) /\ texts' = Append(texts, e)
  BY <1>1 DEF Becomes, Inv, Types
<1> HIDE DEF e
<1>4. /\ texts' \in Seq(Entries) /\ Len(texts') = Len(texts) + 1 /\ Len(texts) \in Nat
      /\ \A t \in DOMAIN texts : texts'[t] = texts[t]
      /\ texts'[Len(texts) + 1] = e
  BY <1>2, <1>3
<1> QED
  BY <1>1, <1>2, <1>4 DEF Grown, Becomes

\* What the history has of the files is not touched by a write.
LEMMA GrownKeeps ==
  ASSUME Inv, Grown, UNCHANGED <<index, commits>>
  PROVE  /\ HEAD' = HEAD
         /\ \A f \in Files : /\ Bytes(HEAD[f])' = Bytes(HEAD[f])
                             /\ Staged(f)' <=> Staged(f)
                             /\ index[f] \in Held(f)'
<1>1. HEAD' = HEAD
  BY HeadIsTree DEF Inv
<1>2. ASSUME NEW f \in Files
      PROVE  /\ Bytes(HEAD[f])' = Bytes(HEAD[f])
             /\ Staged(f)' <=> Staged(f)
             /\ index[f] \in Held(f)'
  <2>1. /\ index[f] \in Nat /\ tree[f] \in Nat /\ HEAD[f] \in Nat
        /\ HEAD[f] <= index[f] /\ index[f] <= tree[f] /\ tree[f] <= Len(texts)
    BY IndexHeld
  <2>2. Len(texts) \in Nat /\ DOMAIN texts = 1 .. Len(texts) /\ DOMAIN texts' = 1 .. Len(texts')
    BY DEF Inv, Types, Grown
  <2>3. \A t \in 0 .. Len(texts) : Bytes(t)' = Bytes(t)
    BY <2>2 DEF Bytes, Grown
  <2>4. HEAD[f] \in 0 .. Len(texts) /\ index[f] \in 0 .. Len(texts)
    BY <2>1, <2>2
  <2>5. Bytes(HEAD[f])' = Bytes(HEAD[f]) /\ Bytes(index[f])' = Bytes(index[f])
    BY <1>1, <2>3, <2>4 DEF Bytes
  <2>6. index[f] \in Held(f)'
    <3>1. index[f] = 0 \/ (index[f] \in DOMAIN texts /\ texts[index[f]].file = f)
      BY <2>1, IndexHeld
    <3> QED
      BY <2>2, <2>4, <3>1 DEF Held, Grown
  <2> QED
    BY <2>5, <2>6 DEF Staged
<1> QED
  BY <1>1, <1>2

LEMMA WriterKeeps ==
  ASSUME Inv, NEW n \in Nat, Writes(n), Enters(n) \/ Stays(n),
         UNCHANGED <<index, commits, queue, stage, timer, lastPush, pushed, awaited, phase, owed>>
  PROVE  Inv'
<1> USE DEF Inv
<1> DEFINE f == calls'[n].file
<1>1. n \in DOMAIN calls' /\ calls'[n] \in Call /\ f \in Files
  <2>1. n \in DOMAIN calls' /\ calls' \in Seq(Call)
    BY DEF Writes
  <2>2. calls'[n] \in Call
    BY <2>1
  <2> QED
    BY <2>1, <2>2 DEF Call
<1>2. Grown
  <2>1. CASE Enters(n)
    BY <1>1, <2>1, EntersGrows
  <2>2. CASE Stays(n)
    BY <2>2 DEF Stays, Grown, Types
  <2> QED
    BY <2>1, <2>2
<1>3. /\ HEAD' = HEAD
      /\ \A g \in Files : /\ Bytes(HEAD[g])' = Bytes(HEAD[g])
                          /\ Staged(g)' <=> Staged(g)
                          /\ index[g] \in Held(g)'
  BY <1>2, GrownKeeps
<1>4. \A m \in DOMAIN calls : calls[m].at # "opened" => m \in DOMAIN calls' /\ calls'[m] = calls[m]
  BY DEF Writes
<1>5. \A m \in DOMAIN calls' : calls'[m].at \notin {"opened", "unwritten", "written"} =>
        m \in DOMAIN calls /\ calls'[m] = calls[m]
  BY DEF Writes
<1>6. /\ tree' \in [Files -> Nat]
      /\ \A g \in Files : tree[g] <= tree'[g] /\ tree'[g] <= Len(texts')
      /\ \A g \in Files : g # f => tree'[g] = tree[g]
      /\ \A g \in Files : tree'[g] \in Held(g)'
  <2>1. CASE Enters(n)
    <3>1. /\ Len(texts') = Len(texts) + 1 /\ texts'[Len(texts) + 1].file = f
          /\ tree' = [tree EXCEPT ![f] = Len(texts) + 1]
      BY <1>1, <2>1, EntersGrows
    <3>2. Len(texts) \in Nat /\ DOMAIN texts' = 1 .. Len(texts') /\ DOMAIN texts = 1 .. Len(texts)
      BY <1>2 DEF Grown, Types
    <3>3. ASSUME NEW g \in Files
          PROVE  tree[g] <= tree'[g] /\ tree'[g] <= Len(texts') /\ (g # f => tree'[g] = tree[g])
      BY <1>1, <3>1, <3>2, IndexHeld DEF Types
    <3>4. ASSUME NEW g \in Files
          PROVE  tree'[g] \in Held(g)'
      <4>1. CASE g = f
        BY <1>1, <3>1, <3>2, <4>1 DEF Held, Types
      <4>2. CASE g # f
        <5>1. tree'[g] = tree[g] /\ tree[g] \in Nat
          BY <3>3, <4>2, IndexHeld
        <5>2. tree[g] = 0 \/ (tree[g] \in DOMAIN texts /\ texts[tree[g]].file = g)
          BY <5>1, IndexHeld
        <5> QED
          BY <1>2, <3>1, <3>2, <5>1, <5>2 DEF Held, Grown
      <4> QED
        BY <4>1, <4>2
    <3>5. tree' \in [Files -> Nat]
      <4>1. tree \in [Files -> Nat] /\ Len(texts) + 1 \in Nat
        BY <3>2 DEF Types
      <4> QED
        BY <4>1, <3>1
    <3> QED
      BY <3>3, <3>4, <3>5
  <2>2. CASE Stays(n)
    BY <2>2, IndexHeld DEF Stays, Types, NeverBackwards, Ordered, Held
  <2> QED
    BY <2>1, <2>2
<1> HIDE DEF f
<1>7. Types'
  BY <1>2, <1>6 DEF Types, Writes, Grown
<1>8. NeverBackwards'
  <2>1. ASSUME NEW g \in Files PROVE Ordered(g)'
    <3>1. index[g] \in Nat /\ tree[g] \in Nat /\ HEAD[g] <= index[g] /\ index[g] <= tree[g] /\ tree'[g] \in Nat
      BY <1>6, IndexHeld
    <3> QED
      BY <1>3, <1>6, <3>1 DEF Ordered
  <2>2. ASSUME NEW g \in Files PROVE Touched(g)'
    <3>1. CASE Enters(n) /\ g = f
      <4>1. tree'[g] = Len(texts) + 1
        BY <1>1, <3>1, EntersGrows DEF f, Types
      <4> QED
        BY <1>1, <3>1, <4>1 DEF Touched, Enters, f
    <3>2. CASE Enters(n) /\ g # f
      <4>1. tree'[g] = tree[g]
        BY <1>6, <3>2
      <4>2. CASE tree[g] = 0
        BY <4>1, <4>2 DEF Touched
      <4>3. CASE \E m \in DOMAIN calls : calls[m].file = g /\ calls[m].turn = tree[g]
        <5>1. PICK m \in DOMAIN calls : calls[m].file = g /\ calls[m].turn = tree[g]
          BY <4>3
        <5>2. m # n
          BY <3>2, <5>1 DEF Writes, f
        <5> QED
          BY <4>1, <5>1, <5>2 DEF Touched, Writes
      <4> QED
        BY <4>2, <4>3 DEF NeverBackwards, Touched
    <3>3. CASE Stays(n)
      <4>1. /\ tree'[g] = tree[g]
            /\ \A m \in DOMAIN calls : /\ m \in DOMAIN calls' /\ calls'[m].file = calls[m].file
                                       /\ calls'[m].turn = calls[m].turn
        BY <3>3 DEF Stays, Writes
      <4> QED
        BY <4>1 DEF NeverBackwards, Touched
    <3> QED
      BY <3>1, <3>2, <3>3
  <2>3. ASSUME NEW m \in DOMAIN calls'
        PROVE  calls'[m].turn \in 1 .. tree'[calls'[m].file]
    <3>1. CASE m # n
      <4>1. m \in DOMAIN calls /\ calls'[m] = calls[m]
        BY <3>1 DEF Writes
      <4>2. calls[m].file \in Files /\ calls[m].turn \in Nat /\ calls[m].turn > 0
            /\ calls[m].turn <= tree[calls[m].file]
        BY <4>1, CallTyped
      <4>3. tree[calls[m].file] <= tree'[calls[m].file] /\ tree[calls[m].file] \in Nat
            /\ tree'[calls[m].file] \in Nat
        BY <1>6, <4>2, IndexHeld
      <4> QED
        BY <4>1, <4>2, <4>3
    <3>2. CASE m = n /\ Enters(n)
      <4>1. tree'[f] = Len(texts) + 1 /\ Len(texts) \in Nat
        BY <1>1, <1>2, <3>2, EntersGrows DEF f, Types, Grown
      <4> QED
        BY <3>2, <4>1 DEF Enters, f
    <3>3. CASE m = n /\ Stays(n)
      BY <3>3 DEF NeverBackwards, Stays, Writes
    <3> QED
      BY <3>1, <3>2, <3>3
  <2> QED
    BY <2>1, <2>2, <2>3 DEF NeverBackwards
<1>9. JobsAreCalls'
  <2>1. ASSUME NEW i \in DOMAIN queue, IsCommit(queue[i])
        PROVE  queue[i].call \in DOMAIN calls' /\ calls'[queue[i].call].at = "queued"
    BY <1>4, <2>1 DEF JobsAreCalls
  <2>2. ASSUME NEW m \in DOMAIN calls', calls'[m].at = "queued"
        PROVE  \E i \in DOMAIN queue : IsCommit(queue[i]) /\ queue[i].call = m
    BY <1>5, <2>2 DEF JobsAreCalls
  <2> QED
    BY <2>1, <2>2 DEF JobsAreCalls
<1>10. StageIsSound'
  <2>1. queue # <<>> /\ IsCommit(queue[1]) => Current \in DOMAIN calls /\ calls'[Current] = calls[Current]
    BY <1>4 DEF JobsAreCalls, Current, Types
  <2>2. stage \in {"diff", "commit", "rev-parse"} => queue # <<>> /\ IsCommit(queue[1])
    BY DEF StageIsSound
  <2> QED
    BY <1>3, <2>1, <2>2 DEF StageIsSound, Current
<1>11. CommitsAreCalls'
  <2> SUFFICES ASSUME NEW i \in DOMAIN commits
               PROVE  /\ commits[i].call \in DOMAIN calls'
                      /\ calls'[commits[i].call].at \in {"queued"} \cup Outcomes
                      /\ calls'[commits[i].call].at = "queued" =>
                           stage = "rev-parse" /\ Current = commits[i].call
    BY DEF CommitsAreCalls, Current
  <2>1. /\ commits[i].call \in DOMAIN calls
        /\ calls[commits[i].call].at \in {"queued"} \cup Outcomes
        /\ calls[commits[i].call].at = "queued" => stage = "rev-parse" /\ Current = commits[i].call
    BY DEF CommitsAreCalls
  <2>2. calls[commits[i].call].at # "opened"
    BY <2>1 DEF Outcomes
  <2> QED
    BY <1>4, <2>1, <2>2
<1>12. Recorded'
  <2>1. ASSUME NEW m \in DOMAIN calls', Told(m)'
        PROVE  index'[calls'[m].file] >= calls'[m].turn
    <3>1. m \in DOMAIN calls /\ calls'[m] = calls[m]
      BY <1>5, <2>1 DEF Told
    <3> QED
      BY <2>1, <3>1 DEF Recorded, Told
  <2>2. ASSUME NEW g \in Files, Staged(g)'
        PROVE  Waited(g)'
    <3>1. PICK m \in DOMAIN calls : calls[m].file = g /\ calls[m].at \in {"queued", "failed"}
      BY <1>3, <2>2 DEF Recorded, Waited
    <3>2. m \in DOMAIN calls' /\ calls'[m] = calls[m]
      BY <1>4, <3>1
    <3> QED
      BY <3>1, <3>2 DEF Waited
  <2> QED
    BY <2>1, <2>2 DEF Recorded
<1>13. Carried'
  <2> SUFFICES ASSUME NEW m \in DOMAIN calls', Told(m)'
               PROVE  Carries(m)'
    BY DEF Carried
  <2>1. m \in DOMAIN calls /\ calls'[m] = calls[m]
    BY <1>5 DEF Told
  <2>2. Carries(m)
    BY <2>1 DEF Carried, Told
  <2>3. PICK t \in calls[m].turn .. Len(texts) :
          texts[t].file = calls[m].file /\ texts[t].bytes = Bytes(HEAD[calls[m].file])
    BY <2>2 DEF Carries
  <2>4. calls[m].turn \in Nat /\ calls[m].turn > 0 /\ calls[m].file \in Files
    BY <2>1, CallTyped
  <2>5. t \in DOMAIN texts /\ t \in calls[m].turn .. Len(texts')
    BY <1>2, <2>3, <2>4 DEF Grown, Types
  <2> QED
    BY <1>2, <1>3, <2>1, <2>3, <2>4, <2>5 DEF Carries, Grown
<1>14. PushedOrReported'
  <2> SUFFICES ASSUME NEW i \in pushed + 1 .. Len(commits)
               PROVE  \/ PushComing \/ lastPush \in {"diverged", "error"}
                      \/ calls'[commits[i].call].at \in {"queued", "failed"} \/ ~Up
    BY DEF PushedOrReported, PushComing, Up
  <2>1. /\ commits[i].call \in DOMAIN calls
        /\ calls[commits[i].call].at \in {"queued"} \cup Outcomes
    BY DEF CommitsAreCalls, Types
  <2>2. calls[commits[i].call].at # "opened"
    BY <2>1 DEF Outcomes
  <2> QED
    BY <1>4, <2>1, <2>2 DEF PushedOrReported
<1>15. Closing'
  <2>1. ASSUME phase # "open", NEW m \in owed.calls
        PROVE  /\ m \in DOMAIN calls'
               /\ \/ calls'[m].at \in Outcomes
                  \/ phase = "flushing" /\ \E i \in 1 .. awaited : IsCommit(queue[i]) /\ queue[i].call = m
    <3>1. m \in DOMAIN calls
      BY <2>1 DEF Closing
    <3>2. CASE calls[m].at \in Outcomes
      <4>1. calls[m].at # "opened"
        BY <3>2 DEF Outcomes
      <4> QED
        BY <1>4, <3>1, <3>2, <4>1
    <3>3. CASE phase = "flushing" /\ \E i \in 1 .. awaited : IsCommit(queue[i]) /\ queue[i].call = m
      <4>1. m \in DOMAIN calls'
        BY <3>1 DEF Writes
      <4> QED
        BY <3>3, <4>1
    <3> QED
      BY <2>1, <3>2, <3>3 DEF Closing
  <2> QED
    BY <2>1 DEF Closing, FailureKnown
<1> QED
  BY <1>7, <1>8, <1>9, <1>10, <1>11, <1>12, <1>13, <1>14, <1>15 DEF Inv

\* A file opened for a call: a call more, and an empty file.
LEMMA OpenKeeps ==
  ASSUME Inv, NEW f \in Files, Open(f)
  PROVE  Inv'
<1>1. /\ UNCHANGED <<index, commits, queue, stage, timer, lastPush, pushed, awaited, phase, owed>>
      /\ Becomes(f, EmptyFile)
  BY DEF Open, gitVars, remoteVars, closeVars
<1>2. PICK c \in ({Bytes(t) : t \in Held(f)} \ {EmptyFile}) \cup {Own(Len(calls) + 1)} :
        calls' = Append(calls, [file |-> f, content |-> c,
                                at |-> "opened", turn |-> Len(texts) + 1])
  BY DEF Open
<1>3. calls \in Seq(Call) /\ texts \in Seq(Entries) /\ Len(calls) \in Nat /\ Len(texts) \in Nat
  BY DEF Inv, Types
<1>4. c \in Nat
  <2>1. ASSUME NEW t \in Held(f) PROVE Bytes(t) \in Nat
    <3>1. CASE t = 0
      BY <3>1 DEF Bytes
    <3>2. CASE t # 0
      <4>1. t \in DOMAIN texts
        BY <3>2 DEF Held
      <4>2. texts[t] \in Entries
        BY <1>3, <4>1
      <4> QED
        BY <3>2, <4>2 DEF Bytes, Entries
    <3> QED
      BY <3>1, <3>2
  <2> QED
    BY <1>3, <2>1 DEF Own
<1> DEFINE new == [file |-> f, content |-> c, at |-> "opened", turn |-> Len(texts) + 1]
<1>5. new \in Call
  BY <1>3, <1>4 DEF Call
<1>6. new.file = f /\ new.at = "opened" /\ new.turn = Len(texts) + 1
  OBVIOUS
<1> HIDE DEF new
<1>7. /\ calls' \in Seq(Call)
      /\ DOMAIN calls' = DOMAIN calls \cup {Len(calls) + 1} /\ Len(calls) + 1 \notin DOMAIN calls
      /\ \A n \in DOMAIN calls : calls'[n] = calls[n]
      /\ calls'[Len(calls) + 1] = new
  BY <1>2, <1>3, <1>5 DEF new
<1>8. Writes(Len(calls) + 1)
  BY <1>6, <1>7 DEF Writes
<1>9. Enters(Len(calls) + 1)
  BY <1>1, <1>6, <1>7 DEF Enters, EmptyFile
<1> QED
  BY <1>1, <1>3, <1>8, <1>9, WriterKeeps

\* A call with its file open writes it, or fails to.
LEMMA WriteKeeps ==
  ASSUME Inv, NEW n \in DOMAIN calls, Write(n) \/ WriteFails(n)
  PROVE  Inv'
<1>1. calls \in Seq(Call) /\ texts \in Seq(Entries) /\ n \in Nat /\ Len(texts) + 1 \in Nat
  BY DEF Inv, Types
<1>2. calls[n] \in Call /\ calls[n].file \in Files /\ calls[n].content \in Nat
  BY <1>1, CallTyped
<1>3. /\ UNCHANGED <<index, commits, queue, stage, timer, lastPush, pushed, awaited, phase, owed>>
      /\ calls[n].at = "opened"
  BY DEF Write, WriteFails, gitVars, remoteVars, closeVars
<1>4. CASE Write(n)
  <2> DEFINE new == [calls[n] EXCEPT !.at = "written", !.turn = Len(texts) + 1]
  <2>1. new \in Call
    BY <1>1, <1>2 DEF Call
  <2>2. new.file = calls[n].file /\ new.at = "written" /\ new.turn = Len(texts) + 1
    BY <1>2 DEF Call
  <2>3. calls' = [calls EXCEPT ![n] = new]
    BY <1>4 DEF Write
  <2> HIDE DEF new
  <2>4. /\ calls' \in Seq(Call) /\ DOMAIN calls' = DOMAIN calls
        /\ \A m \in DOMAIN calls : calls'[m] = IF m = n THEN new ELSE calls[m]
    BY <1>1, <2>1, <2>3
  <2>5. Writes(n)
    BY <1>3, <2>2, <2>4 DEF Writes
  <2>6. \E b \in Nat : Becomes(calls[n].file, b)
    BY <1>1, <1>2, <1>4, MaxCallsAssumption DEF Write, Over
  <2>7. Enters(n)
    BY <2>2, <2>4, <2>6 DEF Enters
  <2> QED
    BY <1>1, <1>3, <2>5, <2>7, WriterKeeps
<1>5. CASE WriteFails(n)
  <2> DEFINE new == [calls[n] EXCEPT !.at = "unwritten"]
  <2>1. new \in Call
    BY <1>2 DEF Call
  <2>2. new.file = calls[n].file /\ new.at = "unwritten" /\ new.turn = calls[n].turn
    BY <1>2 DEF Call
  <2>3. calls' = [calls EXCEPT ![n] = new] /\ UNCHANGED <<texts, tree>>
    BY <1>5 DEF WriteFails, fileVars
  <2> HIDE DEF new
  <2>4. /\ calls' \in Seq(Call) /\ DOMAIN calls' = DOMAIN calls
        /\ \A m \in DOMAIN calls : calls'[m] = IF m = n THEN new ELSE calls[m]
    BY <1>1, <2>1, <2>3
  <2>5. Writes(n) /\ Stays(n)
    BY <1>3, <2>2, <2>3, <2>4 DEF Writes, Stays
  <2> QED
    BY <1>1, <1>3, <2>5, WriterKeeps
<1> QED
  BY <1>4, <1>5

\* The note applied: a job for its call, which had none.
LEMMA CommitKeeps ==
  ASSUME Inv, NEW n \in DOMAIN calls, Commit(n)
  PROVE  Inv'
<1> USE DEF Inv
<1>1. /\ UNCHANGED <<texts, tree, index, commits, stage, timer, lastPush, pushed, awaited, phase, owed>>
      /\ Up /\ calls[n].at = "written"
  BY DEF Commit, fileVars, gitVars, remoteVars, closeVars
<1>2. Says(n, "queued")
  BY CallTold DEF Commit
<1> DEFINE job == [kind |-> "commit", call |-> n]
<1>3. job \in Job /\ IsCommit(job) /\ ~IsPush(job) /\ job.call = n
  BY DEF Types, Job, CommitJobs, IsCommit, IsPush
<1>4. Queued(job)
  BY <1>3, JobQueued DEF Commit
<1> HIDE DEF job
<1>5. NeverBackwards' /\ Recorded' /\ Carried' /\ HEAD' = HEAD
  BY <1>1, <1>2, SaysKeepsHistory DEF Outcomes
<1>6. /\ queue \in Seq(Job) /\ calls \in Seq(Call) /\ commits \in Seq(Commits)
      /\ Len(queue) \in Nat /\ DOMAIN queue = 1 .. Len(queue)
  BY DEF Types
<1>7. Types'
  BY <1>1, <1>2, <1>4 DEF Types, Says, Queued
<1>9. JobsAreCalls'
  <2>1. ASSUME NEW i \in DOMAIN queue', IsCommit(queue'[i])
        PROVE  queue'[i].call \in DOMAIN calls' /\ calls'[queue'[i].call].at = "queued"
    BY <2>1, <1>2, <1>3, <1>4 DEF JobsAreCalls, Says, Queued
  <2>2. ASSUME NEW i \in DOMAIN queue', NEW j \in DOMAIN queue', IsCommit(queue'[i]),
               IsCommit(queue'[j]), queue'[i].call = queue'[j].call
        PROVE  i = j
    BY <2>2, <1>1, <1>3, <1>4 DEF JobsAreCalls, Queued
  <2>3. ASSUME NEW m \in DOMAIN calls', calls'[m].at = "queued"
        PROVE  \E i \in DOMAIN queue' : IsCommit(queue'[i]) /\ queue'[i].call = m
    <3>1. CASE m = n
      BY <3>1, <1>3, <1>4 DEF Queued
    <3>2. CASE m # n
      <4>1. PICK i \in DOMAIN queue : IsCommit(queue[i]) /\ queue[i].call = m
        BY <3>2, <2>3, <1>2 DEF JobsAreCalls, Says
      <4> QED
        BY <4>1, <1>4 DEF Queued
    <3> QED
      BY <3>1, <3>2
  <2> QED
    BY <2>1, <2>2, <2>3 DEF JobsAreCalls
<1>10. StageIsSound'
  <2>1. CASE queue = <<>>
    BY <2>1, <1>1, <1>4, <1>6 DEF StageIsSound, Queued
  <2>2. CASE queue # <<>>
    <3>1. queue'[1] = queue[1] /\ queue' # <<>>
      BY <2>2, <1>4, <1>6 DEF Queued
    <3>2. IsCommit(queue[1]) => Current \in DOMAIN calls
      BY <2>2, <1>6 DEF JobsAreCalls, Current
    <3>3. Current' = Current
      BY <3>1 DEF Current
    <3> QED
      BY <3>1, <3>2, <3>3, <1>1, <1>2, <1>5 DEF StageIsSound, Says
  <2> QED
    BY <2>1, <2>2
<1>11. CommitsAreCalls'
  <2> SUFFICES ASSUME NEW i \in DOMAIN commits
               PROVE  /\ commits[i].call \in DOMAIN calls'
                      /\ calls'[commits[i].call].at \in {"queued"} \cup Outcomes
                      /\ calls'[commits[i].call].at = "queued" =>
                           stage = "rev-parse" /\ Current' = commits[i].call
    BY <1>1 DEF CommitsAreCalls
  <2>1. commits[i].call # n /\ commits[i].call \in DOMAIN calls
    BY <1>1 DEF CommitsAreCalls, Outcomes
  <2>2. stage = "rev-parse" => Current' = Current
    <3>1. stage = "rev-parse" => queue # <<>>
      BY DEF StageIsSound
    <3>2. queue # <<>> => queue'[1] = queue[1]
      BY <1>4, <1>6 DEF Queued
    <3> QED
      BY <3>1, <3>2 DEF Current
  <2> QED
    BY <2>1, <2>2, <1>2 DEF CommitsAreCalls, Says
<1>13. PushedOrReported'
  <2> SUFFICES ASSUME NEW i \in pushed + 1 .. Len(commits)
               PROVE  \/ PushComing' \/ lastPush \in {"diverged", "error"}
                      \/ calls'[commits[i].call].at \in {"queued", "failed"} \/ ~Up
    BY <1>1 DEF PushedOrReported, Up
  <2>1. commits[i].call \in DOMAIN calls
    BY DEF CommitsAreCalls, Types
  <2>2. PushComing => PushComing'
    BY <1>1, <1>4 DEF PushComing, Queued
  <2> QED
    BY <2>1, <2>2, <1>2 DEF PushedOrReported, Says
<1>14. Closing'
  <2>1. phase = "flushing" => \A i \in 1 .. awaited : queue'[i] = queue[i]
    BY <1>4, <1>6 DEF Closing, Queued
  <2>2. phase = "flushing" => awaited \in 0 .. Len(queue')
    BY <1>4, <1>6 DEF Closing, Queued
  <2>3. ASSUME phase # "open", NEW m \in owed.calls
        PROVE  /\ m \in DOMAIN calls'
               /\ \/ calls'[m].at \in Outcomes
                  \/ phase = "flushing" /\ \E i \in 1 .. awaited : IsCommit(queue'[i]) /\ queue'[i].call = m
    <3>1. m \in DOMAIN calls
      BY <2>3 DEF Closing
    <3>2. CASE calls[m].at \in Outcomes
      BY <3>1, <3>2, <1>1, <1>2 DEF Says, Outcomes
    <3>3. CASE phase = "flushing" /\ \E i \in 1 .. awaited : IsCommit(queue[i]) /\ queue[i].call = m
      BY <3>1, <3>3, <2>1, <1>2 DEF Says
    <3> QED
      BY <2>3, <3>2, <3>3 DEF Closing
  <2> QED
    BY <1>1, <2>1, <2>2, <2>3 DEF Closing, FailureKnown
<1> QED
  BY <1>5, <1>7, <1>9, <1>10, <1>11, <1>13, <1>14 DEF Inv
-----------------------------------------------------------------------------
\* What only the stage, the remote's own state and a finished phase tell apart.
LEMMA StageKeeps ==
  ASSUME Inv, UNCHANGED <<texts, tree, index, commits, calls, queue, timer, lastPush, pushed, awaited, phase, owed>>,
         queue = <<>> => stage' = stage,
         IsCommit(queue[1]) => stage' = stage \/ (stage = "diff" /\ stage' = "commit"),
         ~IsCommit(queue[1]) => stage' \notin {"diff", "commit", "rev-parse"},
         ~IsPush(queue[1]) => stage' \notin {"fetch", "merge-base", "push"}
  PROVE  Inv'
<1> USE DEF Inv
<1>1. NeverBackwards' /\ Recorded' /\ Carried' /\ HEAD' = HEAD
  BY HistoryStays
<1>2. Current' = Current /\ Up' = Up /\ (FailureKnown' <=> FailureKnown)
  BY DEF Current, Up, FailureKnown
<1>3. PushComing' <=> PushComing
  BY DEF PushComing
<1>4. Types'
  BY DEF Types
<1>6. JobsAreCalls'
  BY DEF JobsAreCalls
<1>7. StageIsSound'
  BY <1>1, <1>2 DEF StageIsSound
<1>8. CommitsAreCalls'
  <2>1. stage = "rev-parse" => stage' = stage
    BY DEF StageIsSound
  <2> QED
    BY <1>2, <2>1 DEF CommitsAreCalls
<1>9. PushedOrReported'
  BY <1>2, <1>3 DEF PushedOrReported
<1>10. Closing'
  BY <1>2 DEF Closing
<1> QED
  BY <1>1, <1>4, <1>6, <1>7, <1>8, <1>9, <1>10 DEF Inv

\* The call whose commit runs is one that waits for it.
LEMMA RunningCall ==
  ASSUME Inv, Runs("commit")
  PROVE  /\ queue # <<>> /\ 1 \in DOMAIN queue /\ IsCommit(queue[1]) /\ ~IsPush(queue[1])
         /\ Current \in DOMAIN calls /\ calls[Current].at = "queued"
         /\ calls[Current].file \in Files
         /\ \A i \in DOMAIN queue : IsCommit(queue[i]) /\ queue[i].call = Current => i = 1
<1> USE DEF Inv
<1>1. queue # <<>> /\ queue \in Seq(Job) /\ queue[1].kind = "commit"
  BY DEF Runs, Types
<1>2. 1 \in DOMAIN queue
  BY <1>1
<1>3. IsCommit(queue[1]) /\ ~IsPush(queue[1])
  BY <1>1 DEF IsCommit, IsPush
<1>4. Current \in DOMAIN calls /\ calls[Current].at = "queued"
  BY <1>2, <1>3 DEF JobsAreCalls, Current
<1>5. calls[Current] \in Call
  BY <1>4 DEF Types
<1>6. calls[Current].file \in Files
  BY <1>5 DEF Call
<1>7. \A i \in DOMAIN queue : IsCommit(queue[i]) /\ queue[i].call = Current => i = 1
  BY <1>2, <1>3 DEF JobsAreCalls, Current
<1> QED
  BY <1>1, <1>2, <1>3, <1>4, <1>6, <1>7

\* `git add` takes the file as it is, which is what the call wrote or later.
LEMMA AddKeeps ==
  ASSUME Inv, Add
  PROVE  Inv'
<1> USE DEF Inv
<1> DEFINE f == calls[Current].file
<1>1. /\ UNCHANGED <<texts, tree, commits, calls, queue, timer, lastPush, pushed, awaited, phase, owed>>
      /\ Runs("commit") /\ stage = "start" /\ stage' = "diff"
      /\ index' = [index EXCEPT ![f] = tree[f]]
  BY DEF Add, fileVars, remoteVars, closeVars
<1>2. HEAD' = HEAD /\ HEAD \in [Files -> Nat]
  BY <1>1, HeadIsTree
<1>3. Current' = Current /\ Up' = Up /\ (FailureKnown' <=> FailureKnown) /\ (PushComing' <=> PushComing)
  BY <1>1 DEF Current, Up, FailureKnown, PushComing
<1>4. f \in Files /\ Current \in DOMAIN calls /\ queue # <<>> /\ IsCommit(queue[1])
  BY <1>1, RunningCall
<1>5. tree \in [Files -> Nat] /\ index \in [Files -> Nat]
  BY DEF Types
<1>6. Types'
  BY <1>1, <1>4, <1>5 DEF Types
<1>7. /\ \A g \in Files : index'[g] \in Nat /\ index[g] <= index'[g] /\ index'[g] <= tree[g]
      /\ \A g \in Files : g # f => index'[g] = index[g]
      /\ index'[f] = tree[f]
  BY <1>1, <1>4, <1>5, IndexHeld
<1>13. NeverBackwards'
  <2>1. ASSUME NEW g \in Files PROVE Ordered(g)'
    <3>1. HEAD[g] \in Nat /\ index[g] \in Nat /\ HEAD[g] <= index[g] /\ index'[g] \in Nat /\ index[g] <= index'[g]
      BY <1>7, IndexHeld
    <3>2. Ordered(g)
      BY DEF NeverBackwards
    <3>3. index'[g] \in {index[g], tree[g]}
      BY <1>7
    <3>4. HEAD'[g] <= index'[g]
      BY <1>2, <3>1
    <3> QED
      BY <1>1, <1>7, <3>2, <3>3, <3>4 DEF Ordered, Held
  <2>2. ASSUME NEW g \in Files PROVE Touched(g)'
    BY <1>1 DEF NeverBackwards, Touched
  <2> QED
    BY <1>1, <2>1, <2>2 DEF NeverBackwards
<1>8. JobsAreCalls'
  BY <1>1 DEF JobsAreCalls
<1>9. StageIsSound'
  <2>1. index'[f] >= calls[Current].turn
    BY <1>4, <1>7, CallTyped
  <2> QED
    BY <1>1, <1>3, <1>4, <2>1 DEF StageIsSound
<1>10. CommitsAreCalls'
  BY <1>1 DEF CommitsAreCalls
<1>14. Recorded'
  <2>1. ASSUME NEW n \in DOMAIN calls, Told(n)
        PROVE  index'[calls[n].file] >= calls[n].turn
    <3>1. calls[n].file \in Files /\ calls[n].turn \in Nat
      BY CallTyped
    <3>2. index[calls[n].file] >= calls[n].turn /\ index[calls[n].file] \in Nat
      BY <2>1, <3>1, IndexHeld DEF Recorded
    <3> QED
      BY <1>7, <3>1, <3>2
  <2>2. ASSUME NEW g \in Files, Staged(g)'
        PROVE  Waited(g)
    <3>1. CASE g = f
      BY <1>1, <1>4, <3>1, RunningCall DEF Waited
    <3>2. CASE g # f
      <4>1. Staged(g)
        BY <1>1, <1>2, <1>7, <2>2, <3>2 DEF Staged, Bytes
      <4> QED
        BY <4>1 DEF Recorded
    <3> QED
      BY <3>1, <3>2
  <2> QED
    BY <1>1, <2>1, <2>2 DEF Recorded, Told, Waited
<1>15. Carried'
  BY <1>1, <1>2 DEF Carried, Carries, Told, Bytes
<1>11. PushedOrReported'
  BY <1>1, <1>3 DEF PushedOrReported
<1>12. Closing'
  BY <1>1, <1>3 DEF Closing
<1> QED
  BY <1>6, <1>13, <1>14, <1>15, <1>8, <1>9, <1>10, <1>11, <1>12 DEF Inv

\* `git commit`: what is staged is in the history, under the call that runs.
LEMMA CommitStagedKeeps ==
  ASSUME Inv, CommitStaged
  PROVE  Inv'
<1> USE DEF Inv
<1> DEFINE c == [tree |-> index, call |-> Current]
<1>1. /\ UNCHANGED <<texts, tree, index, calls, queue, timer, lastPush, pushed, awaited, phase, owed>>
      /\ Runs("commit") /\ stage = "commit" /\ stage' = "rev-parse"
      /\ commits' = Append(commits, c)
  BY DEF CommitStaged, fileVars, remoteVars, closeVars
<1>2. /\ Current \in DOMAIN calls /\ calls[Current].at = "queued"
      /\ queue # <<>> /\ IsCommit(queue[1])
  BY <1>1, RunningCall
<1>3. calls \in Seq(Call) /\ commits \in Seq(Commits) /\ index \in [Files -> Nat]
  BY DEF Types
<1>4. Current \in Nat
  BY <1>2, <1>3
<1>5. c \in Commits /\ c.tree = index /\ c.call = Current
  BY <1>3, <1>4 DEF Commits
<1> HIDE DEF c
<1>6. HEAD' = index /\ HEAD \in [Files -> Nat]
  BY <1>1, <1>5, HeadIsTree
<1>7. /\ commits' \in Seq(Commits) /\ Len(commits') = Len(commits) + 1
      /\ DOMAIN commits' = DOMAIN commits \cup {Len(commits) + 1}
      /\ \A i \in DOMAIN commits : commits'[i] = commits[i]
      /\ commits'[Len(commits) + 1] = c
  BY <1>1, <1>3, <1>5
<1>8. Current' = Current /\ Up' = Up /\ (FailureKnown' <=> FailureKnown) /\ (PushComing' <=> PushComing)
  BY <1>1 DEF Current, Up, FailureKnown, PushComing
<1>9. Types'
  BY <1>1, <1>7 DEF Types
<1>10. NeverBackwards'
  <2>1. ASSUME NEW g \in Files PROVE Ordered(g)' /\ Touched(g)'
    <3>1. HEAD'[g] = index[g] /\ index[g] \in Nat
      BY <1>3, <1>6
    <3> QED
      BY <1>1, <3>1 DEF NeverBackwards, Ordered, Touched, Held
  <2> QED
    BY <1>1, <2>1 DEF NeverBackwards
<1>11. JobsAreCalls'
  BY <1>1 DEF JobsAreCalls
<1>12. StageIsSound'
  BY <1>1, <1>2, <1>6, <1>8 DEF StageIsSound
<1>13. CommitsAreCalls'
  BY <1>1, <1>2, <1>5, <1>7, <1>8 DEF CommitsAreCalls
<1>14. Recorded' /\ Carried'
  <2>1. Recorded'
    <3>1. \A g \in Files : ~Staged(g)'
      BY <1>1, <1>6 DEF Staged, Bytes
    <3> QED
      BY <1>1, <3>1 DEF Recorded, Told
  <2>2. ASSUME NEW n \in DOMAIN calls, Told(n)
        PROVE  Carries(n)'
    <3>1. index[calls[n].file] >= calls[n].turn
      BY <2>2 DEF Recorded
    <3>2. Bytes(HEAD[calls[n].file])' = Bytes(index[calls[n].file])
      BY <1>1, <1>6 DEF Bytes
    <3> QED
      BY <1>1, <3>1, <3>2, StagedCarries DEF Carries
  <2> QED
    BY <1>1, <2>1, <2>2 DEF Carried, Told
<1>15. PushedOrReported'
  <2> SUFFICES ASSUME NEW i \in pushed + 1 .. Len(commits')
               PROVE  \/ PushComing \/ lastPush \in {"diverged", "error"}
                      \/ calls[commits'[i].call].at \in {"queued", "failed"} \/ ~Up
    BY <1>1, <1>8 DEF PushedOrReported
  <2>1. CASE i = Len(commits) + 1
    BY <2>1, <1>2, <1>5, <1>7
  <2>2. CASE i # Len(commits) + 1
    <3>1. i \in pushed + 1 .. Len(commits) /\ commits'[i] = commits[i]
      BY <2>2, <1>3, <1>7 DEF Types
    <3> QED
      BY <3>1 DEF PushedOrReported
  <2> QED
    BY <2>1, <2>2
<1>16. Closing'
  BY <1>1, <1>3, <1>7, <1>8 DEF Closing
<1> QED
  BY <1>9, <1>10, <1>11, <1>12, <1>13, <1>14, <1>15, <1>16 DEF Inv
-----------------------------------------------------------------------------
\* What a close waits for moves up with the jobs.
AwaitedShift ==
  /\ awaited' \in 0 .. Len(queue')
  /\ \A i \in 1 .. awaited : i # 1 => i - 1 \in 1 .. awaited' /\ queue'[i - 1] = queue[i]

LEMMA AwaitedMoveUp ==
  ASSUME Inv, queue # <<>>, JobEnds, phase = "flushing"
  PROVE  AwaitedShift
<1>1. queue \in Seq(Job) /\ awaited \in 0 .. Len(queue) /\ Shifted
  BY JobsMoveUp DEF Inv, Types, Closing
<1>2. awaited' = IF awaited = 0 THEN 0 ELSE awaited - 1
  BY DEF JobEnds
<1>3. Len(queue) \in Nat /\ DOMAIN queue = 1 .. Len(queue)
  BY <1>1
<1> QED
  BY <1>1, <1>2, <1>3 DEF Shifted, AwaitedShift

\* A commit answered: "skipped" only where nothing differs, "committed" only after its commit.
LEMMA AnswerKeeps ==
  ASSUME Inv, Runs("commit"), NEW outcome \in Outcomes, Answer(outcome),
         UNCHANGED <<texts, tree, index, commits, lastPush, pushed, phase, owed>>,
         timer => timer',
         outcome = "skipped" => stage = "diff",
         outcome = "committed" => stage = "rev-parse" /\ timer',
         outcome \in {"committed", "skipped"} =>
           index[calls[Current].file] >= calls[Current].turn /\ ~Staged(calls[Current].file)
  PROVE  Inv'
<1> USE DEF Inv
<1> DEFINE n == Current
<1>1. /\ n \in DOMAIN calls /\ calls[n].at = "queued"
      /\ queue # <<>> /\ 1 \in DOMAIN queue /\ IsCommit(queue[1]) /\ ~IsPush(queue[1])
      /\ \A i \in DOMAIN queue : IsCommit(queue[i]) /\ queue[i].call = n => i = 1
  BY RunningCall
<1>2. Shifted
  BY <1>1, JobsMoveUp DEF Answer
<1>3. Says(n, outcome)
  BY <1>1, CallTold DEF Answer
<1>4. queue \in Seq(Job) /\ Len(queue) \in Nat /\ DOMAIN queue = 1 .. Len(queue)
  BY DEF Types
<1>5. n = queue[1].call /\ stage' = "start"
  BY DEF Answer, JobEnds, Current
<1> HIDE DEF n
<1>6. Up' = Up /\ (FailureKnown' <=> FailureKnown)
  BY DEF Up, FailureKnown
<1>7. Types'
  BY <1>2, <1>3 DEF Types, Shifted, Says
<1>8. NeverBackwards' /\ Recorded' /\ Carried'
  <2>1. outcome \in {"committed", "skipped"} => index[calls[n].file] >= calls[n].turn /\ ~Staged(calls[n].file)
    BY <1>5 DEF Current
  <2> QED
    BY <1>1, <1>3, <2>1, SaysKeepsHistory
<1>9. JobsAreCalls'
  <2>1. ASSUME NEW i \in DOMAIN queue', IsCommit(queue'[i])
        PROVE  queue'[i].call \in DOMAIN calls' /\ calls'[queue'[i].call].at = "queued"
    <3>1. i + 1 \in DOMAIN queue /\ queue'[i] = queue[i + 1] /\ i + 1 # 1
      BY <1>2, <1>4 DEF Shifted
    <3>2. queue[i + 1].call # n
      BY <3>1, <2>1, <1>1
    <3> QED
      BY <3>1, <3>2, <2>1, <1>3 DEF JobsAreCalls, Says
  <2>2. ASSUME NEW i \in DOMAIN queue', NEW j \in DOMAIN queue', IsCommit(queue'[i]),
               IsCommit(queue'[j]), queue'[i].call = queue'[j].call
        PROVE  i = j
    <3>1. /\ i + 1 \in DOMAIN queue /\ queue'[i] = queue[i + 1] /\ i \in Nat
          /\ j + 1 \in DOMAIN queue /\ queue'[j] = queue[j + 1] /\ j \in Nat
      BY <1>2, <1>4 DEF Shifted
    <3>2. i + 1 = j + 1
      BY <3>1, <2>2 DEF JobsAreCalls
    <3> QED
      BY <3>1, <3>2
  <2>3. ASSUME NEW m \in DOMAIN calls', calls'[m].at = "queued"
        PROVE  \E i \in DOMAIN queue' : IsCommit(queue'[i]) /\ queue'[i].call = m
    <3>1. m \in DOMAIN calls /\ m # n /\ calls[m].at = "queued"
      BY <2>3, <1>3 DEF Says, Outcomes
    <3>2. PICK i \in DOMAIN queue : IsCommit(queue[i]) /\ queue[i].call = m
      BY <3>1 DEF JobsAreCalls
    <3>3. i # 1
      BY <3>1, <3>2, <1>5
    <3> QED
      BY <3>2, <3>3, <1>2 DEF Shifted
  <2> QED
    BY <2>1, <2>2, <2>3 DEF JobsAreCalls
<1>10. StageIsSound'
  BY <1>5 DEF StageIsSound
<1>11. CommitsAreCalls'
  <2> SUFFICES ASSUME NEW i \in DOMAIN commits
               PROVE  /\ commits[i].call \in DOMAIN calls'
                      /\ calls'[commits[i].call].at \in Outcomes
    BY DEF CommitsAreCalls, Outcomes
  <2>1. /\ commits[i].call \in DOMAIN calls /\ calls[commits[i].call].at \in {"queued"} \cup Outcomes
        /\ calls[commits[i].call].at = "queued" => n = commits[i].call
    BY <1>5 DEF CommitsAreCalls, Current, Outcomes
  <2> QED
    BY <2>1, <1>3 DEF Says, Outcomes
<1>13. PushedOrReported'
  <2> SUFFICES ASSUME NEW i \in pushed + 1 .. Len(commits)
               PROVE  \/ PushComing' \/ lastPush \in {"diverged", "error"}
                      \/ calls'[commits[i].call].at \in {"queued", "failed"} \/ ~Up
    BY <1>6 DEF PushedOrReported
  <2>1. i \in DOMAIN commits
    BY DEF Types
  <2>2. CASE PushComing
    <3>1. CASE timer
      BY <3>1 DEF PushComing
    <3>2. CASE \E k \in DOMAIN queue : IsPush(queue[k])
      <4>1. PICK k \in DOMAIN queue : IsPush(queue[k])
        BY <3>2
      <4>2. k - 1 \in DOMAIN queue' /\ queue'[k - 1] = queue[k]
        BY <4>1, <1>1, <1>2 DEF Shifted
      <4> QED
        BY <4>1, <4>2 DEF PushComing
    <3> QED
      BY <2>2, <3>1, <3>2 DEF PushComing
  <2>3. CASE calls[commits[i].call].at \in {"queued", "failed"}
    <3>1. commits[i].call \in DOMAIN calls
      BY <2>1 DEF CommitsAreCalls
    <3>2. CASE calls[commits[i].call].at = "failed"
      BY <3>1, <3>2, <1>1, <1>3 DEF Says
    <3>3. CASE calls[commits[i].call].at = "queued"
      <4>1. stage = "rev-parse" /\ n = commits[i].call
        BY <2>1, <3>3, <1>5 DEF CommitsAreCalls, Current
      <4>2. outcome = "committed" \/ outcome = "failed"
        BY <4>1 DEF Outcomes
      <4> QED
        BY <3>1, <4>1, <4>2, <1>3 DEF Says, PushComing
    <3> QED
      BY <2>3, <3>2, <3>3
  <2> QED
    BY <2>2, <2>3 DEF PushedOrReported
<1>14. Closing'
  <2>1. phase = "flushing" => AwaitedShift
    BY <1>1, AwaitedMoveUp DEF Answer
  <2>2. ASSUME phase # "open", NEW m \in owed.calls
        PROVE  /\ m \in DOMAIN calls'
               /\ \/ calls'[m].at \in Outcomes
                  \/ phase = "flushing" /\ \E i \in 1 .. awaited' : IsCommit(queue'[i]) /\ queue'[i].call = m
    <3>1. m \in DOMAIN calls
      BY <2>2 DEF Closing
    <3>2. CASE calls[m].at \in Outcomes \/ m = n
      BY <3>1, <3>2, <1>3 DEF Says
    <3>3. CASE m # n /\ phase = "flushing" /\ \E i \in 1 .. awaited : IsCommit(queue[i]) /\ queue[i].call = m
      <4>1. PICK i \in 1 .. awaited : IsCommit(queue[i]) /\ queue[i].call = m
        BY <3>3
      <4>2. i # 1
        BY <4>1, <3>3, <1>5
      <4> QED
        BY <3>1, <3>3, <4>1, <4>2, <2>1, <1>3 DEF AwaitedShift, Says
    <3> QED
      BY <2>2, <3>2, <3>3 DEF Closing
  <2>3. ASSUME phase = "flushing", \E i \in 1 .. awaited : IsPush(queue[i])
        PROVE  \E i \in 1 .. awaited' : IsPush(queue'[i])
    <3>1. PICK i \in 1 .. awaited : IsPush(queue[i])
      BY <2>3
    <3>2. i # 1
      BY <3>1, <1>1
    <3> QED
      BY <3>1, <3>2, <2>1, <2>3 DEF AwaitedShift
  <2> QED
    BY <1>6, <2>1, <2>2, <2>3 DEF Closing, AwaitedShift
<1> QED
  BY <1>7, <1>8, <1>9, <1>10, <1>11, <1>13, <1>14 DEF Inv

\* A push that ends: the remote has every commit, or the failure is known.
LEMMA PushSettles ==
  ASSUME Inv, Runs("push"), JobEnds,
         UNCHANGED <<texts, tree, index, commits, calls, timer, phase, owed>>,
         \/ pushed' = Len(commits)
         \/ pushed' = pushed /\ lastPush' \in {"diverged", "error"}
  PROVE  Inv'
<1> USE DEF Inv
<1>1. /\ queue # <<>> /\ queue \in Seq(Job) /\ Len(queue) \in Nat /\ DOMAIN queue = 1 .. Len(queue)
      /\ IsPush(queue[1]) /\ ~IsCommit(queue[1]) /\ Len(commits) \in Nat
  BY DEF Runs, Types, IsPush, IsCommit
<1>2. Shifted /\ stage' = "start"
  BY <1>1, JobsMoveUp DEF JobEnds
<1>3. NeverBackwards' /\ Recorded' /\ Carried'
  BY HistoryStays
<1>4. \A i \in DOMAIN commits : calls[commits[i].call].at # "queued"
  BY <1>1 DEF CommitsAreCalls, StageIsSound
<1>5. Types'
  BY <1>1, <1>2 DEF Types, Shifted
<1>7. JobsAreCalls'
  <2>1. ASSUME NEW i \in DOMAIN queue', IsCommit(queue'[i])
        PROVE  queue'[i].call \in DOMAIN calls /\ calls[queue'[i].call].at = "queued"
    BY <2>1, <1>2 DEF JobsAreCalls, Shifted
  <2>2. ASSUME NEW i \in DOMAIN queue', NEW j \in DOMAIN queue', IsCommit(queue'[i]),
               IsCommit(queue'[j]), queue'[i].call = queue'[j].call
        PROVE  i = j
    <3>1. /\ i + 1 \in DOMAIN queue /\ queue'[i] = queue[i + 1] /\ i \in Nat
          /\ j + 1 \in DOMAIN queue /\ queue'[j] = queue[j + 1] /\ j \in Nat
      BY <1>1, <1>2 DEF Shifted
    <3>2. i + 1 = j + 1
      BY <3>1, <2>2 DEF JobsAreCalls
    <3> QED
      BY <3>1, <3>2
  <2>3. ASSUME NEW m \in DOMAIN calls, calls[m].at = "queued"
        PROVE  \E i \in DOMAIN queue' : IsCommit(queue'[i]) /\ queue'[i].call = m
    <3>1. PICK i \in DOMAIN queue : IsCommit(queue[i]) /\ queue[i].call = m
      BY <2>3 DEF JobsAreCalls
    <3> QED
      BY <3>1, <1>1, <1>2 DEF Shifted
  <2> QED
    BY <2>1, <2>2, <2>3 DEF JobsAreCalls
<1>8. StageIsSound' /\ CommitsAreCalls'
  BY <1>2, <1>4 DEF StageIsSound, CommitsAreCalls
<1>9. PushedOrReported'
  <2>1. CASE pushed' = Len(commits)
    BY <2>1, <1>1 DEF PushedOrReported
  <2>2. CASE lastPush' \in {"diverged", "error"}
    BY <2>2 DEF PushedOrReported
  <2> QED
    BY <2>1, <2>2
<1>10. Closing'
  <2>1. phase = "flushing" => AwaitedShift
    BY <1>1, AwaitedMoveUp
  <2>2. ASSUME phase # "open", NEW m \in owed.calls
        PROVE  /\ m \in DOMAIN calls
               /\ \/ calls[m].at \in Outcomes
                  \/ phase = "flushing" /\ \E i \in 1 .. awaited' : IsCommit(queue'[i]) /\ queue'[i].call = m
    <3>1. m \in DOMAIN calls
      BY <2>2 DEF Closing
    <3>2. CASE phase = "flushing" /\ \E i \in 1 .. awaited : IsCommit(queue[i]) /\ queue[i].call = m
      <4>1. PICK i \in 1 .. awaited : IsCommit(queue[i]) /\ queue[i].call = m
        BY <3>2
      <4>2. i # 1
        BY <4>1, <1>1
      <4> QED
        BY <3>1, <3>2, <4>1, <4>2, <2>1 DEF AwaitedShift
    <3> QED
      BY <2>2, <3>1, <3>2 DEF Closing
  <2>3. phase # "open" => pushed' >= owed.commits \/ FailureKnown'
    BY <1>1 DEF Closing, FailureKnown
  <2> QED
    BY <2>1, <2>2, <2>3 DEF Closing, AwaitedShift
<1> QED
  BY <1>3, <1>5, <1>7, <1>8, <1>9, <1>10 DEF Inv
-----------------------------------------------------------------------------
\* A push queued behind the jobs there are takes nothing from any call or commit.
LEMMA PushQueued ==
  ASSUME Inv, queue' = Append(queue, PushJob),
         UNCHANGED <<texts, tree, index, commits, calls, stage, lastPush, pushed>>
  PROVE  /\ Types' /\ NeverBackwards' /\ JobsAreCalls' /\ StageIsSound' /\ CommitsAreCalls'
         /\ Recorded' /\ Carried' /\ PushedOrReported' /\ PushComing'
<1> USE DEF Inv
<1>1. PushJob \in Job /\ IsPush(PushJob) /\ ~IsCommit(PushJob)
  BY DEF Job, PushJob, IsPush, IsCommit
<1>2. Queued(PushJob)
  BY <1>1, JobQueued
<1>3. queue \in Seq(Job) /\ Len(queue) \in Nat /\ DOMAIN queue = 1 .. Len(queue)
  BY DEF Types
<1>4. NeverBackwards' /\ Recorded' /\ Carried' /\ HEAD' = HEAD
  BY HistoryStays
<1>5. Types'
  BY <1>2 DEF Types, Queued
<1>7. JobsAreCalls'
  BY <1>1, <1>2 DEF JobsAreCalls, Queued
<1>8. StageIsSound' /\ CommitsAreCalls'
  <2>1. CASE queue = <<>>
    BY <2>1, <1>2, <1>3 DEF StageIsSound, CommitsAreCalls, Queued
  <2>2. CASE queue # <<>>
    <3>1. queue'[1] = queue[1] /\ queue' # <<>> /\ Current' = Current
      BY <2>2, <1>2, <1>3 DEF Queued, Current
    <3> QED
      BY <2>2, <3>1, <1>4 DEF StageIsSound, CommitsAreCalls
  <2> QED
    BY <2>1, <2>2
<1>9. PushComing'
  BY <1>1, <1>2 DEF PushComing, Queued
<1>10. PushedOrReported'
  BY <1>9 DEF PushedOrReported
<1> QED
  BY <1>4, <1>5, <1>7, <1>8, <1>9, <1>10

LEMMA PushDueKeeps ==
  ASSUME Inv, PushDue
  PROVE  Inv'
<1> USE DEF Inv
<1>1. /\ UNCHANGED <<texts, tree, index, commits, calls, stage, lastPush, pushed, awaited, phase, owed>>
      /\ queue' = Append(queue, PushJob)
  BY DEF PushDue, fileVars, gitVars, remoteVars, closeVars
<1>2. /\ Types' /\ NeverBackwards' /\ JobsAreCalls' /\ StageIsSound' /\ CommitsAreCalls'
      /\ Recorded' /\ Carried' /\ PushedOrReported'
  BY <1>1, PushQueued
<1>3. Closing'
  <2>1. Len(queue) \in Nat /\ Len(queue') = Len(queue) + 1 /\ \A i \in 1 .. Len(queue) : queue'[i] = queue[i]
    BY <1>1 DEF Types
  <2>2. phase = "flushing" => awaited \in 0 .. Len(queue') /\ \A i \in 1 .. awaited : queue'[i] = queue[i]
    BY <2>1 DEF Closing
  <2> QED
    BY <1>1, <2>2 DEF Closing, FailureKnown
<1> QED
  BY <1>2, <1>3 DEF Inv

\* A close begins: what it owes is in the queue it waits for.
LEMMA FlushKeeps ==
  ASSUME Inv, Flush
  PROVE  Inv'
<1> USE DEF Inv
<1>1. /\ UNCHANGED <<texts, tree, index, commits, calls, stage, lastPush, pushed>>
      /\ phase = "open" /\ phase' = "flushing" /\ awaited' = Len(queue')
  BY DEF Flush, fileVars, gitVars, remoteVars
<1>2. /\ owed'.calls = {n \in DOMAIN calls : calls[n].at = "queued"}
      /\ owed'.commits = IF \E i \in DOMAIN queue' : IsPush(queue'[i]) THEN Len(commits) ELSE 0
  BY DEF Flush
<1>3. /\ Types' /\ NeverBackwards' /\ JobsAreCalls' /\ StageIsSound' /\ CommitsAreCalls'
      /\ Recorded' /\ Carried' /\ PushedOrReported'
  <2>1. CASE timer
    <3>1. queue' = Append(queue, PushJob)
      BY <2>1 DEF Flush
    <3> QED
      BY <1>1, <3>1, PushQueued
  <2>2. CASE ~timer
    <3>1. queue' = queue /\ timer' = FALSE
      BY <2>2 DEF Flush
    <3>2. HEAD' = HEAD /\ Current' = Current /\ Up' /\ Up
      BY <1>1, <3>1, HeadIsTree DEF Current, Up
    <3>7. NeverBackwards' /\ Recorded' /\ Carried'
      BY <1>1, HistoryStays
    <3>3. PushComing' <=> PushComing
      BY <2>2, <3>1 DEF PushComing
    <3>4. Types' /\ JobsAreCalls'
      BY <1>1, <3>1 DEF Types, JobsAreCalls
    <3>5. StageIsSound' /\ CommitsAreCalls'
      BY <1>1, <3>1, <3>2 DEF StageIsSound, CommitsAreCalls
    <3>6. PushedOrReported'
      BY <1>1, <3>2, <3>3 DEF PushedOrReported
    <3> QED
      BY <3>4, <3>5, <3>6, <3>7
  <2> QED
    BY <2>1, <2>2
<1>4. Len(queue') \in Nat /\ DOMAIN queue' = 1 .. Len(queue') /\ Len(commits) \in Nat
  BY <1>3 DEF Types
<1>5. Closing'
  <2>1. ASSUME NEW m \in owed'.calls
        PROVE  m \in DOMAIN calls' /\ \E i \in 1 .. awaited' : IsCommit(queue'[i]) /\ queue'[i].call = m
    BY <1>1, <1>2, <1>3, <1>4 DEF JobsAreCalls
  <2>2. \/ pushed' >= owed'.commits
        \/ \E i \in 1 .. awaited' : IsPush(queue'[i])
    BY <1>1, <1>2, <1>4 DEF Types
  <2>3. owed'.commits \in Nat /\ owed'.commits <= Len(commits')
    BY <1>1, <1>2, <1>4
  <2> QED
    BY <1>1, <1>4, <2>1, <2>2, <2>3 DEF Closing
<1> QED
  BY <1>3, <1>5 DEF Inv

\* The queue of the close awaited, and the exit: nothing is told or pushed by either.
LEMMA PhaseKeeps ==
  ASSUME Inv, QueueAwaited \/ Exit
  PROVE  Inv'
<1> USE DEF Inv
<1>1. /\ UNCHANGED <<texts, tree, index, commits, calls, queue, stage, timer, lastPush, pushed, owed>>
      /\ phase # "open" /\ phase' \in {"draining", "exited"}
      /\ phase = "flushing" => awaited = 0
      /\ phase = "exited" => phase' = "exited"
  BY DEF QueueAwaited, Exit, fileVars, gitVars, remoteVars
<1>2. HEAD' = HEAD /\ Current' = Current /\ (PushComing' <=> PushComing) /\ (FailureKnown' <=> FailureKnown)
  BY <1>1, HeadIsTree DEF Current, PushComing, FailureKnown
<1>3. Types' /\ JobsAreCalls' /\ NeverBackwards' /\ Recorded' /\ Carried'
  BY <1>1, HistoryStays DEF Types, JobsAreCalls
<1>4. StageIsSound' /\ CommitsAreCalls'
  BY <1>1, <1>2 DEF StageIsSound, CommitsAreCalls
<1>5. PushedOrReported'
  BY <1>1, <1>2 DEF PushedOrReported, Up
<1>6. Closing'
  BY <1>1, <1>2 DEF Closing
<1> QED
  BY <1>3, <1>4, <1>5, <1>6 DEF Inv

LEMMA CommitJobKeeps ==
  ASSUME Inv, CommitJob
  PROVE  Inv'
<1>1. CASE Add
  BY <1>1, AddKeeps
<1>2. CASE DiffStaged
  <2> DEFINE f == calls[Current].file
  <2>1. /\ UNCHANGED <<texts, tree, index, commits, timer, lastPush, pushed, phase, owed>>
        /\ Runs("commit") /\ stage = "diff"
    BY <1>2 DEF DiffStaged, fileVars, gitVars, remoteVars, closeVars
  <2>2. CASE ~Staged(f) /\ Answer("skipped")
    <3>1. index[f] >= calls[Current].turn
      BY <2>1, <2>2 DEF Inv, StageIsSound
    <3> QED
      BY <2>1, <2>2, <3>1, AnswerKeeps DEF Outcomes
  <2>3. CASE stage' = "commit" /\ UNCHANGED <<queue, calls, awaited>>
    BY <2>1, <2>3, RunningCall, StageKeeps
  <2> QED
    BY <1>2, <2>2, <2>3 DEF DiffStaged
<1>3. CASE CommitStaged
  BY <1>3, CommitStagedKeeps
<1>4. CASE CommitDone
  <2>1. /\ UNCHANGED <<texts, tree, index, commits, lastPush, pushed, phase, owed>>
        /\ Runs("commit") /\ stage = "rev-parse" /\ timer' /\ Answer("committed")
    BY <1>4 DEF CommitDone, fileVars, gitVars, remoteVars, closeVars
  <2>2. index[calls[Current].file] >= calls[Current].turn /\ ~Staged(calls[Current].file)
    BY <2>1 DEF Inv, StageIsSound, Staged
  <2> QED
    BY <2>1, <2>2, AnswerKeeps DEF Outcomes
<1>5. CASE CommitFails
  <2>1. /\ UNCHANGED <<texts, tree, index, commits, timer, lastPush, pushed, phase, owed>>
        /\ Runs("commit") /\ Answer("failed")
    BY <1>5 DEF CommitFails, fileVars, gitVars, remoteVars, closeVars
  <2> QED
    BY <2>1, AnswerKeeps DEF Outcomes
<1> QED
  BY <1>1, <1>2, <1>3, <1>4, <1>5 DEF CommitJob

LEMMA PushJobKeeps ==
  ASSUME Inv, PushJobRuns
  PROVE  Inv'
<1>1. Runs("push") => queue # <<>> /\ IsPush(queue[1]) /\ ~IsCommit(queue[1])
  BY DEF Runs, IsPush, IsCommit
<1>2. CASE LsRemote
  BY <1>1, <1>2, StageKeeps DEF LsRemote, fileVars, gitVars, remoteVars, closeVars
<1>3. CASE Fetch
  BY <1>1, <1>3, StageKeeps DEF Fetch, fileVars, gitVars, closeVars
<1>4. CASE MergeBase
  <2>1. UNCHANGED <<texts, tree, index, commits, calls, timer, pushed, phase, owed>> /\ Runs("push")
    BY <1>4 DEF MergeBase, fileVars, gitVars, remoteVars, closeVars
  <2>2. CASE lastPush' = "diverged" /\ JobEnds
    BY <2>1, <2>2, PushSettles
  <2>3. CASE stage' = "push" /\ UNCHANGED <<queue, lastPush, awaited>>
    BY <1>1, <2>1, <2>3, StageKeeps
  <2> QED
    BY <1>4, <2>2, <2>3 DEF MergeBase
<1>5. CASE Push
  BY <1>5, PushSettles DEF Push, fileVars, gitVars, closeVars
<1>6. CASE PushFails
  BY <1>6, PushSettles DEF PushFails, fileVars, gitVars, remoteVars, closeVars
<1> QED
  BY <1>2, <1>3, <1>4, <1>5, <1>6 DEF PushJobRuns

\* What somebody else does to the remote, or a pull by hand, touches nothing of these.
LEMMA UntouchedKeeps ==
  ASSUME Inv,
         UNCHANGED <<texts, tree, index, commits, calls, queue, stage, timer, lastPush, pushed, awaited, phase, owed>>
  PROVE  Inv'
<1>1. stage' = stage
  OBVIOUS
<1>2. ~IsCommit(queue[1]) => stage' \notin {"diff", "commit", "rev-parse"}
  BY <1>1 DEF Inv, StageIsSound
<1>3. ~IsPush(queue[1]) => stage' \notin {"fetch", "merge-base", "push"}
  BY <1>1 DEF Inv, StageIsSound
<1>4. IsCommit(queue[1]) => stage' = stage \/ (stage = "diff" /\ stage' = "commit")
  BY <1>1
<1>5. queue = <<>> => stage' = stage
  BY <1>1
<1>6. UNCHANGED <<texts, tree, index, commits, calls, queue, timer, lastPush, pushed, awaited, phase, owed>>
  OBVIOUS
<1> QED
  BY <1>2, <1>3, <1>4, <1>5, <1>6, StageKeeps

LEMMA InvNext == Inv /\ [Next]_vars => Inv'
<1> SUFFICES ASSUME Inv, [Next]_vars
             PROVE  Inv'
  OBVIOUS
<1>1. ASSUME NEW f \in Files, Open(f)
      PROVE  Inv'
  BY <1>1, OpenKeeps
<1>2. ASSUME NEW n \in DOMAIN calls, Proceed(n)
      PROVE  Inv'
  BY <1>2, WriteKeeps, CommitKeeps DEF Proceed
<1>3. CASE SomeoneElse \/ PullByHand \/ UNCHANGED vars
  BY <1>3, UntouchedKeeps DEF SomeoneElse, PullByHand, vars, fileVars, gitVars, remoteVars, closeVars
<1> QED
  BY <1>1, <1>2, <1>3, CommitJobKeeps, PushDueKeeps, PushJobKeeps, FlushKeeps, PhaseKeeps
  DEF Next, Close

THEOREM InvHolds == Spec => []Inv
  BY InvInit, InvNext, PTL DEF Spec
-----------------------------------------------------------------------------
(***************************************************************************)
(* Whatever runs while git does, whichever of its commands and of the      *)
(* writes fail, and in the middle of whatever writes git reads the files:  *)
(* a call told "committed" or "skipped" has what it left in its file, or   *)
(* what was there later, in the history; and when every call on a file was *)
(* told so, the history has the file (git.ts:92-112).                      *)
(***************************************************************************)
THEOREM ToldTheTruth == Spec => []OutcomesAreTrue
<1>1. Inv => OutcomesAreTrue
  BY AllAreTrue
<1> QED
  BY <1>1, InvHolds, PTL

(***************************************************************************)
(* While the process lives, a commit the remote lacks has a push coming,   *)
(* a failure reported, or a call told that it failed (git.ts:115-179).     *)
(***************************************************************************)
THEOREM NoneLeftBehind == Spec => []PushedOrReported
<1>1. Inv => PushedOrReported
  BY DEF Inv
<1> QED
  BY <1>1, InvHolds, PTL

(***************************************************************************)
(* A close exits after what was under way when it began: its commits       *)
(* answered, its pushes done or known to have failed (git.ts:157-165,      *)
(* context.ts:343-349).                                                    *)
(***************************************************************************)
THEOREM CloseIsPatient == Spec => []CloseWaits
<1>1. Inv => CloseWaits
  BY DEF Inv, Closing, CloseWaits, FailureKnown
<1> QED
  BY <1>1, InvHolds, PTL
=============================================================================
