----------------------------- MODULE BrainContext -----------------------------
(***************************************************************************)
(* The vault on disk and the server that serves it: tools writing notes    *)
(* (packages/core/src/write.ts, packages/server/src/tools.ts), editors and *)
(* git changing files behind the server's back, the watcher, the reload it *)
(* triggers (context.ts, packages/core/src/vault.ts) and the served state  *)
(* both fold into.  A process may stop or die and be started again.        *)
(*                                                                         *)
(* Only what is awaited is a step of its own.  Between two awaits nothing  *)
(* else runs, so `splice ... reindexDense` of a reload and the whole of    *)
(* `applyWrite` are one step each, while the disk, which other processes   *)
(* write, may change between any two reads.                                *)
(***************************************************************************)
EXTENDS ServedNotes, VaultWatch

CONSTANTS
  Writers,        \* tool calls that may be writing at the same time
  Torn,           \* what a reader sees of a file truncated and not yet written
  Mixed,          \* and of one where a text lies over the rest of a longer one
  MaxChanges,     \* bound: contents ever written to disk
  MaxDeletions,   \* bound: files ever removed
  StartupEdits,   \* files may change between the first load and the watch
  PromptWrites    \* a write takes less time than the debounce

ASSUME ChangesAssumption ==
  /\ MaxChanges \in Nat /\ MaxChanges > 0
  /\ MaxDeletions \in Nat
  /\ 1 .. MaxChanges \subseteq Contents
  /\ {Torn, Mixed} \subseteq Contents

ASSUME SwitchesAssumption == StartupEdits \in BOOLEAN /\ PromptWrites \in BOOLEAN

VARIABLES
  phase,      \* of the process: "opening", "serving", "closing", or not running:
              \* "down" when it crashed or was killed, "stopped" when it was told to
  disk,       \* the files
  changes,    \* contents written so far; the last one is `changes`
  deletions,  \* files removed so far
  writer,     \* per tool call, where its write stands
  early,      \* per tool call, how many of the timeouts still counting were armed
              \* before it opened its file
  load,       \* of loadVault: "idle", "listing" or "reading"
  todo,       \* files listed and not read yet
  got         \* what the files read so far held

diskVars == <<disk, changes, deletions>>
loadVars == <<load, todo, got>>
callVars == <<writer, early>>
vars == <<phase, diskVars, callVars, loadVars, servedVars, watchVars>>

Idle == [at |-> "idle"]
Writing == [at : {"opened", "written"}, path : Paths, content : Contents]

OwnTypeOK ==
  /\ phase \in {"opening", "serving", "closing", "down", "stopped"}
  /\ disk \in Notes
  /\ changes \in 0 .. MaxChanges
  /\ deletions \in 0 .. MaxDeletions
  /\ writer \in [Writers -> {Idle} \cup Writing]
  /\ early \in [Writers -> Nat]
  /\ load \in {"idle", "listing", "reading"}
  /\ todo \in SUBSET Paths
  /\ got \in Notes

TypeOK == OwnTypeOK /\ ServedTypeOK /\ WatchTypeOK

Up == phase \in {"serving", "closing"}

\* Calls whose file is truncated, or written and not yet folded in.
Busy == {w \in Writers : writer[w].at # "idle"}

NoneEarly == [w \in Writers |-> 0]

Init ==
  /\ phase = "opening"
  /\ ServedInit
  /\ disk = notes
  /\ \A p \in Paths : disk[p] \in {Absent, 1}
  /\ changes = 1
  /\ deletions = 0
  /\ writer = [w \in Writers |-> Idle]
  /\ early = NoneEarly
  /\ load = "idle"
  /\ todo = {}
  /\ got = Empty
  /\ WatchInit
-----------------------------------------------------------------------------
(***************************************************************************)
(* Startup.  The vault is read first; the register, the audit and git open *)
(* next, each awaited; the watch begins last (context.ts:167-189, 353).    *)
(***************************************************************************)
StartWatching ==
  /\ phase = "opening"
  /\ phase' = "serving"
  /\ UNCHANGED <<diskVars, callVars, loadVars, servedVars, watchVars>>

\* A new process reads the vault as it finds it.
Starts ==
  /\ phase' = "opening"
  /\ Boot(disk)
  /\ writer' = [w \in Writers |-> Idle]
  /\ early' = NoneEarly
  /\ load' = "idle"
  /\ todo' = {}
  /\ got' = Empty
  /\ WatchAnew
  /\ UNCHANGED diskVars

\* systemd starts a unit that failed (Restart=on-failure, manent-brain.service:32).
Restart == phase = "down" /\ Starts

\* One that exited as it was told to waits for somebody to start it.
Start == phase = "stopped" /\ Starts

\* Stops the bounds leave room for: a deletion may cost a boot of its own.
MayStop == boots + MaxDeletions < MaxBoots

\* What is left of the early ones when the timeout the handle holds, the last
\* armed of all, is cleared.
Cleared == [w \in Writers |-> IF early[w] > orphans THEN orphans ELSE early[w]]

\* SIGTERM: `ctx.close` closes the watch first, then waits for the audit and git.
Shutdown ==
  /\ phase = "serving"
  /\ MayStop
  /\ phase' = "closing"
  /\ Close
  /\ early' = Cleared
  /\ UNCHANGED <<diskVars, writer, loadVars, servedVars>>

\* Everything closed, the process exits with code 0.
Exit ==
  /\ phase = "closing"
  /\ phase' = "stopped"
  /\ UNCHANGED <<diskVars, callVars, loadVars, servedVars, watchVars>>

\* Killed, whatever it was doing.
Killed ==
  /\ phase = "serving"
  /\ MayStop
  /\ phase' = "down"
  /\ UNCHANGED <<diskVars, callVars, loadVars, servedVars, watchVars>>
-----------------------------------------------------------------------------
\* A file changes on disk; only a watch that has begun hears of it.
Touch(p) == IF phase = "serving" THEN Changed(p) ELSE UNCHANGED events

Store(p, c) ==
  /\ disk' = [disk EXCEPT ![p] = c]
  /\ Touch(p)
  /\ UNCHANGED <<pending, timer, orphans, running, again, closed>>

(***************************************************************************)
(* Somebody else's process: an editor, a checkout, `manent promote`.  Not  *)
(* on a file a tool call holds open: which of the two then remains is the  *)
(* file system's business.                                                 *)
(***************************************************************************)
MayTouch(p) ==
  /\ phase = "opening" => StartupEdits
  /\ \A w \in Busy : writer[w].at = "opened" => writer[w].path # p

Edit(p) ==
  /\ MayTouch(p)
  /\ changes < MaxChanges
  /\ changes' = changes + 1
  /\ Store(p, changes + 1)
  /\ UNCHANGED <<phase, deletions, callVars, loadVars, servedVars>>

Delete(p) ==
  /\ MayTouch(p)
  /\ disk[p] # Absent
  /\ deletions < MaxDeletions
  /\ deletions' = deletions + 1
  /\ Store(p, Absent)
  /\ UNCHANGED <<phase, changes, callVars, loadVars, servedVars>>

(***************************************************************************)
(* A tool call's write: the file is truncated, then written, and only when *)
(* `await writeNote` resumes is the note folded into the served state.     *)
(***************************************************************************)
Open(w, p) ==
  /\ Up
  /\ writer[w] = Idle
  /\ changes < MaxChanges
  /\ changes' = changes + 1
  /\ Store(p, Torn)
  /\ writer' = [writer EXCEPT ![w] = [at |-> "opened", path |-> p, content |-> changes + 1]]
  /\ early' = [early EXCEPT ![w] = Timeouts]
  /\ UNCHANGED <<phase, deletions, loadVars, servedVars>>

(***************************************************************************)
(* The text is written from the start of the file, which is not truncated  *)
(* again: over what another call has written since, its end may remain.    *)
(***************************************************************************)
Write(w) ==
  /\ Up
  /\ writer[w].at = "opened"
  /\ \E c \in {writer[w].content} \cup (IF disk[writer[w].path] = Torn THEN {} ELSE {Mixed}) :
        Store(writer[w].path, c)
  /\ writer' = [writer EXCEPT ![w].at = "written"]
  /\ UNCHANGED early
  /\ UNCHANGED <<phase, changes, deletions, loadVars, servedVars>>

\* The disk is full: writeFile rejects, the call fails, the file stays truncated.
WriteFails(w) ==
  /\ Up
  /\ writer[w].at = "opened"
  /\ writer' = [writer EXCEPT ![w] = Idle]
  /\ early' = [early EXCEPT ![w] = 0]
  /\ UNCHANGED <<phase, diskVars, loadVars, servedVars, watchVars>>

ApplyWrite(w) ==
  /\ Up
  /\ writer[w].at = "written"
  /\ Fold([notes EXCEPT ![writer[w].path] = writer[w].content])
  /\ writer' = [writer EXCEPT ![w] = Idle]
  /\ early' = [early EXCEPT ![w] = 0]
  /\ UNCHANGED <<phase, diskVars, loadVars, watchVars>>
-----------------------------------------------------------------------------
(***************************************************************************)
(* The watch, as composed: an onChange call is a reload.  PromptWrites     *)
(* says that a debounce outlasts a write: a timeout armed once a call has  *)
(* opened its file does not run out before that call has ended.  Those     *)
(* armed earlier, by a change of any file, run out whenever they do, and a *)
(* reload may begin in the middle of a write.                              *)
(***************************************************************************)
Report(p) ==
  /\ Up
  /\ Deliver(p)
  /\ early' = Cleared
  /\ UNCHANGED <<phase, diskVars, writer, loadVars, servedVars>>

DebounceEnds ==
  /\ Up
  /\ PromptWrites => \A w \in Busy : early[w] > 0
  /\ TimerFires \/ OrphanFires
  /\ early' = [w \in Writers |-> IF early[w] > 0 THEN early[w] - 1 ELSE 0]
  /\ load' = IF running' /\ ~running THEN "listing" ELSE load
  /\ UNCHANGED <<phase, diskVars, writer, todo, got, servedVars>>

(***************************************************************************)
(* `loadVault`: the directory is listed, then every file is read, each at  *)
(* its own moment, whatever happens to the files in between.               *)
(***************************************************************************)
ListFiles ==
  /\ Up
  /\ load = "listing"
  /\ load' = "reading"
  /\ todo' = Listed(disk)
  /\ got' = Empty
  /\ UNCHANGED <<phase, diskVars, callVars, servedVars, watchVars>>

ReadFile(p) ==
  /\ Up
  /\ p \in todo
  /\ disk[p] # Absent
  /\ todo' = todo \ {p}
  /\ got' = [got EXCEPT ![p] = disk[p]]
  /\ UNCHANGED <<phase, diskVars, callVars, load, servedVars, watchVars>>

\* The call has settled; a flush that came meanwhile begins the next one.
EndReload ==
  /\ Settle
  /\ load' = IF running' THEN "listing" ELSE "idle"
  /\ todo' = {}
  /\ got' = Empty

\* Mutant of ReloadNow: only notes that came or went count as a change.
ReloadNowByName ==
  /\ Up
  /\ load = "reading"
  /\ todo = {}
  /\ IF Listed(got) = Listed(notes) THEN UNCHANGED servedVars ELSE Fold(got)
  /\ EndReload
  /\ UNCHANGED <<phase, diskVars, callVars>>

(***************************************************************************)
(* The rest of `reloadNow`, with no await in it: nothing to do when every  *)
(* note is as it was, else the served notes become what was read.          *)
(***************************************************************************)
ReloadNow ==
  /\ Up
  /\ load = "reading"
  /\ todo = {}
  /\ IF got = notes THEN UNCHANGED servedVars ELSE Fold(got)
  /\ EndReload
  /\ UNCHANGED <<phase, diskVars, callVars>>

(***************************************************************************)
(* A listed file is gone when it is read: loadVault rejects.  The watcher  *)
(* logs it and carries on, but `reloading` is a second promise that        *)
(* rejects with the same reason (context.ts:338), and only a reload begun  *)
(* at once would handle it: otherwise node ends the process.               *)
(***************************************************************************)
ReloadRejects ==
  /\ Up
  /\ \E p \in todo : disk[p] = Absent
  /\ EndReload
  /\ phase' = CASE running' -> phase
               [] ~running' /\ phase = "serving" -> "down"
               [] ~running' /\ phase = "closing" -> "stopped"
  /\ UNCHANGED <<diskVars, callVars, servedVars>>
-----------------------------------------------------------------------------
\* The warmup, the passes and the views, while the process lives.
Refresh ==
  /\ Up
  /\ Warmup \/ Pass
  /\ UNCHANGED <<phase, diskVars, callVars, loadVars, watchVars>>

Ask(s) ==
  /\ Up
  /\ BuildView(s)
  /\ UNCHANGED <<phase, diskVars, callVars, loadVars, watchVars>>

Lifecycle == StartWatching \/ Restart \/ Start \/ Shutdown \/ Exit \/ Killed

Others == \E p \in Paths : Edit(p) \/ Delete(p)

ToolCall(w) == (\E p \in Paths : Open(w, p)) \/ Write(w) \/ WriteFails(w) \/ ApplyWrite(w)

Watching == (\E p \in Paths : Report(p)) \/ DebounceEnds

Reload == ListFiles \/ (\E p \in Paths : ReadFile(p)) \/ ReloadNow \/ ReloadRejects

Next ==
  \/ Lifecycle
  \/ Others
  \/ \E w \in Writers : ToolCall(w)
  \/ Watching
  \/ Reload
  \/ Refresh
  \/ \E s \in Scopes : Ask(s)

Safety == Init /\ [][Next]_vars

(***************************************************************************)
(* The event loop runs what is ready and the file system answers; a write  *)
(* that has begun ends; systemd starts again a process that failed.  Nobody*)
(* is obliged to edit, call, stop or start after a stop.  That a           *)
(* timeout runs out is fair only because changes are finitely many: under  *)
(* edits that never pause for 400 ms it is re-armed for ever.              *)
(***************************************************************************)
Fairness ==
  /\ WF_vars(StartWatching)
  /\ WF_vars(Restart)
  /\ WF_vars(Exit)
  /\ \A w \in Writers : WF_vars(Write(w) \/ WriteFails(w) \/ ApplyWrite(w))
  /\ WF_vars(Watching)
  /\ WF_vars(Reload)
  /\ WF_vars(Refresh)

Spec == Safety /\ Fairness
-----------------------------------------------------------------------------
\* Nothing under way that could still change what is served.
Quiet ==
  /\ phase = "serving"
  /\ events = {} /\ ~Armed
  /\ ~running
  /\ Busy = {}

(***************************************************************************)
(* When the watch is quiet the vault is served as it stands on disk.  A    *)
(* reload may have read a file half written, or read it before a tool call *)
(* wrote it and folded it in after; an editor may have changed what a call *)
(* was about to apply.  Each leaves something armed that puts it right,    *)
(* provided a debounce outlasts a write and no file changes between the    *)
(* first load and the watch.                                               *)
(***************************************************************************)
QuietMeansServed == Quiet => notes = disk

(***************************************************************************)
(* Every change is served in the end, through crashes, failed reloads and  *)
(* restarts, unless the server was stopped and left so (watch.ts:8-11, "a  *)
(* note written this morning must be findable this morning").  Provided a  *)
(* debounce outlasts a write, PromptWrites, and no file changes between    *)
(* the first load and the watch, ~StartupEdits.                            *)
(***************************************************************************)
EventuallyServed == <>[](phase = "stopped" \/ (phase = "serving" /\ notes = disk))

(***************************************************************************)
(* And found by meaning, under the same provisos: the dense index ends up  *)
(* built from the vault as it stands on disk, unless the model failed for  *)
(* good or on the last pass, or the server was stopped and left so.        *)
(***************************************************************************)
EventuallySemantic ==
  <>[]\/ phase = "stopped"
      \/ warmup \in {"off", "failed"} \/ lapsed
      \/ warmup = "ready" /\ dense = disk

(***************************************************************************)
(* A reload that fails is a line in the log (watch.ts:71), and a push to   *)
(* the vault, whose checkout deletes files, needs no restart               *)
(* (deploy/hooks/post-receive:5-7): the end of a reload never takes the    *)
(* server down.                                                            *)
(***************************************************************************)
ReloadsAreSurvived ==
  [][phase = "serving" /\ load = "reading" /\ load' = "idle" => phase' = "serving"]_vars
=============================================================================
