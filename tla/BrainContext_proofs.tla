-------------------------- MODULE BrainContext_proofs --------------------------
(***************************************************************************)
(* For any paths, calls, contents and bounds: what is served is the vault  *)
(* on disk whenever the watch is quiet, and the indexes and views of       *)
(* ServedNotes are never silently behind.                                  *)
(***************************************************************************)
EXTENDS BrainContext, TLAPS

-----------------------------------------------------------------------------
(* The served notes, on their own. *)

\* What the warmup knows of the notes it is embedding.
WarmupInv ==
  /\ seen <= generation
  /\ warmup \in {"off", "loading", "scanning", "failed"} => embedding = NoIndex
  /\ warmup = "embedding" => embedding \in Notes
  /\ warmup = "embedding" /\ seen = generation => embedding = notes

\* A pass the notes have moved on from has another behind it; a failed one
\* leaves nothing queued and nothing running.
PassInv ==
  /\ warmup = "ready" /\ embedding # NoIndex /\ embedding # notes => queued
  /\ lapsed => ~queued /\ embedding = NoIndex

\* No view is from the future.
ViewsInv == \A s \in Scopes : views[s].version <= version

ServedInv ==
  /\ ServedTypeOK
  /\ PassesAfterWarmup
  /\ WarmupInv
  /\ PassInv
  /\ ViewsInv
  /\ DenseNotForgotten
  /\ ViewsAreCurrent

USE NoIndexAssumption, DenseAssumption, ContentsAssumption

LEMMA EmptyIsNotes == Empty \in Notes
BY DEF Empty, Notes

LEMMA NoViewsTyped == NoViews \in [Scopes -> View]
BY EmptyIsNotes DEF NoViews, NoView, View, Indexes

LEMMA AsleepIsStage == Asleep \in WarmupStages
BY Zenon DEF Asleep, WarmupStages

\* A process starts with the invariant, whatever vault it reads.
LEMMA ServedInitially == ServedInit => ServedInv
<1> SUFFICES ASSUME ServedInit PROVE ServedInv
  OBVIOUS
<1>1. ServedTypeOK
  <2>1. notes \in Notes /\ generation \in Nat /\ seen \in Nat /\ boots \in Nat
    BY DEF ServedInit
  <2>2. version \in Nat /\ version > 0
    BY DEF ServedInit
  <2>3. warmup \in WarmupStages /\ views \in [Scopes -> View]
    BY NoViewsTyped, AsleepIsStage DEF ServedInit
  <2>4. embedding \in Indexes /\ dense \in Indexes
    BY DEF ServedInit, Indexes
  <2>5. queued \in BOOLEAN /\ lapsed \in BOOLEAN
    BY DEF ServedInit
  <2> QED BY <2>1, <2>2, <2>3, <2>4, <2>5 DEF ServedTypeOK
<1>2. PassesAfterWarmup /\ WarmupInv /\ PassInv
  BY DEF ServedInit, PassesAfterWarmup, WarmupInv, PassInv, Asleep
<1>3. ViewsInv /\ ViewsAreCurrent
  BY DEF ServedInit, ViewsInv, ViewsAreCurrent, NoViews, NoView
<1>4. DenseNotForgotten
  BY DEF ServedInit, DenseNotForgotten, Asleep
<1> QED BY <1>1, <1>2, <1>3, <1>4 DEF ServedInv

LEMMA BootKeeps ==
  ASSUME ServedInv, NEW v \in Notes, Boot(v)
  PROVE  ServedInv'
<1>1. ServedTypeOK'
  <2>1. notes' \in Notes /\ generation' \in Nat /\ seen' \in Nat /\ boots' \in Nat
    BY DEF Boot, ServedInv, ServedTypeOK
  <2>2. version' \in Nat /\ version' > 0
    BY DEF Boot, ServedInv, ServedTypeOK
  <2>3. warmup' \in WarmupStages /\ views' \in [Scopes -> View]
    BY NoViewsTyped, AsleepIsStage DEF Boot, ServedInv, ServedTypeOK
  <2>4. embedding' \in Indexes /\ dense' \in Indexes
    BY DEF Boot, ServedInv, ServedTypeOK, Indexes
  <2>5. queued' \in BOOLEAN /\ lapsed' \in BOOLEAN
    BY DEF Boot, ServedInv, ServedTypeOK
  <2> QED BY <2>1, <2>2, <2>3, <2>4, <2>5 DEF ServedTypeOK
<1>2. PassesAfterWarmup' /\ WarmupInv' /\ PassInv'
  BY DEF Boot, PassesAfterWarmup, WarmupInv, PassInv, Asleep
<1>3. ViewsInv' /\ ViewsAreCurrent'
  BY DEF Boot, ViewsInv, ViewsAreCurrent, NoViews, NoView
<1>4. DenseNotForgotten'
  BY DEF Boot, DenseNotForgotten, Asleep
<1> QED BY <1>1, <1>2, <1>3, <1>4 DEF ServedInv

LEMMA FoldKeeps ==
  ASSUME ServedInv, NEW v \in Notes, Fold(v)
  PROVE  ServedInv'
<1> USE DEF ServedInv, Fold, ReindexDense
<1>1. ServedTypeOK'
  <2>1. notes' \in Notes /\ generation' \in Nat /\ seen' \in Nat /\ boots' \in Nat
    BY DEF ServedTypeOK
  <2>2. version' \in Nat /\ version' > 0
    BY DEF ServedTypeOK
  <2>3. warmup' \in WarmupStages /\ views' \in [Scopes -> View]
    BY DEF ServedTypeOK
  <2>4. embedding' \in Indexes /\ dense' \in Indexes
    BY DEF ServedTypeOK, Indexes
  <2>5. queued' \in BOOLEAN /\ lapsed' \in BOOLEAN
    BY DEF ServedTypeOK
  <2> QED BY <2>1, <2>2, <2>3, <2>4, <2>5 DEF ServedTypeOK
<1>2. PassesAfterWarmup' /\ PassInv'
  BY DEF PassesAfterWarmup, PassInv
<1>3. WarmupInv'
  BY DEF WarmupInv, ServedTypeOK
<1>4. ViewsInv' /\ ViewsAreCurrent'
  BY DEF ViewsInv, ViewsAreCurrent, ServedTypeOK, View
<1>5. DenseNotForgotten'
  BY DEF DenseNotForgotten
<1> QED BY <1>1, <1>2, <1>3, <1>4, <1>5

LEMMA PassKeeps ==
  ASSUME ServedInv, Pass
  PROVE  ServedInv'
<1> USE DEF ServedInv
<1>1. CASE PassStarts
  <2> USE <1>1 DEF PassStarts
  <2>1. warmup = "ready"
    BY DEF PassesAfterWarmup
  <2>2. ServedTypeOK'
    BY DEF ServedTypeOK, Indexes
  <2>3. PassesAfterWarmup' /\ WarmupInv' /\ PassInv' /\ DenseNotForgotten'
    BY <2>1 DEF PassesAfterWarmup, WarmupInv, PassInv, DenseNotForgotten
  <2>4. ViewsInv' /\ ViewsAreCurrent'
    BY DEF ViewsInv, ViewsAreCurrent
  <2> QED BY <2>2, <2>3, <2>4
<1>2. CASE PassLands
  <2> USE <1>2 DEF PassLands
  <2>1. ServedTypeOK'
    BY DEF ServedTypeOK, Indexes
  <2>2. PassesAfterWarmup' /\ WarmupInv' /\ PassInv'
    BY DEF PassesAfterWarmup, WarmupInv, PassInv
  <2>3. DenseNotForgotten'
    BY DEF DenseNotForgotten, PassInv
  <2>4. ViewsInv' /\ ViewsAreCurrent'
    BY DEF ViewsInv, ViewsAreCurrent, ServedTypeOK, View
  <2> QED BY <2>1, <2>2, <2>3, <2>4
<1>3. CASE PassFails
  <2> USE <1>3 DEF PassFails
  <2>1. ServedTypeOK'
    BY DEF ServedTypeOK, Indexes
  <2>2. PassesAfterWarmup' /\ WarmupInv' /\ PassInv' /\ DenseNotForgotten'
    BY DEF PassesAfterWarmup, WarmupInv, PassInv, DenseNotForgotten
  <2>3. ViewsInv' /\ ViewsAreCurrent'
    BY DEF ViewsInv, ViewsAreCurrent
  <2> QED BY <2>1, <2>2, <2>3
<1> QED BY <1>1, <1>2, <1>3 DEF Pass

LEMMA WarmupKeeps ==
  ASSUME ServedInv, Warmup
  PROVE  ServedInv'
<1> USE DEF ServedInv
<1>1. CASE ModelLoaded
  <2> USE <1>1 DEF ModelLoaded
  <2>1. ServedTypeOK' /\ WarmupInv'
    BY DEF ServedTypeOK, WarmupStages, WarmupInv
  <2>2. PassesAfterWarmup' /\ PassInv' /\ DenseNotForgotten'
    BY DEF PassesAfterWarmup, PassInv, DenseNotForgotten
  <2>3. ViewsInv' /\ ViewsAreCurrent'
    BY DEF ViewsInv, ViewsAreCurrent
  <2> QED BY <2>1, <2>2, <2>3
<1>2. CASE WarmupScans
  <2> USE <1>2 DEF WarmupScans
  <2>1. ServedTypeOK' /\ WarmupInv'
    BY DEF ServedTypeOK, WarmupStages, WarmupInv, Indexes
  <2>2. PassesAfterWarmup' /\ PassInv' /\ DenseNotForgotten'
    BY DEF PassesAfterWarmup, PassInv, DenseNotForgotten
  <2>3. ViewsInv' /\ ViewsAreCurrent'
    BY DEF ViewsInv, ViewsAreCurrent
  <2> QED BY <2>1, <2>2, <2>3
<1>3. CASE WarmupGoesAgain
  <2> USE <1>3 DEF WarmupGoesAgain
  <2>1. ServedTypeOK' /\ WarmupInv'
    BY DEF ServedTypeOK, WarmupStages, WarmupInv, Indexes
  <2>2. PassesAfterWarmup' /\ PassInv' /\ DenseNotForgotten'
    BY DEF PassesAfterWarmup, PassInv, DenseNotForgotten
  <2>3. ViewsInv' /\ ViewsAreCurrent'
    BY DEF ViewsInv, ViewsAreCurrent
  <2> QED BY <2>1, <2>2, <2>3
<1>4. CASE WarmupInstalls
  <2> USE <1>4 DEF WarmupInstalls
  <2>1. embedding = notes
    BY DEF WarmupInv
  <2>2. ServedTypeOK' /\ WarmupInv'
    BY DEF ServedTypeOK, WarmupStages, WarmupInv, Indexes
  <2>3. PassesAfterWarmup' /\ PassInv' /\ DenseNotForgotten'
    BY <2>1 DEF PassesAfterWarmup, PassInv, DenseNotForgotten
  <2>4. ViewsInv' /\ ViewsAreCurrent'
    BY DEF ViewsInv, ViewsAreCurrent, ServedTypeOK, View
  <2> QED BY <2>2, <2>3, <2>4
<1>5. CASE WarmupFails
  <2> USE <1>5 DEF WarmupFails
  <2>1. ServedTypeOK' /\ WarmupInv'
    BY DEF ServedTypeOK, WarmupStages, WarmupInv, Indexes
  <2>2. PassesAfterWarmup' /\ PassInv' /\ DenseNotForgotten'
    BY DEF PassesAfterWarmup, PassInv, DenseNotForgotten
  <2>3. ViewsInv' /\ ViewsAreCurrent'
    BY DEF ViewsInv, ViewsAreCurrent
  <2> QED BY <2>1, <2>2, <2>3
<1> QED BY <1>1, <1>2, <1>3, <1>4, <1>5 DEF Warmup

LEMMA BuildViewKeeps ==
  ASSUME ServedInv, NEW s \in Scopes, BuildView(s)
  PROVE  ServedInv'
<1> USE DEF ServedInv, BuildView
<1>1. ServedTypeOK'
  BY DEF ServedTypeOK, View
<1>2. PassesAfterWarmup' /\ WarmupInv' /\ PassInv' /\ DenseNotForgotten'
  BY DEF PassesAfterWarmup, WarmupInv, PassInv, DenseNotForgotten
<1>3. ViewsInv' /\ ViewsAreCurrent'
  BY DEF ViewsInv, ViewsAreCurrent, ServedTypeOK, View
<1> QED BY <1>1, <1>2, <1>3

LEMMA ServedUnchanged ==
  ASSUME ServedInv, UNCHANGED servedVars
  PROVE  ServedInv'
BY DEF ServedInv, servedVars, ServedTypeOK, PassesAfterWarmup, WarmupInv, PassInv,
       ViewsInv, DenseNotForgotten, ViewsAreCurrent

LEMMA ServedStep == ServedInv /\ [ServedNext]_servedVars => ServedInv'
BY BootKeeps, FoldKeeps, PassKeeps, WarmupKeeps, BuildViewKeeps, ServedUnchanged DEF ServedNext

(***************************************************************************)
(* Whatever folds, passes, failures and restarts happen in whatever order, *)
(* a stale dense index has a pass coming or a failure to show for it, and  *)
(* a view that passes for current is current.                              *)
(***************************************************************************)
THEOREM ServedCorrect == ServedSpec => [](DenseNotForgotten /\ ViewsAreCurrent)
<1>1. ServedInv => DenseNotForgotten /\ ViewsAreCurrent
  BY DEF ServedInv
<1> QED BY <1>1, ServedInitially, ServedStep, PTL DEF ServedSpec

USE ChangesAssumption, SwitchesAssumption

-----------------------------------------------------------------------------
(* The watch, on its own. *)

WatchInv == WatchTypeOK /\ AgainHasReader /\ NoEventForgotten

LEMMA WatchInitially == WatchInit => WatchInv
<1> SUFFICES ASSUME WatchInit PROVE WatchInv
  OBVIOUS
<1>1. WatchTypeOK
  BY DEF WatchInit, WatchTypeOK
<1>2. AgainHasReader
  BY DEF WatchInit, AgainHasReader
<1>3. NoEventForgotten
  BY DEF WatchInit, NoEventForgotten
<1> QED BY <1>1, <1>2, <1>3 DEF WatchInv

LEMMA WatchAnewKeeps == ASSUME WatchAnew PROVE WatchInv'
<1>1. WatchTypeOK'
  BY DEF WatchAnew, WatchTypeOK
<1>2. AgainHasReader'
  BY DEF WatchAnew, AgainHasReader
<1>3. NoEventForgotten'
  BY DEF WatchAnew, NoEventForgotten
<1> QED BY <1>1, <1>2, <1>3 DEF WatchInv

LEMMA TimerFiresKeeps ==
  ASSUME WatchInv, TimerFires
  PROVE  WatchInv'
<1> USE DEF WatchInv, TimerFires, Flush
<1>1. WatchTypeOK'
  <2>1. events' \in SUBSET Paths /\ pending' \in SUBSET Paths
    BY DEF WatchTypeOK
  <2>2. orphans' \in Nat
    BY DEF WatchTypeOK
  <2>3. timer' \in BOOLEAN /\ running' \in BOOLEAN
    BY DEF WatchTypeOK
  <2>4. again' \in BOOLEAN /\ closed' \in BOOLEAN
    BY DEF WatchTypeOK
  <2> QED BY <2>1, <2>2, <2>3, <2>4 DEF WatchTypeOK
<1>2. AgainHasReader'
  <2>1. CASE closed
    <3>1. again' = again /\ running' = running
      BY <2>1
    <3> QED BY <3>1 DEF AgainHasReader
  <2>2. CASE ~closed /\ running
    <3>1. running' = running
      BY <2>2
    <3> QED BY <2>2, <3>1 DEF AgainHasReader
  <2>3. CASE ~closed /\ ~running
    BY <2>3 DEF AgainHasReader
  <2> QED BY <2>1, <2>2, <2>3
<1>3. NoEventForgotten'
  BY DEF NoEventForgotten
<1> QED BY <1>1, <1>2, <1>3

LEMMA OrphanFiresKeeps ==
  ASSUME WatchInv, OrphanFires
  PROVE  WatchInv'
<1> USE DEF WatchInv, OrphanFires, Flush
<1>1. WatchTypeOK'
  <2>1. events' \in SUBSET Paths /\ pending' \in SUBSET Paths
    BY DEF WatchTypeOK
  <2>2. orphans' \in Nat
    BY DEF WatchTypeOK
  <2>3. timer' \in BOOLEAN /\ running' \in BOOLEAN
    BY DEF WatchTypeOK
  <2>4. again' \in BOOLEAN /\ closed' \in BOOLEAN
    BY DEF WatchTypeOK
  <2> QED BY <2>1, <2>2, <2>3, <2>4 DEF WatchTypeOK
<1>2. AgainHasReader'
  <2>1. CASE closed
    <3>1. again' = again /\ running' = running
      BY <2>1
    <3> QED BY <3>1 DEF AgainHasReader
  <2>2. CASE ~closed /\ running
    <3>1. running' = running
      BY <2>2
    <3> QED BY <2>2, <3>1 DEF AgainHasReader
  <2>3. CASE ~closed /\ ~running
    BY <2>3 DEF AgainHasReader
  <2> QED BY <2>1, <2>2, <2>3
<1>3. NoEventForgotten'
  BY DEF NoEventForgotten
<1> QED BY <1>1, <1>2, <1>3

LEMMA SettleKeeps ==
  ASSUME WatchInv, Settle
  PROVE  WatchInv'
<1> USE DEF WatchInv, Settle
<1>1. WatchTypeOK'
  <2>1. events' \in SUBSET Paths /\ pending' \in SUBSET Paths
    BY DEF WatchTypeOK
  <2>2. orphans' \in Nat
    BY DEF WatchTypeOK
  <2>3. timer' \in BOOLEAN /\ running' \in BOOLEAN
    BY DEF WatchTypeOK
  <2>4. again' \in BOOLEAN /\ closed' \in BOOLEAN
    BY DEF WatchTypeOK
  <2> QED BY <2>1, <2>2, <2>3, <2>4 DEF WatchTypeOK
<1>2. AgainHasReader'
  BY DEF AgainHasReader, WatchTypeOK
<1>3. NoEventForgotten'
  BY DEF NoEventForgotten, Armed, AgainHasReader
<1> QED BY <1>1, <1>2, <1>3

LEMMA WatchStep == WatchInv /\ [WatchNext]_watchVars => WatchInv'
<1> SUFFICES ASSUME WatchInv, [WatchNext]_watchVars PROVE WatchInv'
  OBVIOUS
<1> USE DEF WatchInv, WatchTypeOK, AgainHasReader, NoEventForgotten, Armed
<1>1. ASSUME NEW p \in Paths, Changed(p), UNCHANGED <<pending, timer, orphans, running, again, closed>>
      PROVE WatchInv'
  BY <1>1 DEF Changed
<1>2. ASSUME NEW p \in Paths, Deliver(p) PROVE WatchInv'
  BY <1>2 DEF Deliver
<1>3. CASE Close
  BY <1>3 DEF Close
<1>4. CASE UNCHANGED watchVars
  BY <1>4 DEF watchVars
<1> QED BY <1>1, <1>2, <1>3, <1>4, TimerFiresKeeps, OrphanFiresKeeps, SettleKeeps,
           WatchAnewKeeps DEF WatchNext
-----------------------------------------------------------------------------
(* The composition. *)

\* A change at p that the served notes do not show yet will be looked into:
\* it is unreported, or a timeout is counting, or the reload will go again.
Hot(p) == p \in events \/ Armed \/ again

\* A reload is what an onChange call is, and nothing happens before the watch.
ControlInv ==
  /\ running <=> load # "idle"
  /\ phase \in {"opening", "serving"} => ~closed
  /\ phase = "opening" => load = "idle" /\ Busy = {} /\ notes = disk

\* A write under way has yet to be reported, or a timeout has been armed since
\* it began and has not run out.
Ahead(w) == writer[w].path \in events \/ Timeouts > early[w]

BusyInv == phase = "serving" => \A w \in Busy : Ahead(w)

\* A file that is not what the reload read, or is not what is served, is hot.
ReadInv ==
  phase = "serving" /\ load = "reading" =>
    \A p \in Paths \ todo : got[p] # disk[p] => Hot(p)

FreshInv ==
  phase = "serving" /\ load = "idle" => \A p \in Paths : notes[p] # disk[p] => Hot(p)

FreshnessInv ==
  /\ ControlInv
  /\ BusyInv
  /\ ReadInv
  /\ FreshInv

BrainInv ==
  /\ OwnTypeOK
  /\ ServedInv
  /\ WatchInv

LEMMA WriterTyped ==
  ASSUME OwnTypeOK, NEW w \in Writers, writer[w].at # "idle"
  PROVE  writer[w] \in Writing /\ writer[w].path \in Paths /\ writer[w].content \in Contents
<1>1. writer[w] \in {Idle} \cup Writing
  BY DEF OwnTypeOK
<1>2. writer[w] # Idle
  BY DEF Idle
<1>3. writer[w] \in Writing
  BY <1>1, <1>2
<1> QED BY <1>3 DEF Writing

\* Every step of the system is a step of the served state, or leaves it alone.
LEMMA ServedLift == OwnTypeOK /\ ServedInv /\ [Next]_vars => [ServedNext]_servedVars
<1> SUFFICES ASSUME OwnTypeOK, ServedInv, [Next]_vars PROVE [ServedNext]_servedVars
  OBVIOUS
<1> USE DEF ServedNext
<1>1. CASE Lifecycle
  BY <1>1 DEF Lifecycle, StartWatching, Restart, Start, Starts, Shutdown, Exit, Killed, OwnTypeOK
<1>2. CASE Others
  BY <1>2 DEF Others, Edit, Delete
<1>3. ASSUME NEW w \in Writers, ToolCall(w) PROVE [ServedNext]_servedVars
  <2>1. ASSUME ApplyWrite(w) PROVE ServedNext
    <3>1. [notes EXCEPT ![writer[w].path] = writer[w].content] \in Notes
      BY <2>1, WriterTyped DEF ApplyWrite, ServedInv, ServedTypeOK, Notes
    <3> QED BY <2>1, <3>1 DEF ApplyWrite
  <2> QED BY <1>3, <2>1 DEF ToolCall, Open, Write, WriteFails
<1>4. CASE Watching
  BY <1>4 DEF Watching, Report, DebounceEnds
<1>5. CASE Reload
  <2>1. CASE ReloadNow
    BY <2>1 DEF ReloadNow, OwnTypeOK
  <2> QED BY <1>5, <2>1 DEF Reload, ListFiles, ReadFile, ReloadRejects
<1>6. CASE Refresh
  BY <1>6 DEF Refresh
<1>7. ASSUME NEW s \in Scopes, Ask(s) PROVE [ServedNext]_servedVars
  BY <1>7 DEF Ask
<1>8. CASE UNCHANGED vars
  BY <1>8 DEF vars
<1> QED BY <1>1, <1>2, <1>3, <1>4, <1>5, <1>6, <1>7, <1>8 DEF Next

\* And a step of the watch, or leaves it alone.
LEMMA WatchLift == OwnTypeOK /\ WatchInv /\ [Next]_vars => [WatchNext]_watchVars
<1> SUFFICES ASSUME OwnTypeOK, WatchInv, [Next]_vars PROVE [WatchNext]_watchVars
  OBVIOUS
<1> USE DEF WatchNext
<1>0. ASSUME NEW p \in Paths, NEW c, Store(p, c) PROVE [WatchNext]_watchVars
  BY <1>0 DEF Store, Touch, watchVars
<1>1. CASE Lifecycle
  BY <1>1 DEF Lifecycle, StartWatching, Restart, Start, Starts, Shutdown, Exit, Killed
<1>2. CASE Others
  BY <1>0, <1>2 DEF Others, Edit, Delete
<1>3. ASSUME NEW w \in Writers, ToolCall(w) PROVE [WatchNext]_watchVars
  <2>1. ASSUME Write(w) PROVE [WatchNext]_watchVars
    BY <1>0, <2>1, WriterTyped DEF Write
  <2> QED BY <1>0, <1>3, <2>1 DEF ToolCall, Open, WriteFails, ApplyWrite
<1>4. CASE Watching
  BY <1>4 DEF Watching, Report, DebounceEnds
<1>5. CASE Reload
  BY <1>5 DEF Reload, ListFiles, ReadFile, ReloadNow, ReloadRejects, EndReload
<1>6. CASE Refresh
  BY <1>6 DEF Refresh
<1>7. ASSUME NEW s \in Scopes, Ask(s) PROVE [WatchNext]_watchVars
  BY <1>7 DEF Ask
<1>8. CASE UNCHANGED vars
  BY <1>8 DEF vars
<1> QED BY <1>1, <1>2, <1>3, <1>4, <1>5, <1>6, <1>7, <1>8 DEF Next
-----------------------------------------------------------------------------
(* Types. *)

LEMMA OwnTypeInitially == Init => OwnTypeOK
<1> SUFFICES ASSUME Init PROVE OwnTypeOK
  OBVIOUS
<1>1. phase \in {"opening", "serving", "closing", "down", "stopped"} /\ load \in {"idle", "listing", "reading"}
  BY DEF Init
<1>2. disk \in Notes /\ todo \in SUBSET Paths /\ got \in Notes
  BY EmptyIsNotes DEF Init, ServedInit
<1>3. changes \in 0 .. MaxChanges /\ deletions \in 0 .. MaxDeletions
  BY DEF Init
<1>4. writer \in [Writers -> {Idle} \cup Writing] /\ early \in [Writers -> Nat]
  BY DEF Init, NoneEarly
<1> QED BY <1>1, <1>2, <1>3, <1>4 DEF OwnTypeOK

LEMMA StoreTyped ==
  ASSUME OwnTypeOK, NEW p \in Paths, NEW c \in Contents \cup {Absent}, Store(p, c)
  PROVE  disk' \in Notes
BY DEF OwnTypeOK, Notes, Store

LEMMA TimeoutsTyped == WatchInv => Timeouts \in Nat
BY DEF WatchInv, WatchTypeOK, Timeouts

LEMMA ClearedTyped ==
  ASSUME OwnTypeOK, WatchInv
  PROVE  Cleared \in [Writers -> Nat]
BY DEF OwnTypeOK, WatchInv, WatchTypeOK, Cleared

LEMMA OwnTypeStep == OwnTypeOK /\ ServedInv /\ WatchInv /\ [Next]_vars => OwnTypeOK'
<1> SUFFICES ASSUME OwnTypeOK, ServedInv, WatchInv, [Next]_vars PROVE OwnTypeOK'
  OBVIOUS
<1> USE DEF OwnTypeOK
<1>1. CASE Lifecycle
  <2>1. CASE Restart \/ Start
    <3>1. writer' \in [Writers -> {Idle} \cup Writing] /\ early' \in [Writers -> Nat]
      BY <2>1 DEF Restart, Start, Starts, NoneEarly
    <3> QED BY <2>1, <3>1, EmptyIsNotes DEF Restart, Start, Starts, diskVars
  <2>2. CASE Shutdown
    <3>1. early' \in [Writers -> Nat]
      BY <2>2, ClearedTyped DEF Shutdown
    <3> QED BY <2>2, <3>1 DEF Shutdown, diskVars, loadVars
  <2> QED BY <1>1, <2>1, <2>2
          DEF Lifecycle, StartWatching, Exit, Killed, diskVars, callVars, loadVars
<1>2. CASE Others
  <2>1. ASSUME NEW p \in Paths, Edit(p) PROVE OwnTypeOK'
    <3>1. changes + 1 \in Contents /\ changes' \in 0 .. MaxChanges
      BY <2>1 DEF Edit
    <3>2. disk' \in Notes
      BY <2>1, <3>1, StoreTyped DEF Edit
    <3> QED BY <2>1, <3>1, <3>2 DEF Edit, callVars, loadVars
  <2>2. ASSUME NEW p \in Paths, Delete(p) PROVE OwnTypeOK'
    <3>1. disk' \in Notes
      BY <2>2, StoreTyped DEF Delete
    <3> QED BY <2>2, <3>1 DEF Delete, callVars, loadVars
  <2> QED BY <1>2, <2>1, <2>2 DEF Others
<1>3. ASSUME NEW w \in Writers, ToolCall(w) PROVE OwnTypeOK'
  <2>1. ASSUME NEW p \in Paths, Open(w, p) PROVE OwnTypeOK'
    <3>1. changes + 1 \in Contents /\ changes' \in 0 .. MaxChanges
      BY <2>1 DEF Open
    <3>2. disk' \in Notes
      BY <2>1, StoreTyped DEF Open
    <3>3. [at |-> "opened", path |-> p, content |-> changes + 1] \in Writing
      BY <3>1 DEF Writing
    <3>4. writer' \in [Writers -> {Idle} \cup Writing]
      BY <2>1, <3>3 DEF Open
    <3>5. early' \in [Writers -> Nat]
      BY <2>1, TimeoutsTyped DEF Open
    <3> QED BY <2>1, <3>1, <3>2, <3>4, <3>5 DEF Open, loadVars
  <2>2. CASE Write(w)
    <3>1. writer[w] \in Writing /\ writer[w].path \in Paths /\ writer[w].content \in Contents
      BY <2>2, WriterTyped DEF Write
    <3>2. disk' \in Notes
      <4>1. PICK c \in Contents : Store(writer[w].path, c)
        BY <2>2, <3>1 DEF Write
      <4> QED BY <3>1, <4>1, StoreTyped
    <3>3. [writer[w] EXCEPT !.at = "written"] \in Writing
      BY <3>1 DEF Writing
    <3>4. writer' \in [Writers -> {Idle} \cup Writing]
      BY <2>2, <3>3 DEF Write
    <3> QED BY <2>2, <3>2, <3>4 DEF Write, loadVars
  <2>3. CASE WriteFails(w) \/ ApplyWrite(w)
    <3>1. writer' \in [Writers -> {Idle} \cup Writing] /\ early' \in [Writers -> Nat]
      BY <2>3 DEF WriteFails, ApplyWrite
    <3> QED BY <2>3, <3>1 DEF WriteFails, ApplyWrite, diskVars, loadVars
  <2> QED BY <1>3, <2>1, <2>2, <2>3 DEF ToolCall
<1>4. CASE Watching
  <2>1. CASE \E p \in Paths : Report(p)
    <3>1. early' \in [Writers -> Nat]
      BY <2>1, ClearedTyped DEF Report
    <3> QED BY <2>1, <3>1 DEF Report, diskVars, loadVars
  <2>2. CASE DebounceEnds
    <3>1. early' \in [Writers -> Nat]
      BY <2>2 DEF DebounceEnds
    <3> QED BY <2>2, <3>1 DEF DebounceEnds, diskVars
  <2> QED BY <1>4, <2>1, <2>2 DEF Watching
<1>5. CASE Reload
  <2>1. CASE ListFiles
    BY <2>1, EmptyIsNotes DEF ListFiles, diskVars, callVars, Listed
  <2>2. ASSUME NEW p \in Paths, ReadFile(p) PROVE OwnTypeOK'
    <3>1. got' \in Notes
      BY <2>2 DEF ReadFile, Notes
    <3> QED BY <2>2, <3>1 DEF ReadFile, diskVars, callVars
  <2>3. CASE ReloadNow
    BY <2>3, EmptyIsNotes DEF ReloadNow, EndReload, diskVars, callVars
  <2>4. CASE ReloadRejects
    <3>1. phase' \in {"serving", "closing", "down", "stopped"}
      BY <2>4 DEF ReloadRejects, Up
    <3> QED BY <2>4, <3>1, EmptyIsNotes DEF ReloadRejects, EndReload, diskVars, callVars
  <2> QED BY <1>5, <2>1, <2>2, <2>3, <2>4 DEF Reload
<1>6. CASE Refresh
  BY <1>6 DEF Refresh, diskVars, callVars, loadVars
<1>7. ASSUME NEW s \in Scopes, Ask(s) PROVE OwnTypeOK'
  BY <1>7 DEF Ask, diskVars, callVars, loadVars
<1>8. CASE UNCHANGED vars
  BY <1>8 DEF vars, diskVars, callVars, loadVars
<1> QED BY <1>1, <1>2, <1>3, <1>4, <1>5, <1>6, <1>7, <1>8 DEF Next

LEMMA BrainInitially == Init => BrainInv
BY OwnTypeInitially, ServedInitially, WatchInitially DEF Init, BrainInv

LEMMA BrainStep == BrainInv /\ [Next]_vars => BrainInv'
BY OwnTypeStep, ServedLift, ServedStep, WatchLift, WatchStep DEF BrainInv

(***************************************************************************)
(* The system keeps its types, the watch forgets no event, and the indexes *)
(* and views are never silently behind, for any vault and any calls.       *)
(***************************************************************************)
THEOREM BrainCorrect ==
  Spec => [](TypeOK /\ NoEventForgotten /\ DenseNotForgotten /\ ViewsAreCurrent)
<1>1. BrainInv => TypeOK /\ NoEventForgotten /\ DenseNotForgotten /\ ViewsAreCurrent
  BY DEF BrainInv, TypeOK, ServedInv, WatchInv
<1> QED BY <1>1, BrainInitially, BrainStep, PTL DEF Spec, Safety
-----------------------------------------------------------------------------
(* Freshness. *)

\* A timeout armed since is a timeout.
LEMMA AheadIsHot ==
  ASSUME OwnTypeOK, WatchInv, NEW w \in Writers, Ahead(w)
  PROVE  Hot(writer[w].path)
<1>1. early[w] \in Nat /\ orphans \in Nat
  BY DEF OwnTypeOK, WatchInv, WatchTypeOK
<1> QED BY <1>1 DEF Ahead, Hot, Armed, Timeouts

\* Files that change while the server serves are hot at once.
LEMMA StoreKeeps ==
  ASSUME OwnTypeOK, FreshnessInv, NEW p \in Paths, NEW c, Store(p, c),
         phase \in {"serving", "closing", "down", "stopped"},
         UNCHANGED <<phase, loadVars, servedVars>>
  PROVE  ReadInv' /\ FreshInv'
<1> USE DEF Hot, Armed
<1>1. CASE phase # "serving"
  BY <1>1 DEF ReadInv, FreshInv
<1>2. CASE phase = "serving"
  <2>1. events' = events \cup {p}
    BY <1>2 DEF Store, Touch, Changed
  <2>2. \A r \in Paths : r # p => disk'[r] = disk[r]
    BY DEF Store, OwnTypeOK, Notes
  <2>3. \A r \in Paths : Hot(r) => Hot(r)'
    BY <2>1 DEF Store
  <2>4. Hot(p)'
    BY <2>1
  <2>5. ReadInv'
    BY <2>2, <2>3, <2>4 DEF ReadInv, FreshnessInv, loadVars
  <2>6. FreshInv'
    BY <2>2, <2>3, <2>4 DEF FreshInv, FreshnessInv, loadVars, servedVars
  <2> QED BY <2>5, <2>6
<1> QED BY <1>1, <1>2

LEMMA StartFreshness == Init => FreshnessInv
<1> SUFFICES ASSUME Init PROVE FreshnessInv
  OBVIOUS
<1>1. Busy = {}
  BY DEF Init, Busy, Idle
<1>2. ControlInv
  BY <1>1 DEF Init, ControlInv, WatchInit
<1>3. BusyInv /\ ReadInv /\ FreshInv
  BY DEF Init, BusyInv, ReadInv, FreshInv
<1> QED BY <1>2, <1>3 DEF FreshnessInv

LEMMA LifecycleFreshness ==
  ASSUME BrainInv, FreshnessInv, Lifecycle
  PROVE  FreshnessInv'
<1> USE DEF FreshnessInv
<1>1. CASE StartWatching
  <2> USE <1>1 DEF StartWatching, diskVars, callVars, loadVars, servedVars, watchVars
  <2>1. Busy = {} /\ Busy' = Busy /\ load = "idle" /\ notes = disk
    BY DEF ControlInv, Busy
  <2>2. ControlInv'
    BY <2>1 DEF ControlInv
  <2>3. BusyInv' /\ ReadInv' /\ FreshInv'
    BY <2>1 DEF BusyInv, ReadInv, FreshInv
  <2> QED BY <2>2, <2>3
<1>2. CASE Restart \/ Start
  <2>0. Starts
    BY <1>2 DEF Restart, Start
  <2>1. Busy' = {}
    BY <2>0 DEF Starts, Busy, Idle
  <2>2. ControlInv'
    BY <2>0, <2>1 DEF Starts, ControlInv, WatchAnew, Boot, diskVars
  <2>3. BusyInv' /\ ReadInv' /\ FreshInv'
    BY <2>0 DEF Starts, BusyInv, ReadInv, FreshInv
  <2> QED BY <2>2, <2>3
<1>3. CASE Shutdown \/ Exit \/ Killed
  <2>1. phase' \notin {"opening", "serving"} /\ running' = running /\ load' = load
    BY <1>3 DEF Shutdown, Exit, Killed, Close, loadVars, watchVars
  <2>2. ControlInv' /\ BusyInv' /\ ReadInv' /\ FreshInv'
    BY <2>1 DEF ControlInv, BusyInv, ReadInv, FreshInv
  <2> QED BY <2>2
<1> QED BY <1>1, <1>2, <1>3 DEF Lifecycle

LEMMA OthersFreshness ==
  ASSUME BrainInv, FreshnessInv, ~StartupEdits, Others
  PROVE  FreshnessInv'
<1>1. PICK p \in Paths : Edit(p) \/ Delete(p)
  BY DEF Others
<1>2. phase \in {"serving", "closing", "down", "stopped"}
  BY <1>1 DEF Edit, Delete, MayTouch, BrainInv, OwnTypeOK
<1>3. \E c : Store(p, c)
  BY <1>1 DEF Edit, Delete
<1>4. UNCHANGED <<phase, callVars, loadVars, servedVars>>
  BY <1>1 DEF Edit, Delete
<1>5. ReadInv' /\ FreshInv'
  BY <1>2, <1>3, <1>4, StoreKeeps DEF BrainInv
<1>6. events \subseteq events' /\ UNCHANGED <<timer, orphans, running, again, closed>>
  BY <1>3 DEF Store, Touch, Changed
<1>7. Busy' = Busy
  BY <1>4 DEF Busy, callVars
<1>8. ControlInv'
  BY <1>2, <1>4, <1>6 DEF ControlInv, FreshnessInv, loadVars
<1>9. BusyInv'
  BY <1>4, <1>6, <1>7 DEF BusyInv, FreshnessInv, Ahead, Timeouts, callVars
<1> QED BY <1>5, <1>8, <1>9 DEF FreshnessInv

LEMMA ToolCallFreshness ==
  ASSUME BrainInv, FreshnessInv, NEW w \in Writers, ToolCall(w)
  PROVE  FreshnessInv'
<1> USE DEF FreshnessInv, BrainInv
<1>1. phase \in {"serving", "closing"} /\ UNCHANGED <<phase, loadVars>>
  BY DEF ToolCall, Open, Write, WriteFails, ApplyWrite, Up
<1>2. CASE \E p \in Paths : Open(w, p)
  <2>1. PICK p \in Paths : Open(w, p)
    BY <1>2
  <2>2. Store(p, Torn) /\ UNCHANGED servedVars
    BY <2>1 DEF Open
  <2>3. ReadInv' /\ FreshInv'
    BY <1>1, <2>2, StoreKeeps
  <2>4. events \subseteq events' /\ UNCHANGED <<timer, orphans, running, again, closed>>
    BY <2>2 DEF Store, Touch, Changed
  <2>5. ControlInv'
    BY <1>1, <2>4 DEF ControlInv, loadVars
  <2>6. ASSUME phase = "serving", NEW x \in Writers, writer'[x].at # "idle"
        PROVE  Ahead(x)'
    <3>1. CASE x = w
      <4>1. writer'[w].path = p
        BY <2>1 DEF Open, OwnTypeOK
      <4>2. p \in events'
        BY <2>2, <2>6 DEF Store, Touch, Changed
      <4> QED BY <3>1, <4>1, <4>2 DEF Ahead
    <3>2. CASE x # w
      <4>1. writer'[x] = writer[x] /\ early'[x] = early[x]
        BY <2>1, <3>2 DEF Open, OwnTypeOK
      <4> QED BY <2>4, <2>6, <4>1 DEF BusyInv, Busy, Ahead, Timeouts
    <3> QED BY <3>1, <3>2
  <2>7. BusyInv'
    BY <1>1, <2>6 DEF BusyInv, Busy
  <2> QED BY <2>3, <2>5, <2>7
<1>3. CASE Write(w)
  <2>1. writer[w].path \in Paths /\ writer[w].at = "opened"
    BY <1>3, WriterTyped DEF Write
  <2>2. UNCHANGED servedVars /\ \E c : Store(writer[w].path, c)
    BY <1>3 DEF Write
  <2>3. ReadInv' /\ FreshInv'
    BY <1>1, <2>1, <2>2, StoreKeeps
  <2>4. events \subseteq events' /\ UNCHANGED <<timer, orphans, running, again, closed>>
    BY <2>2 DEF Store, Touch, Changed
  <2>5. ControlInv'
    BY <1>1, <2>4 DEF ControlInv, loadVars
  <2>6. writer[w] \in Writing
    BY <2>1, WriterTyped
  <2>7. writer' = [writer EXCEPT ![w] = [writer[w] EXCEPT !.at = "written"]]
    BY <1>3 DEF Write
  <2>8. \A x \in Writers : writer'[x].at # "idle" =>
          writer[x].at # "idle" /\ writer'[x].path = writer[x].path
    BY <2>1, <2>6, <2>7 DEF OwnTypeOK, Writing
  <2>9. BusyInv'
    BY <1>1, <1>3, <2>4, <2>8 DEF BusyInv, Busy, Ahead, Timeouts, Write
  <2> QED BY <2>3, <2>5, <2>9
<1>4. CASE WriteFails(w) \/ ApplyWrite(w)
  <2>1. UNCHANGED <<disk, watchVars>> /\ writer' = [writer EXCEPT ![w] = Idle]
    BY <1>4 DEF WriteFails, ApplyWrite, diskVars
  <2>2. ControlInv'
    BY <1>1, <2>1 DEF ControlInv, loadVars, watchVars
  <2>3. \A x \in Writers : writer'[x].at # "idle" =>
          writer[x].at # "idle" /\ writer'[x] = writer[x] /\ early'[x] = early[x]
    BY <1>4, <2>1 DEF OwnTypeOK, Idle, WriteFails, ApplyWrite
  <2>4. BusyInv'
    BY <1>1, <2>1, <2>3 DEF BusyInv, Busy, Ahead, Timeouts, watchVars
  <2>5. ReadInv'
    BY <1>1, <2>1 DEF ReadInv, Hot, Armed, loadVars, watchVars
  <2>6. FreshInv'
    <3>1. CASE WriteFails(w)
      BY <3>1, <1>1, <2>1 DEF WriteFails, FreshInv, Hot, Armed, loadVars, servedVars, watchVars
    <3>2. CASE ApplyWrite(w)
      <4>1. \A p \in Paths : p # writer[w].path => notes'[p] = notes[p]
        BY <3>2 DEF ApplyWrite, Fold, ServedInv, ServedTypeOK, Notes
      <4>2. phase = "serving" => Ahead(w)
        BY <3>2 DEF ApplyWrite, BusyInv, Busy
      <4>3. phase = "serving" => Hot(writer[w].path)
        BY <4>2, AheadIsHot
      <4> QED BY <1>1, <2>1, <4>1, <4>3 DEF FreshInv, Hot, Armed, loadVars, watchVars
    <3> QED BY <1>4, <3>1, <3>2
  <2> QED BY <2>2, <2>4, <2>5, <2>6
<1> QED BY <1>2, <1>3, <1>4 DEF ToolCall

LEMMA WatchingFreshness ==
  ASSUME BrainInv, FreshnessInv, PromptWrites, Watching
  PROVE  FreshnessInv'
<1> USE DEF FreshnessInv, BrainInv
<1>1. CASE \E p \in Paths : Report(p)
  <2>1. PICK p \in Paths : Report(p)
    BY <1>1
  <2>2. UNCHANGED <<phase, disk, writer, loadVars, servedVars, running, again, closed>> /\ timer' = TRUE
    BY <2>1 DEF Report, Deliver, diskVars
  <2>3. Armed' /\ Busy' = Busy
    BY <2>2 DEF Armed, Busy
  <2>4. ControlInv'
    BY <2>1, <2>2 DEF ControlInv, Report, Up, loadVars
  <2>5. ReadInv' /\ FreshInv'
    BY <2>3 DEF ReadInv, FreshInv, Hot
  <2>6. ASSUME NEW w \in Writers PROVE Ahead(w)'
    <3>1. early[w] \in Nat /\ orphans \in Nat
      BY DEF OwnTypeOK, WatchInv, WatchTypeOK
    <3>2. early'[w] <= orphans
      BY <2>1, <3>1 DEF Report, Cleared
    <3>3. Timeouts' = orphans + 1
      BY <2>1, <2>2 DEF Report, Deliver, Timeouts
    <3>4. early'[w] \in Nat
      BY <2>1, <3>1 DEF Report, Cleared
    <3> QED BY <3>1, <3>2, <3>3, <3>4 DEF Ahead
  <2>7. BusyInv'
    BY <2>6 DEF BusyInv, Busy
  <2> QED BY <2>4, <2>5, <2>7
<1>2. CASE DebounceEnds
  <2>1. UNCHANGED <<phase, disk, writer, todo, got, servedVars, events, closed>> /\ Up
    BY <1>2 DEF DebounceEnds, TimerFires, OrphanFires, diskVars
  <2>2. BusyInv'
    <3>1. SUFFICES ASSUME phase = "serving", NEW w \in Busy PROVE Ahead(w)'
      BY <2>1 DEF BusyInv, Busy
    <3>2. w \in Writers /\ early[w] \in Nat /\ orphans \in Nat
      BY DEF Busy, OwnTypeOK, WatchInv, WatchTypeOK
    <3>3. early[w] > 0 /\ early'[w] = early[w] - 1
      BY <1>2, <3>2 DEF DebounceEnds
    <3>4. Timeouts' = Timeouts - 1
      <4>1. CASE TimerFires
        BY <3>2, <4>1 DEF TimerFires, Timeouts
      <4>2. CASE OrphanFires
        BY <3>2, <4>2 DEF OrphanFires, Timeouts
      <4> QED BY <1>2, <4>1, <4>2 DEF DebounceEnds
    <3>5. Timeouts \in Nat
      BY TimeoutsTyped
    <3>6. Ahead(w)
      BY <3>1 DEF BusyInv
    <3> QED BY <2>1, <3>2, <3>3, <3>4, <3>5, <3>6 DEF Ahead
  <2>3. TimerFires \/ OrphanFires
    BY <1>2 DEF DebounceEnds
  <2>4. Flush
    BY <2>3 DEF TimerFires, OrphanFires
  <2>5. load' = IF running' /\ ~running THEN "listing" ELSE load
    BY <1>2 DEF DebounceEnds
  <2>6. CASE closed
    <3>1. phase # "serving" /\ phase # "opening"
      BY <2>1, <2>6 DEF ControlInv, Up
    <3>2. running' = running
      BY <2>4, <2>6 DEF Flush
    <3>3. load' = load
      BY <2>5, <3>2
    <3> QED BY <2>1, <2>2, <3>1, <3>2, <3>3 DEF ControlInv, ReadInv, FreshInv
  <2>7. CASE ~closed /\ running
    <3>1. running' = running /\ again'
      BY <2>4, <2>7 DEF Flush
    <3>2. load' = load /\ load # "idle"
      BY <2>5, <2>7, <3>1 DEF ControlInv
    <3>3. ControlInv'
      BY <2>1, <3>1, <3>2 DEF ControlInv, Up
    <3>4. BusyInv' /\ ReadInv' /\ FreshInv'
      BY <2>2, <3>1, <3>2 DEF ReadInv, FreshInv, Hot
    <3> QED BY <3>3, <3>4
  <2>8. CASE ~closed /\ ~running
    <3>1. running'
      BY <2>4, <2>8 DEF Flush
    <3>2. load' = "listing"
      BY <2>5, <2>8, <3>1
    <3>3. ControlInv'
      BY <2>1, <3>1, <3>2 DEF ControlInv, Up
    <3>4. BusyInv' /\ ReadInv' /\ FreshInv'
      BY <2>2, <3>2 DEF ReadInv, FreshInv
    <3> QED BY <3>3, <3>4
  <2> QED BY <2>6, <2>7, <2>8
<1> QED BY <1>1, <1>2 DEF Watching

LEMMA ReloadFreshness ==
  ASSUME BrainInv, FreshnessInv, Reload
  PROVE  FreshnessInv'
<1> USE DEF FreshnessInv, BrainInv
<1>1. CASE ListFiles
  <2>1. UNCHANGED <<phase, disk, callVars, notes, watchVars>> /\ Up /\ load = "listing" /\ load' = "reading"
    BY <1>1 DEF ListFiles, diskVars, servedVars
  <2>2. \A p \in Paths \ todo' : got'[p] = disk'[p]
    BY <1>1, <2>1 DEF ListFiles, Listed, Empty
  <2>3. ControlInv'
    BY <2>1 DEF ControlInv, Up, watchVars
  <2>4. BusyInv'
    BY <2>1 DEF BusyInv, Busy, Ahead, Timeouts, callVars, watchVars
  <2>5. ReadInv' /\ FreshInv'
    BY <2>1, <2>2 DEF ReadInv, FreshInv
  <2> QED BY <2>3, <2>4, <2>5
<1>2. CASE \E p \in Paths : ReadFile(p)
  <2>1. PICK p \in Paths : ReadFile(p)
    BY <1>2
  <2>2. UNCHANGED <<phase, disk, callVars, notes, load, watchVars>> /\ Up
    BY <2>1 DEF ReadFile, diskVars, servedVars
  <2>3. todo' = todo \ {p} /\ got'[p] = disk[p]
    BY <2>1 DEF ReadFile, OwnTypeOK, Notes
  <2>4. \A r \in Paths : r # p => got'[r] = got[r]
    BY <2>1 DEF ReadFile, OwnTypeOK, Notes
  <2>5. ControlInv'
    BY <2>2 DEF ControlInv, Up, watchVars
  <2>6. BusyInv'
    BY <2>2 DEF BusyInv, Busy, Ahead, Timeouts, callVars, watchVars
  <2>7. ReadInv'
    BY <2>2, <2>3, <2>4 DEF ReadInv, Hot, Armed, watchVars
  <2>8. FreshInv'
    BY <2>2 DEF FreshInv, Hot, Armed, watchVars
  <2> QED BY <2>5, <2>6, <2>7, <2>8
<1>3. ASSUME EndReload, UNCHANGED <<disk, callVars>>, Up,
             phase' = phase \/ (~running' /\ phase' \in {"down", "stopped"}),
             phase' = "serving" /\ load' = "idle" =>
               \A p \in Paths : notes'[p] # disk[p] => Hot(p)
      PROVE  FreshnessInv'
  <2>1. UNCHANGED <<events, closed>> /\ ~again' /\ Busy' = Busy
    BY <1>3 DEF EndReload, Settle, Busy, callVars
  <2>2. load' = IF running' THEN "listing" ELSE "idle"
    BY <1>3 DEF EndReload
  <2>3. ControlInv'
    BY <1>3, <2>1, <2>2 DEF ControlInv, Up
  <2>4. Armed => Armed'
    BY <1>3 DEF EndReload, Settle, Armed, WatchInv, WatchTypeOK
  <2>5. BusyInv'
    <3>1. Timeouts' = Timeouts
      BY <1>3 DEF EndReload, Settle, Timeouts, WatchInv, WatchTypeOK
    <3> QED BY <1>3, <2>1, <3>1 DEF BusyInv, Busy, Ahead, callVars
  <2>6. ReadInv'
    BY <2>2 DEF ReadInv
  <2>7. phase' = "serving" /\ load' = "idle" => ~again
    BY <1>3, <2>2 DEF EndReload, Settle, ControlInv
  <2>8. FreshInv'
    BY <1>3, <2>1, <2>4, <2>7 DEF FreshInv, Hot
  <2> QED BY <2>3, <2>5, <2>6, <2>8
<1>4. CASE ReloadNow
  <2>1. UNCHANGED <<phase, disk, callVars>> /\ Up /\ EndReload /\ load = "reading" /\ todo = {}
    BY <1>4 DEF ReloadNow, diskVars
  <2>2. notes' = got
    BY <1>4 DEF ReloadNow, Fold, servedVars
  <2>3. phase = "serving" => \A p \in Paths : notes'[p] # disk[p] => Hot(p)
    BY <2>1, <2>2 DEF ReadInv
  <2> QED BY <1>3, <2>1, <2>3
<1>5. CASE ReloadRejects
  <2>1. UNCHANGED <<disk, callVars>> /\ Up /\ EndReload
    BY <1>5 DEF ReloadRejects, diskVars
  <2>2. (running' => phase' = phase) /\ (~running' => phase' \in {"down", "stopped"})
    BY <1>5 DEF ReloadRejects, Up
  <2>3. load' = IF running' THEN "listing" ELSE "idle"
    BY <2>1 DEF EndReload
  <2> QED BY <1>3, <2>1, <2>2, <2>3
<1> QED BY <1>1, <1>2, <1>4, <1>5 DEF Reload

LEMMA RefreshFreshness ==
  ASSUME BrainInv, FreshnessInv,
         UNCHANGED <<phase, diskVars, callVars, loadVars, notes, watchVars>>
  PROVE  FreshnessInv'
<1>1. ControlInv' /\ BusyInv'
  BY DEF FreshnessInv, ControlInv, BusyInv, Busy, Ahead, Timeouts, diskVars, callVars, loadVars, watchVars
<1>2. ReadInv' /\ FreshInv'
  BY DEF FreshnessInv, ReadInv, FreshInv, Hot, Armed, diskVars, loadVars, watchVars
<1> QED BY <1>1, <1>2 DEF FreshnessInv

LEMMA FreshnessStep ==
  ASSUME PromptWrites, ~StartupEdits, BrainInv, FreshnessInv, [Next]_vars
  PROVE  FreshnessInv'
<1>1. ASSUME Refresh \/ (\E s \in Scopes : Ask(s)) \/ UNCHANGED vars
      PROVE  UNCHANGED <<phase, diskVars, callVars, loadVars, notes, watchVars>>
  BY <1>1 DEF Refresh, Ask, vars, servedVars, Warmup, ModelLoaded, WarmupScans, WarmupGoesAgain,
              WarmupInstalls, WarmupFails, Pass, PassStarts, PassLands, PassFails, BuildView
<1> QED BY <1>1, LifecycleFreshness, OthersFreshness, ToolCallFreshness, WatchingFreshness,
           ReloadFreshness, RefreshFreshness DEF Next

LEMMA QuietIsFresh ==
  ASSUME BrainInv, FreshnessInv
  PROVE  QuietMeansServed
<1> SUFFICES ASSUME Quiet PROVE notes = disk
  BY DEF QuietMeansServed
<1>1. load = "idle" /\ phase = "serving"
  BY DEF Quiet, FreshnessInv, ControlInv
<1>2. ~again
  BY DEF Quiet, BrainInv, WatchInv, AgainHasReader
<1>3. \A p \in Paths : notes[p] = disk[p]
  BY <1>1, <1>2 DEF Quiet, Hot, FreshnessInv, FreshInv
<1>4. notes \in Notes /\ disk \in Notes
  BY DEF BrainInv, ServedInv, ServedTypeOK, OwnTypeOK
<1> QED BY <1>3, <1>4 DEF Notes

(***************************************************************************)
(* Provided a debounce outlasts a write and nothing changes before the     *)
(* watch begins, the vault is served as it stands on disk whenever the     *)
(* watch is quiet: for any paths, number of calls, edits and restarts, and *)
(* however many reloads begin in the middle of a write, of a timeout armed *)
(* before it.                                                              *)
(***************************************************************************)
THEOREM Freshness ==
  ASSUME PromptWrites, ~StartupEdits
  PROVE  Spec => []QuietMeansServed
<1>1. BrainInv /\ FreshnessInv /\ [Next]_vars => BrainInv' /\ FreshnessInv'
  BY BrainStep, FreshnessStep
<1>2. BrainInv /\ FreshnessInv => QuietMeansServed
  BY QuietIsFresh
<1> QED BY <1>1, <1>2, BrainInitially, StartFreshness, PTL DEF Spec, Safety
=============================================================================
