----------------------------- MODULE ServedNotes -----------------------------
(***************************************************************************)
(* What `loadBrainContext` keeps in memory (packages/server/src/context.ts)*)
(* and how it keeps it together: the notes, the generation and version     *)
(* counters, the dense index built from the notes by the warmup and by the *)
(* background passes, and the per-scope views cached against the version.  *)
(*                                                                         *)
(* An index is identified with the notes it was built from: the chunks and *)
(* hashes of buildDenseIndex are taken in one synchronous scan, and all    *)
(* the embedding after it works on that copy.                              *)
(***************************************************************************)
EXTENDS Vault, Naturals

CONSTANTS
  Scopes,         \* agents that share a view share a scope (scopeKey)
  Dense,          \* the ranker was asked for as dense or fused
  NoIndex,        \* `undefined`, where a dense index could be
  MaxBoots        \* bound: how many times the process is started

ASSUME NoIndexAssumption == NoIndex \notin Notes
ASSUME DenseAssumption == Dense \in BOOLEAN

VARIABLES
  notes,       \* `notes`, the array every retriever closes over
  generation,  \* `generation`
  version,     \* `ctx.version`
  warmup,      \* where the warmup stands
  seen,        \* the generation the warmup's current pass started from
  embedding,   \* the notes being embedded, by the warmup or by a pass
  dense,       \* `dense`, the index the ranker searches
  queued,      \* `denseQueued` is set: a pass waits for the one before it
  lapsed,      \* the last pass failed, and nothing has asked for another
  views,       \* `views`: per scope, the version and state a view was built from
  boots        \* processes started so far

servedVars == <<notes, generation, version, warmup, seen, embedding, dense,
                queued, lapsed, views, boots>>

WarmupStages == {"off", "loading", "scanning", "embedding", "ready", "failed"}
Indexes == Notes \cup {NoIndex}
View == [version : Nat, notes : Notes, dense : Indexes]

ServedTypeOK ==
  /\ notes \in Notes
  /\ generation \in Nat
  /\ version \in Nat /\ version > 0
  /\ warmup \in WarmupStages
  /\ seen \in Nat
  /\ embedding \in Indexes
  /\ dense \in Indexes
  /\ queued \in BOOLEAN
  /\ lapsed \in BOOLEAN
  /\ views \in [Scopes -> View]
  /\ boots \in Nat

\* A scope nobody has asked for: version 0 is no version of the context.
NoView == [version |-> 0, notes |-> Empty, dense |-> NoIndex]

NoViews == [s \in Scopes |-> NoView]

\* Where the warmup is as a process starts.
Asleep == IF Dense THEN "loading" ELSE "off"

ServedInit ==
  /\ notes \in Notes
  /\ generation = 0
  /\ version = 1
  /\ warmup = Asleep
  /\ seen = 0
  /\ embedding = NoIndex
  /\ dense = NoIndex
  /\ queued = FALSE
  /\ lapsed = FALSE
  /\ views = NoViews
  /\ boots = 1

\* A new process, which read the vault as v: everything starts again.
Boot(v) ==
  /\ boots < MaxBoots
  /\ boots' = boots + 1
  /\ notes' = v
  /\ generation' = 0
  /\ version' = 1
  /\ warmup' = Asleep
  /\ seen' = 0
  /\ embedding' = NoIndex
  /\ dense' = NoIndex
  /\ queued' = FALSE
  /\ lapsed' = FALSE
  /\ views' = NoViews
-----------------------------------------------------------------------------
\* `reindexDense`: nothing before the warmup is done, else a pass is queued,
\* or the change rides on the one that is.
ReindexDense ==
  /\ queued' = (queued \/ warmup = "ready")
  /\ lapsed' = FALSE

\* Mutant of Fold: the version stays, so a cached view still passes for current.
FoldUnversioned(v) ==
  /\ notes' = v
  /\ generation' = generation + 1
  /\ ReindexDense
  /\ UNCHANGED <<version, warmup, seen, embedding, dense, views, boots>>

(***************************************************************************)
(* The notes become v: `applyWrite` with one note changed, `reloadNow`     *)
(* with what it read.  Both are synchronous from here on.                  *)
(***************************************************************************)
Fold(v) ==
  /\ notes' = v
  /\ generation' = generation + 1
  /\ version' = version + 1
  /\ ReindexDense
  /\ UNCHANGED <<warmup, seen, embedding, dense, views, boots>>

(***************************************************************************)
(* The background pass.  It starts when the one before it has ended, takes *)
(* its copy of the notes in the same step that clears `denseQueued`, and   *)
(* ends with the index replaced or, if the model or the cache file failed, *)
(* with nothing changed and nobody told to try again.                      *)
(***************************************************************************)
PassStarts ==
  /\ queued
  /\ embedding = NoIndex
  /\ queued' = FALSE
  /\ embedding' = notes
  /\ UNCHANGED <<notes, generation, version, warmup, seen, dense, lapsed, views, boots>>

\* Mutant of PassLands: `denseQueued` is cleared when the pass ends.
PassLandsForAll ==
  /\ warmup = "ready"
  /\ embedding # NoIndex
  /\ dense' = embedding
  /\ embedding' = NoIndex
  /\ version' = version + 1
  /\ queued' = FALSE
  /\ UNCHANGED <<notes, generation, warmup, seen, lapsed, views, boots>>

PassLands ==
  /\ warmup = "ready"
  /\ embedding # NoIndex
  /\ dense' = embedding
  /\ embedding' = NoIndex
  /\ version' = version + 1
  /\ UNCHANGED <<notes, generation, warmup, seen, queued, lapsed, views, boots>>

PassFails ==
  /\ warmup = "ready"
  /\ embedding # NoIndex
  /\ embedding' = NoIndex
  /\ lapsed' = ~queued
  /\ UNCHANGED <<notes, generation, version, warmup, seen, dense, queued, views, boots>>
-----------------------------------------------------------------------------
(***************************************************************************)
(* The warmup.  The first build awaits the cache file between reading the  *)
(* generation and scanning the notes; the later ones reuse the build in    *)
(* hand and scan at once.                                                  *)
(***************************************************************************)
ModelLoaded ==
  /\ warmup = "loading"
  /\ warmup' = "scanning"
  /\ seen' = generation
  /\ UNCHANGED <<notes, generation, version, embedding, dense, queued, lapsed, views, boots>>

WarmupScans ==
  /\ warmup = "scanning"
  /\ warmup' = "embedding"
  /\ embedding' = notes
  /\ UNCHANGED <<notes, generation, version, seen, dense, queued, lapsed, views, boots>>

\* The notes changed under the build: `while (seen !== generation)`.
WarmupGoesAgain ==
  /\ warmup = "embedding"
  /\ seen # generation
  /\ seen' = generation
  /\ embedding' = notes
  /\ UNCHANGED <<notes, generation, version, warmup, dense, queued, lapsed, views, boots>>

\* Mutant of WarmupInstalls: installed without asking whether the notes moved on.
WarmupInstallsAnyway ==
  /\ warmup = "embedding"
  /\ warmup' = "ready"
  /\ dense' = embedding
  /\ embedding' = NoIndex
  /\ version' = version + 1
  /\ UNCHANGED <<notes, generation, seen, queued, lapsed, views, boots>>

WarmupInstalls ==
  /\ warmup = "embedding"
  /\ seen = generation
  /\ warmup' = "ready"
  /\ dense' = embedding
  /\ embedding' = NoIndex
  /\ version' = version + 1
  /\ UNCHANGED <<notes, generation, seen, queued, lapsed, views, boots>>

\* The model does not load, or an embedding fails: bm25 until the next start.
WarmupFails ==
  /\ warmup \in {"loading", "scanning", "embedding"}
  /\ warmup' = "failed"
  /\ embedding' = NoIndex
  /\ UNCHANGED <<notes, generation, version, seen, dense, queued, lapsed, views, boots>>

\* `forIdentity` when the cached view is not of this version: one is built.
BuildView(s) ==
  /\ views[s].version # version
  /\ views' = [views EXCEPT ![s] = [version |-> version, notes |-> notes, dense |-> dense]]
  /\ UNCHANGED <<notes, generation, version, warmup, seen, embedding, dense, queued, lapsed, boots>>
-----------------------------------------------------------------------------
Pass == PassStarts \/ PassLands \/ PassFails

Warmup == ModelLoaded \/ WarmupScans \/ WarmupGoesAgain \/ WarmupInstalls \/ WarmupFails

ServedNext ==
  \/ \E v \in Notes : Boot(v) \/ Fold(v)
  \/ Pass
  \/ Warmup
  \/ \E s \in Scopes : BuildView(s)

ServedSpec == ServedInit /\ [][ServedNext]_servedVars
-----------------------------------------------------------------------------
(***************************************************************************)
(* The semantic index never falls silently behind: once the warmup is done *)
(* an index that is not of the served notes has a pass coming for it --    *)
(* queued, or already embedding exactly the notes served -- or the last    *)
(* pass is known to have failed.  It is about the order of lines 224-240:  *)
(* `denseQueued` cleared as the copy is taken, and `denseModel` set only   *)
(* with the index.                                                         *)
(***************************************************************************)
DenseNotForgotten ==
  warmup = "ready" /\ dense # notes => queued \/ embedding = notes \/ lapsed

(***************************************************************************)
(* A view handed out is of the notes and the index being served, whatever  *)
(* changed since it was built: `cached.version === ctx.version` is enough  *)
(* to tell (context.ts:307), because every change bumps the version.       *)
(***************************************************************************)
ViewsAreCurrent ==
  \A s \in Scopes :
    views[s].version = version => views[s].notes = notes /\ views[s].dense = dense

(***************************************************************************)
(* At most one embedding of the vault at a time: the warmup and the passes *)
(* never overlap, and a pass is queued only when there is an index for it  *)
(* to reuse (context.ts:170-176).                                          *)
(***************************************************************************)
PassesAfterWarmup ==
  queued \/ lapsed \/ dense # NoIndex => warmup = "ready"
=============================================================================
