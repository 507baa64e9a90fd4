# Manent in TLA+

Specifications, model-checking runs and machine-checked proofs for the Manent
server: a vault of Markdown notes on disk, read by agents and written by tools,
editors and git, served from memory by one Node process. Line numbers are those
of the repository at the commit these modules were written against; paths are
below `packages/` unless they say otherwise.

## The system

| Part | State it keeps | Operations | Talks to |
| --- | --- | --- | --- |
| vault (`core/src/vault.ts`, `write.ts`) | the files | list, read, write one note (truncate, then write) | everybody |
| watcher (`server/src/watch.ts`) | pending paths, a timer, a running call, `again`, `closed` | event, flush, settle, close | the OS, `reload` |
| served context (`server/src/context.ts`) | notes, graph, lexical and dense index, version, generation, views per scope | load, reload, applyWrite, warmup, background pass, forIdentity, close | watcher, tools, model |
| dense index (`retrieval/src/dense.ts`) | vectors by note, a cache file | build, reusing what did not change | warmup, passes |
| lexical index, graph (`retrieval/src/bm25.ts`, `core/src/graph.ts`) | one entry per name | build, upsert one note | context |
| write tools (`server/src/tools.ts`, `form-timeouts.ts`) | nothing per question; clients known to time out | ask by form or code, redeem, write | person, git, audit |
| git (`server/src/git.ts`) | a queue of jobs, a push timer, the last push | commit, push, flush | git, the remote |
| gap register (`server/src/gaps.ts`, `cli/src/gaps.ts`) | sqlite tables, centroids in memory, recent searches | record, follow, close, dismiss | tools, a second process |
| tasks (`server/src/tasks.ts`, `modern.ts`) | a record per task: owner, status, expiry | create, settle, get, cancel, update, sweep | clients, tools |
| HTTP server and audit (`server/src/http.ts`, `audit.ts`, `context.ts`) | calls in flight, whether it is draining, the log's stream | answer, log, drain, force, close, exit | clients, systemd |
| sign-in (`server/src/oauth.ts`, `identity.ts`, `http.ts`) | pending codes, the agents file as loaded, the master token | authorize, exchange, resolve a token, restart | browsers, clients |
| eras (`server/src/modern.ts`, `legacy.ts`, `http.ts`) | none | route a message to one of two implementations | clients |
| promotion (`core/src/promote.ts`, `cli/src/promote.ts`) | the files, the repository | load, rewrite, move, stage, commit | vault, git |
| links, audiences, views (`core/src/links.ts`, `graph.ts`, `audience.ts`, `context.ts`) | none | resolve, build the graph, filter | read tools, rankers, lint |
| rankers (`retrieval/src/fused.ts`, `hybrid.ts`, `status.ts`) | none | fuse, rank, demote, cut | search |
| lint, curate, eval | none | reports over a loaded vault | vault, gap register |

What is hard: everything shares one event loop, so between two `await`s nothing
else runs, and at every `await` anything may. The disk is shared with editors,
checkouts and the command line, which take no lock. A process may stop or die at
any step, and systemd starts it again. Git commands, embeddings and sqlite
statements fail one at a time, in the middle of a group.

What makes each part correct: a change on disk is served in the end, and a quiet
server serves the disk; indexes and views are of the notes served; what is
written was confirmed; a caller is told the truth about its commit, and a commit
is pushed or its failure reported; the register counts what was asked; a task
answers its owner and no one else, and what is gone stays gone; what was
answered is in the audit; a token is worth the consent it goes back to; what an
agent wrote waits for a person, and a promotion commits both ends of its move; a
reader is shown nothing hidden, whichever tool is asked; and lint, graph and
curator tell one story about the links.

## Modules

| Module | Models | Extends |
| --- | --- | --- |
| `Vault` | paths, contents, what a list of notes is | |
| `VaultWatch` | `watchVault` | `Vault` |
| `ServedNotes` | what `loadBrainContext` keeps together | `Vault` |
| `BrainContext` | disk, tool writes, editors, watcher, reloads, served state, process lifecycle | `ServedNotes`, `VaultWatch` |
| `WriteConfirmation` | `runWrite` up to the write, `FormTimeouts` | |
| `VaultGit` | `VaultGit`, the commits of `runWrite`, the close | |
| `NoteIndex` | which note answers to a name: list order, `applyWrite`, reload | |
| `GapStore` | `GapStore`, `FollowTracker`, `brain_search`, `brain_read`, `manent gaps` | |
| `TaskContract` | what a client may rely on about a task, without tables or clocks | |
| `TaskStore` | `TaskStore` | |
| `Service` | calls, tasks, audit, drain and the process | `TaskStore`; instantiates `TaskContract` |
| `HttpRouter` | `isModernRequest`, `handleModernRequest`'s refusals, the routes of `serveHttp` | |
| `SignIn` | `handleOAuth`, access tokens, `loadAgents`, `resolveIdentity`, restarts | `HttpRouter` |
| `NoteWrites` | `writeNote` in its three modes, `promoteNote`, `manent promote --commit`, the commits of both | |
| `Links` | `resolveLink`, `buildGraph`, `neighbors`, audiences, `buildView` | |
| `Ranking` | `fusedRetriever`, `hybridRetriever`, `statusAware`, the order of hits | `Links` |
| `Lint` | the findings of `lintVault` that relate notes | `Links` |
| `Curation` | `contradictions`, `duplicates` by words | `Links` |
| `Library` | a vault that grows, and the read tools over a reader's view of it | `Ranking`, `Lint`, `Curation` |
| `MCLibrary` | the corpus of notes the run draws from | `Library` |
| `Communities` | `communities`: moves, passes, collapses, splitting, the report | |
| `*_proofs` | theorems of the module they are named after; those of `ServedNotes` are in `BrainContext_proofs`, those of `WriteConfirmation` in `NoteWrites_proofs`, those of `NoteIndex` in `Communities_proofs` | `TLAPS` |

How they correspond to the code:

- **VaultWatch.** `timer` says that the handle holds a timeout still counting;
  `orphans` counts the timeouts it no longer holds. `flush` sets the handle to
  `undefined` without clearing it, so the flush made by `finally` orphans one.
  `Deliver` is the `change` handler, `TimerFires` and `OrphanFires` are `flush`
  from a timeout, `Settle` is the `finally`.
- **ServedNotes.** An index is identified with the notes it was built from:
  `buildDenseIndex` copies chunks in one synchronous scan. `generation` and
  `version` are the code's; `queued` is `denseQueued`, `embedding` is the copy a
  pass or the warmup works on, `lapsed` records that the last pass failed and
  nothing has asked for another. The first warmup awaits the cache file between
  reading `generation` and scanning (`ModelLoaded`, `WarmupScans`); later rounds
  do not (`WarmupGoesAgain`).
- **BrainContext.** A tool call is `Open` (truncated), `Write`, `ApplyWrite`; `Mixed`
  is what a file holds when a text was written over one that another call wrote
  into it meanwhile, whose end may remain. `early` is, for each call with a file
  open, how many of the timeouts still counting were armed before it opened it:
  it is what `PromptWrites` is stated with. A reload is `ListFiles`, one `ReadFile` per file, `ReloadNow`. `ReloadNow` and
  `ApplyWrite` have no `await` in them and are one step. `ReloadRejects` is a
  listed file gone when it is read, which also ends the process unless the
  watcher starts another reload in the same breath. `Shutdown`, `Exit`, `Killed`
  end the process; `Restart` is systemd's, of one that failed
  (`Restart=on-failure`), and `Start` is somebody's, of one that exited with 0 as
  it was told to. Either loads the disk as it finds it.
- **WriteConfirmation.** A question is a form's `requestState` or a chat code:
  what was proposed, when and by which process. The server keeps none; the
  client keeps `asked`, and `said` is what a person has answered yes to, ever. A
  proposal has an audience, which `Fingerprint` leaves out as the code does. A
  write keeps no trace of the question it answers: the property has to find one.
  `tail` is the end of the audit that a start reads, in lines: every call pushes
  the others up, and a line may not be written at all (no `--audit`, a stream
  that fails). A code of another process is as if none was given; a form's state
  has no key, and survives a restart. Refusals before the question (read-only
  identities, personal data, injection) change nothing and are left out.
- **VaultGit.** `texts` lists what the files have held, in order: an entry when a
  call truncates a file (`Open`) and one when it writes (`Write`), so that
  "later" can be compared. An entry has the bytes: none, the call's own, those of
  an earlier entry (an overwrite with what is there), or the call's over the rest
  of a longer text. The tree, the index and the commits hold entries, and git
  compares bytes, so `git add` may stage a file in the middle of a write. Every
  git command is a step, and every one may
  fail. `awaited` is how many jobs `flush` still waits for, first the queue as it
  was, then the last push queued.
- **NoteIndex.** Paths are numbers in sort order; a listing is the notes in that
  order. `Upsert` is the choice between updating in place and rebuilding.
- **GapStore.** A question is a meaning and a wording (the normalised key; none
  for a query of stop words only). Vectors are similar when the meanings are
  equal: the centroid arithmetic of `foldCentroid` is not modelled. Statements
  after the first may fail, one by one.
- **TaskStore, Service.** A record is what `create` puts in the map, and a task id
  is never given again. `FinishWork` is the `then` of the work, whatever became
  of the record; a cancelled record keeps its status, a swept one is gone. `told`
  is what each owner was answered about each task, so that answers can be
  compared. A call is answered (`AnswerCall`), which writes its line to the
  stream; the stream reaches the disk later (`FlushLines`). `draining` is a
  server that accepts nothing, `forced` one whose grace ran out with calls still
  running, `closing` one whose connections are gone. `Exit` waits for the lines.
  `Fate` forgets everything but whether a task is running, how it ended or that
  it is forgotten: the mapping under which `Service` implements `TaskContract`.
- **HttpRouter, SignIn.** A message is a method, a declared version, whether it
  bears an identity and has a form the method accepts. Versions are compared as
  strings of a date are, by order. Codes are fresh; hashes and comparisons are
  perfect, so a token is the parts it was minted from and the key. An id is of
  one part for the owner and of two for an agent, as `mintAccessToken` writes
  it, and client ids are the UUIDs registration gives.
- **NoteWrites.** One name, several folders. A text is the set of the pieces put
  into it, so that "whose text is this" can be asked of any file; a call reads
  and decides in one step (`Decide`), opens the file, which truncates it
  (`Truncate`), and writes from its start without truncating again (`Land`): what
  somebody wrote into the file between the two may be left beyond the end, as the
  file's `tail` (`Over`). A call holds its file open through a rename (`at`), and
  writes into nothing if another file was moved over it. A promotion is `Load`,
  `Rewrite` and `Rewritten`, `Move`, `Add`, `Commit`, and may end at any of them;
  one runs at a time. `index` and `head` are git's; the server stages what it
  wrote (`dirty`) and commits everything that is staged, a promotion's half
  included, which then finds nothing to commit and ends.
- **Links, Ranking, Lint, Curation.** Operators over a list of notes in the order
  the server has it. A path is a sequence of segments and a link is one too.
  Scores are exact: a share `1 / (RrfK + rank)` is scaled by the product of the
  denominators, and the demotion by four. PageRank's walk is reduced to whom it
  reaches, with any order among them. A ranker takes `FusedDepth` or `HybridDepth`
  of each list, the demotion looks at `Pulled(k)` hits, the walk starts from
  `Seeds`. Rounding to five decimals, which only makes scores equal and leaves
  those in order, is left out. The curator keeps words and relations by name, so
  the last note of a name speaks for all (`Spokesman`); the linter reads Markdown
  links (`markdown`) besides wikilinks.
- **Library.** `Write` and `Delete` change the list as `applyWrite` and a reload
  do; every tool answers from `View(notes, scope)`, once per state of the vault.
  Which notes a query's words and vectors match is any list, as is any score in
  `Scores`; which notes a pattern matches is any set.
- **Communities.** Every graph over the notes is an initial state. `Move` visits
  one node, in the code's order, and is the whole of its evaluation; a pass ends
  when a round moves nobody. Gains are integers, multiplied out.

Each property has, in the module it is about, an operator commented "Mutant of
...": a version of one operation with a plausible mistake, under which that
property fails in the same run; a property with several parts has more than
one. No specification uses them.

## Runs

Those that pass:

| Run | Configuration | Distinct states | Shows |
| --- | --- | --- | --- |
| `brain_context` | 2 paths, 2 writers, 3 contents, torn and mixed files, 1 deletion, 3 boots, lexical | 1.1 M | no reported change is forgotten; quiet means served; every change is served in the end |
| `brain_dense` | 1 path, 1 writer, 3 contents, 1 scope, 2 boots, dense | 1.1 M | the dense index is never silently behind and catches up; views are current |
| `vault_git` | 2 notes, 2 calls in two steps each | 450 k | answers are true, torn files included; commits are pushed or reported; a close waits |
| `write_confirmation` | 2 identities, 2 notes, 2 audiences, 3 instants, 2 boots, 2 open questions, 1 yes, a tail of 2 lines; with symmetry | 1.8 M | writes are of what a person said yes to; timeouts outlive restarts |
| `note_index` | 3 paths, 2 names, 2 bodies | 261 k | the lexical index is the one a full build gives |
| `gap_store` | 1 meaning, 2 wordings (one blank), 2 calls in flight, 3 searches, 2 boots | 1.5 M | counters are sound; one open row per question |
| `service` | 2 owners, 2 tasks, 1 call, TTL 1 of 1 tick, 2 boots | 290 k | the task store implements its contract; owners only; unknown is final; answers are audited; a shutdown ends |
| `sign_in` | 2 clients, 2 agents, 2 secrets, 2 master tokens, 2 codes, TTL 1 of 2 instants, 3 boots | 229 k | tokens go back to one consent; a token is worth its subject and nothing else; one era answers a conversation |
| `note_writes` | 3 folders, one of them ignored; 2 calls, 2 promotions | 5.6 M | an agent's text waits; one commit moves the note |
| `library` | up to 3 of 12 notes, 2 scopes, lists of 2, depth 2, limits of 1 and 2, scores of both signs | 269 k | nothing hidden is named, but what a visible note disputes; a slice of the graph is honest; searches keep to the evidence; lint agrees with the graph; the curator's lists are complete |
| `communities` | all graphs of 5 notes | 20 k | levels agree; moves climb; what is reported is a partition into what is connected |

One run fails, on a sentence of the repository (quoted under `findings` in
`PROJECT.json`): `reload_crash`, against "a failed reload is a log line" and
"nothing restarts".

Findings that have no run of their own were met while translating, and are
listed in `PROJECT.json` with both sides quoted: commits (what a failed `git add`
leaves, whose text a commit holds, a push armed during a close), confirmations
(the audience is not in the fingerprint), timeouts (lines of the audit older than
the tail may be well within the memory), gaps closed by another process, tasks
(the TTL counts from creation, a cancel is not heard), the audit of a forced
close, promotions (a file the loaded list does not have, a note never
committed), writes (two creates at once; the end of an agent's text left under
the owner's header), the demotion of scores that spread or are below zero, the
curator (a pair is told of that the reader cannot see; notes of one name are
compared as one), and several places where links are compared by their text or a
view changes what they resolve to. The models do each of these as the code does,
and the properties are stated so as to hold all the same; the comment on each
says what it leaves out.

Bounds. Contents are written at most `MaxChanges` times, files removed
`MaxDeletions` times, processes started `MaxBoots` times; calls, searches,
times and open questions have bounds of their own (`MaxCalls`, `MaxSearches`,
`MaxTime`, `MaxAsked`, `MaxYes`, `MaxProms`, `MaxNotes`, `MaxRounds`, `MaxPasses`). Three
contents are what the races need: one served, one read by a reload, one written
meanwhile. Two paths let a reload read one file before and the other after a
change. Two calls on git are enough for every pairing of a job with the file
and the queue of another, and for one to open a file that the other has staged,
is writing or has open. Two identities, two notes and two audiences are what an
altered retry can change; an audit of which two lines are read is one that two
calls push a timeout out of. A deletion may cost a restart, so `MayStop` keeps one
boot for it: without it a crash could use up the restarts and "served in the
end" would fail for want of a process. Two tasks and two owners are what
"another's" needs; a TTL of one tick lets a task end before it is over and at
it, be swept, and be asked for after. Two codes let one be tried while another
is pending, and three boots let an agent leave the file and come back. Two
folders are a proposal's and its destination, and a third is kept out by
`.manentignore`, where a person may keep anything; two calls may have one file
open at once, or one of them what a promotion rewrites and moves, and a second
promotion finds what the first left. Three notes are a link, its target and a file that shares the
target's name; the corpus has a note whose frontmatter does not parse, two that
share a name, and maps open to more or fewer readers than what they list, in
either link syntax. Lists are cut at two, so that a third note is past every cut:
`FusedDepth`, `HybridDepth` and `AtMost` are 2 and `Times` is 2, where the code
has 30, 60, 100 and 3; the theorems are for any. Five notes are the fewest with
two communities and a note between them; `MaxRounds` and `MaxPasses` are the
code's own limits. At this size no search reaches them and no community comes out
in pieces: what `PartsAreSubjects` says of those cases is exercised by a mutant
(a round that ends a pass at once) and established by the proof. `Torn` is what a reader sees of a file truncated and not yet
written. Deadlock is not checked where the system may really stop, every bound
used up or the process gone for good; `note_index` can always go on, and is
checked.

Assumptions that are switches. `PromptWrites`: a debounce outlasts a write. A
timeout armed once a call has opened its file does not run out before that call
has ended, which is to say that a write takes less than 400 ms. Timeouts armed
before it, by a change of any file, and those orphaned, run out whenever they do,
so a reload may begin, read and end in the middle of a write. Without it a reload
that finished between a write and its `applyWrite` can be followed by the fold of
an older content with nothing left armed. `StartupEdits`: files may change
between the first load and the start of the watch; the code does not see such a
change until another one. The runs take the first TRUE and the second FALSE, the
properties that need them say so, and the README of the repository promises
neither way.

Fairness. Everything the event loop has ready is run and the file system
answers (`WF` on reading, flushing, settling, passes, the warmup, git
commands); a write that has begun ends; systemd restarts a process that failed,
and not one that exited as it was told to, which stays down until somebody
starts it: nobody is obliged to, and the liveness properties except it; a
shutdown that has begun goes on. In `Service`, work ends (a promise
settles), the stream is written, the grace timer fires and a closing process
exits; a call in flight is not obliged to end, which is why the grace timer is
there, and nobody is obliged to fetch a task. Nobody is obliged to edit, call,
push from elsewhere, pull or stop. A debounce that is re-armed for ever is
excluded only because changes are bounded, and is listed as a hazard no
property covers. Liveness properties allow the failures the code gives up on: a
model that does not load, a last pass that fails (`lapsed`), a push that was
refused or failed.

## Proofs

TLAPS proves, for every value of the constants:

**The served vault** (`BrainContext_proofs`).
- `ServedCorrect`: the dense index is never silently behind and views are
  current. The induction needs what the code's comment at `context.ts:170-176`
  says, that passes exist only after the warmup; that an index being embedded by
  the warmup while `seen = generation` is of the notes served; and that no view
  has a version greater than the context's.
- `BrainCorrect`: the same two invariants, the types and `NoEventForgotten` of
  the whole system. The steps of `BrainContext` are shown to be steps or stutters
  of the two modules it composes, so their invariants lift (`ServedLift`,
  `WatchLift`); `NoEventForgotten` needs that `again` is set only while a call
  runs.
- `Freshness`: assuming `PromptWrites`, in the sense above, and `~StartupEdits`, a
  quiet server serves the disk. "Quiet" alone is not inductive. The invariant says of every path that
  what is served, or what the running reload has read or will read, is on disk,
  or something is armed that will look again: an event, a pending path with a
  timer, `again`, or a write in hand. It is the conjunction of `ControlInv` (which
  control states go together), `BusyInv` (a write in hand has yet to be reported,
  or a timeout armed since it began is to come), `ReadInv` (what has been read) and
  `FreshInv` (the above).

**The lexical index** (at the end of `Communities_proofs`, with which it shares
lemmas on finite sets and numbers).
- `InPlaceNeverLags`: the index updated in place is the one a full build gives.
  Its invariant is hardly more than the property; the work is in the lemmas about
  lists, what the first note of a path or a name is after an update, an insertion
  in order or a reload, which hold for every list and are stated once.

**Writes** (`NoteWrites_proofs`, which holds the theorems of `WriteConfirmation` too).
- `Confirmed` and `TimeoutsRemembered`: the confirmation properties, for all
  clients, times, restarts and tails. The first needs the time of a question a
  person answered, which its type bounds. The second rests on the memory never
  holding less than the end of the audit does, or later (`TailIsKnown`).
- `ProposalsWait`: a header over a text nobody vouched for is a private
  proposal's, on disk, staged and committed. It is inductive once the same is said
  of what calls and the promotion have in hand, and once a file of a call by an
  agent is known to be one it stamped (`AgentsPropose`, `AllWait`). It holds whatever
  overlapping writes leave in a tail, because a promotion vouches for all it read,
  the tail included.
- `BothEndsCommitted`: a promotion's commit holds one end of the move. Its
  invariant (`Texts`) follows the pieces: a call in flight has one no other text
  has, everything on disk or staged is of calls that have written, and once a
  promotion is staged, the index differs at its two ends, and each end of the
  index from the other end of the disk, because a server's commit copies one to
  the other. On disk no two folders have one text under their headers
  (`NeverTwoCopies`), which is a lemma and not claimed for itself: texts are
  compared whole there, and a piece of one may well be in two files, as when a call
  that had decided on the old place appends there after the move.

**Git** (`VaultGit_proofs`).
- `ToldTheTruth`: a call told "committed" or "skipped" has in the history what it
  left in its file, or what the file held later, which may be another call's text
  or a file just truncated; and a file all of whose calls were told so is in the
  history as it stands. The history is never ahead of the index, nor the index of
  the files (`NeverBackwards`); a call waits exactly as long as one job of the
  queue is its own (`JobsAreCalls`); and what the command before found still holds
  when the next one starts, whatever was opened or written between them
  (`StageIsSound`).
- `NoneLeftBehind`: every commit the remote lacks has a push coming, a failure
  reported, or a call told so. It needs that a commit is of a call told something,
  except between the commit and its `rev-parse` (`CommitsAreCalls`).
- `CloseIsPatient`: what a close owes is, until it is done, among the first
  `awaited` jobs of the queue (`Closing`), which the jobs queued meanwhile do not
  disturb.

**The gap register** (`GapStore_proofs`).
- `CountersSound`, `OffersUnread`, `AllSearched` and `OneRow`, from one invariant
  of two halves. `Register` is the three properties of the tables and the tracker,
  with every pointer sound and every search offered at most once. `Grouping` is
  the race: a call that awaits its embedding has found no gap by key, and
  `MadeMeanwhile` says that any gap another call has made of that question since
  is in the memory it will look into when it wakes. It fails as soon as one
  embedding fails, which is why the property excepts that (`hiccup`).

**What a reader is told** (`Library_proofs`).
- `NoHiddenName`, `GraphIsHonest`, `LintIsRight` and `CurationMissesNothing`, for
  every list of notes, links, labels, names that files share, depths, limits and
  sizes of text. The invariant adds to what an answer is the bound on the notes,
  and that no two of them have one path (`Distinct`): it makes the linter's
  findings about one note each, and holds only because `Write` puts a note in its
  place. `Sincere` says of an answer what its tool
  promised, over the list it was made from; that list cannot change before the
  answer is sent.
- Induction over data is done by hand, once: `AllNumbers`, from the well-founded
  order of the naturals. From it follows that what is kept of a list is kept in its
  order and whole (`KeptWhole`), on which everything about a view rests.
  `EachRankIsTaken` counts: a finite total order gives every place to one member.
  Hence a sort that is one and, notes being ahead of each other in such an order
  (`AheadIsAnOrder`), a slice that is full when something is missing (`CutIsFull`,
  `SliceIsCut`).
- It assumes that what a note says is finite, that bounds are naturals, that no
  scope names the label `private`, and of the curator that `MinShingles` is
  positive and `Factor` at least two.
- `SearchKeepsToEvidence`: of two notes, the one that is above the other in every
  list stays above it through the merging of the lists (`MetKeepsAbove`), the
  scores (`ShareFalls`), two stable sorts (`SortKeepsAbove`), the demotion
  (`DemotionKeepsAbove`) and the cut (`PrefixKeepsAbove`). That a verified note is
  above a demoted one is arithmetic: with less than a third of `RrfK` in a list
  the last place is worth more than three quarters of the first
  (`PlacesAreClose`), for which `PartIsExact` shows the common denominator to be
  one of every place, and that lists are no longer than the vault is a conjunct of
  the invariant.
- The cuts of the lists and the depth of the demotion come in as counts: a note at
  a place within what is pulled is looked at, and one past it has as many as are
  pulled above it, which is the exception the property makes.
- Two attempts at it that failed were about the property. It asked for the status
  of a note among all notes, where the code has only the reader's: with a file of
  the same name hidden from him the two differ, and the code is right. And it took
  scores to be positive: the dense ranker's may be below zero, and halving one of
  those raises it, so the run has such a score now and the property says where
  demotion is in order.

**The community report** (`Communities_proofs`).
- `LevelsAlwaysAgree`: a partition of a level scores what it scores as one of the
  notes, and the total degree is kept. The invariant (`Sound`) is that the level
  is the graph collapsed by where the notes are, for which collapsing twice has to
  be collapsing once (`CollapsedAgain`). That degrees count the pairs within a
  set twice and those at its border once (`DegreesCountPairs`) is what makes the
  halving of `aggregate` right.
- `MovesAlwaysClimb`: a move makes the partition of all the notes better, by twice
  the gain the code computed (`MeritOfMore`, `GainsClimb`), at any level. So no
  sequence of moves goes round.
- `PartsAreAlwaysSubjects`: however the search ended, the parts are a partition,
  `Reach` finds what is connected (`ReachIsLeast`) and does so from anywhere in it
  (`ReachIsMutual`); a part has at least the links a tree has (`PartsAreHeld`), and
  the report counts those its notes have (`PartsCount`); pieces are worth at least
  what they are worth as one (`PiecesAreWorthMore`, `SplittingIsFree`). That whole
  communities are better apart needs a second invariant (`Settled`): in a round
  where nobody has moved yet, those tried have nowhere better to go. It holds only
  of a search that no limit ended, and the theorem says so.
- Sums are the library's folds, which choose the order of their summands. Nothing
  was proved of those: `SumUnfolds` shows that the fold is the recursion it is
  defined by, from which follow, by induction over the size of a set, that the
  order does not matter (`SumTakes`), that sums split (`SumOfUnion`), compare
  (`SumIsMonotonic`), and may be taken by image (`SumByImage`) or under other names
  (`SumRenamed`).
- To be provable, `Modularity` became a sum of merits by community and the parts a
  set of sets rather than labels; and where the property spoke of a flag it now
  speaks of the limits themselves.

**Sign-in and eras** (`SignIn_proofs`).
- `Consented`, `Exact`: a pending code is of one consent of this process, and every
  token is the minting of what its
  record says; minting is one-to-one in the subject, which is where the two forms
  of an id matter.
- `ErasKeptApart`: a conversation stays with one implementation. No induction: a
  case analysis of the routes. It was a failed attempt at this proof that showed
  the routes written as a CASE whose guards overlap, which TLA+ leaves open and
  the code, a series of early returns, does not; they are nested conditions now.

**Tasks and the process** (`Service_proofs`).
- `OwnersAlone` and `GoneForGood` rest on records of the running process having the
  owner they were created with, and on a task
  forgotten once never having a record again; `Audited` on every answered call
  being on disk, in the stream's buffer, or excused by an abrupt end.
- `Implements` shows every step of `Service` to be a step of `TaskContract` or a
  stutter, under `Fate`: `Spec => Contract!Safe`. The liveness half of the
  contract, that a task does not stay running for ever, is in the run only.

Every inductive invariant was checked by TLC on the run's own instance before it
was proved. Assumptions on constants are the named `ASSUME`s of the modules:
bounds are naturals, a value that stands for nothing is none of the values, the
owner is not the name of an agent. `Freshness` adds the two switches. No fairness
is used.

Only model-checked:

- every liveness property, since the prover handles neither fairness nor
  ENABLED: `EventuallyServed`, `EventuallySemantic`, `EventuallyPushed`,
  `ShutdownEnds` and the second half of `ContractKept`;
- `ReloadsAreSurvived`, which is refuted, not proved.

## Not modelled

- The pages and widgets of `server/src/apps.ts`, SSE framing, discovery documents
  and client registration: what they send depends on no state they keep.
- Tokenisation, embeddings, BM25 and PageRank in floating point: scores are the
  environment's, and only their order and combination are modelled.
- The rules of lint about one note's own text (schema, feedback sections, dates in
  paths, personal data, injected instructions) and `core/src/redact.ts`: regular
  expressions over one string.
- `eval`, whose figures are sums over a file of questions; `cli/src/index.ts` and
  `init.ts`, argument parsing and templates; `scripts/`, which drive the program
  from outside.
- Of the register: feedback rows and their outcomes, the order of a listing, the
  golden file. Of search: duplicates by vector.
- A platform without recursive watching; the reuse of vectors by content hash and
  the atomic rewrite of the cache file; restarts of the git queue.

## Plan

What is left, in order:

1. Restarts of the git queue: commits a dead process left unpushed.
2. Audiences in `BrainContext`, for the moment between an edit of a note's
   audience and the reload, with raw reads.
3. An abstract specification of the served vault (a read returns what the disk
   held at some moment since the last quiet), and `BrainContext` shown to
   implement it.
4. Feedback rows and outcomes of the register, and what they do to the golden set.
5. Larger graphs for `Communities`, where a pass may leave a community in pieces.
