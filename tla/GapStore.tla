------------------------------ MODULE GapStore ------------------------------
(***************************************************************************)
(* The gap register (packages/server/src/gaps.ts): every search, grouped   *)
(* by question, and which searches a read followed.  `brain_search` and    *)
(* `brain_read` (tools.ts) feed it; `manent gaps`                          *)
(* (packages/cli/src/gaps.ts) closes and dismisses, from a process of its  *)
(* own, on the same file.                                                  *)
(*                                                                         *)
(* A statement is atomic, a group of them is not: each runs alone, and the *)
(* one after it may fail (the other process holds the lock, the disk is    *)
(* full), which the caller of recordSearch logs and forgets.               *)
(*                                                                         *)
(* A question is what it means and how it is worded: the wording is what   *)
(* normalizeQuery makes of it, none when it has no content word, and two   *)
(* embeddings are similar when they mean the same.                         *)
(***************************************************************************)
EXTENDS Naturals, FiniteSets, SequencesExt

CONSTANTS
  Meanings,    \* what may be asked
  Wordings,    \* how it may be put
  Blank,       \* put without a content word: the empty key
  Agents,      \* who asks
  Names,       \* the notes a search may return
  Calls,       \* calls in flight at the same time
  MaxSearches, \* bound: searches ever made
  MaxBoots     \* bound: servers started

ASSUME BoundsAssumption == MaxSearches \in Nat /\ MaxBoots \in Nat

VARIABLES
  gaps,      \* the table `gaps`; an id is a position
  searches,  \* the table `searches`
  centroids, \* the gaps `centroids` has a vector for, in the server's memory
  embedder,  \* `embed` is set
  call,      \* per call in flight: what it asked, awaiting its embedding
  recent,    \* `FollowTracker.recent`, oldest first
  made,      \* searches made so far
  boots,     \* servers started so far
  hiccup     \* an embedding has failed

tables == <<gaps, searches>>
memory == <<centroids, embedder, recent>>
vars == <<tables, memory, call, made, boots, hiccup>>

Question == [meaning : Meanings, wording : Wordings]
Idle == [at |-> "idle"]

Init ==
  /\ gaps = <<>> /\ searches = <<>>
  /\ centroids = {} /\ embedder = FALSE
  /\ call = [c \in Calls |-> Idle]
  /\ recent = [a \in Agents |-> <<>>]
  /\ made = 0 /\ boots = 1
  /\ hiccup = FALSE
-----------------------------------------------------------------------------
\* `findByKey`: the open gaps of this wording; the code takes the last asked of them.
ByKey(q) ==
  {g \in DOMAIN gaps : q.wording # Blank /\ gaps[g].question = q /\ gaps[g].status = "open"}

\* `findByVector`: the gaps similar enough that the server's memory has.
ByVector(q) == {g \in centroids : gaps[g].question.meaning = q.meaning}

\* One of the gaps found, 0 when there is none.
OneOf(found) == IF found = {} THEN {0} ELSE found

\* `foldCentroid`: the memory has a vector for the gap from here on.
Folded(id, vec) == IF vec THEN centroids \cup {id} ELSE centroids

\* Mutant of Insert: the search is inserted first, and its gap counted after it.
InsertSwapped(a, q, hits, g, vec, stored, kept) ==
  LET id == IF g = 0 THEN Len(gaps) + 1 ELSE g
  IN /\ gaps' = IF g = 0
                  THEN Append(gaps, [question |-> q, count |-> 1, followed |-> 0,
                                     status |-> "open", vec |-> vec])
                  ELSE [gaps EXCEPT ![g].count = IF kept THEN @ + 1 ELSE @]
     /\ centroids' = Folded(id, vec)
     /\ searches' = Append(searches, [gap |-> id, agent |-> a, followed |-> FALSE])
     /\ recent' = [recent EXCEPT ![a] = Append(@, [search |-> Len(searches) + 1, names |-> hits])]

(***************************************************************************)
(* The statements that follow the first: the gap counted or inserted, its  *)
(* vector folded into the memory, then stored, then the search inserted,   *)
(* and last, back in brain_search, remembered for the reads to come.       *)
(***************************************************************************)
Insert(a, q, hits, g, vec, stored, kept) ==
  LET id == IF g = 0 THEN Len(gaps) + 1 ELSE g
  IN /\ gaps' = IF g = 0
                  THEN Append(gaps, [question |-> q, count |-> 1, followed |-> 0,
                                     status |-> "open", vec |-> vec])
                  ELSE [gaps EXCEPT ![g].count = @ + 1, ![g].vec = @ \/ (vec /\ stored)]
     /\ centroids' = Folded(id, vec)
     /\ IF kept
          THEN /\ searches' = Append(searches, [gap |-> id, agent |-> a, followed |-> FALSE])
               /\ recent' = [recent EXCEPT ![a] = Append(@, [search |-> Len(searches) + 1, names |-> hits])]
          ELSE UNCHANGED <<searches, recent>>

\* The rest of `recordSearch`, with no await in it: gap g, or a new one when g is 0.
Record(a, q, hits, g, vec) ==
  \/ UNCHANGED <<tables, centroids, recent>>
  \/ \E stored, kept \in BOOLEAN :
       /\ kept => stored
       /\ Insert(a, q, hits, g, vec, stored, kept)

\* `brain_search` answers hits and records: at once, or after an embedding.
Search(c, a, q, hits) ==
  /\ call[c] = Idle
  /\ made < MaxSearches
  /\ made' = made + 1
  /\ \E g \in OneOf(ByKey(q)) :
       \/ /\ embedder
          /\ call' = [call EXCEPT ![c] = [agent |-> a, question |-> q, hits |-> hits, gap |-> g]]
          /\ UNCHANGED <<tables, centroids, recent>>
       \/ /\ ~embedder
          /\ Record(a, q, hits, g, FALSE)
          /\ UNCHANGED call
  /\ UNCHANGED <<embedder, boots, hiccup>>

\* Mutant of Embedded: the vector search ran before the embedding was awaited.
EmbeddedEarly(c) ==
  /\ call[c] # Idle
  /\ Record(call[c].agent, call[c].question, call[c].hits, call[c].gap, TRUE)
  /\ call' = [call EXCEPT ![c] = Idle]
  /\ UNCHANGED <<embedder, made, boots, hiccup>>

\* The embedding is there: the gap found by key before, or one found by vector now.
Embedded(c) ==
  /\ call[c] # Idle
  /\ \E g \in IF call[c].gap # 0 THEN {call[c].gap} ELSE OneOf(ByVector(call[c].question)) :
       Record(call[c].agent, call[c].question, call[c].hits, g, TRUE)
  /\ call' = [call EXCEPT ![c] = Idle]
  /\ UNCHANGED <<embedder, made, boots, hiccup>>

\* "model hiccup: fall back to the key for this one"
EmbedFails(c) ==
  /\ call[c] # Idle
  /\ Record(call[c].agent, call[c].question, call[c].hits, call[c].gap, FALSE)
  /\ call' = [call EXCEPT ![c] = Idle]
  /\ hiccup' = TRUE
  /\ UNCHANGED <<embedder, made, boots>>
-----------------------------------------------------------------------------
\* `markFollowed`: two statements, the second of which may fail.
MarkFollowed(s) ==
  /\ ~searches[s].followed
  /\ searches' = [searches EXCEPT ![s].followed = TRUE]
  /\ gaps' \in {gaps, [gaps EXCEPT ![searches[s].gap].followed = @ + 1]}

\* `noteRead`: the place of the last search of this agent that returned the note, if one did.
Offering(a, name) ==
  {i \in DOMAIN recent[a] :
     /\ name \in recent[a][i].names
     /\ \A j \in DOMAIN recent[a] : name \in recent[a][j].names => j <= i}

\* Mutant of Read: the search stays among the recent ones.
ReadKeeps(a, name) ==
  /\ \E i \in Offering(a, name) :
       /\ UNCHANGED recent
       /\ MarkFollowed(recent[a][i].search) \/ UNCHANGED tables
  /\ UNCHANGED <<centroids, embedder, call, made, boots, hiccup>>

\* `brain_read`: the search that offered the note is consumed, and marked as followed.
Read(a, name) ==
  /\ \E i \in Offering(a, name) :
       /\ recent' = [recent EXCEPT ![a] = RemoveAt(@, i)]
       /\ MarkFollowed(recent[a][i].search) \/ UNCHANGED tables
  /\ UNCHANGED <<centroids, embedder, call, made, boots, hiccup>>

\* The oldest search is past the window, or past `perAgent`.
Forget(a) ==
  /\ recent[a] # <<>>
  /\ recent' = [recent EXCEPT ![a] = Tail(@)]
  /\ UNCHANGED <<tables, centroids, embedder, call, made, boots, hiccup>>
-----------------------------------------------------------------------------
\* `closeGap` and `dismissGap`, whatever its status was.
Settled(g, status) == [gaps EXCEPT ![g].status = status]

\* `manent gaps --close` or `--dismiss`: this file, another process's memory.
Resolve(g, status) ==
  /\ gaps[g].status # status
  /\ gaps' = Settled(g, status)
  /\ UNCHANGED <<searches, memory, call, made, boots, hiccup>>

\* The ranker is ready: `setEmbedder`.
WarmedUp ==
  /\ ~embedder
  /\ embedder' = TRUE
  /\ UNCHANGED <<tables, centroids, recent, call, made, boots, hiccup>>

\* Mutant of Restart: the register groups by what this process has seen.
RestartCold ==
  /\ boots < MaxBoots
  /\ boots' = boots + 1
  /\ centroids' = {}
  /\ embedder' = FALSE
  /\ call' = [c \in Calls |-> Idle]
  /\ recent' = [a \in Agents |-> <<>>]
  /\ UNCHANGED <<tables, made, hiccup>>

\* The server stops, or dies, and starts again: `open`, `loadCentroids`.
Restart ==
  /\ boots < MaxBoots
  /\ boots' = boots + 1
  /\ centroids' = {g \in DOMAIN gaps : gaps[g].status = "open" /\ gaps[g].vec}
  /\ embedder' = FALSE
  /\ call' = [c \in Calls |-> Idle]
  /\ recent' = [a \in Agents |-> <<>>]
  /\ UNCHANGED <<tables, made, hiccup>>

Next ==
  \/ \E c \in Calls, a \in Agents, q \in Question, hits \in SUBSET Names : Search(c, a, q, hits)
  \/ \E c \in Calls : Embedded(c) \/ EmbedFails(c)
  \/ \E a \in Agents, name \in Names : Read(a, name)
  \/ \E a \in Agents : Forget(a)
  \/ \E g \in DOMAIN gaps, status \in {"closed", "dismissed"} : Resolve(g, status)
  \/ WarmedUp
  \/ Restart

Spec == Init /\ [][Next]_vars
-----------------------------------------------------------------------------
SearchesOf(g) == {s \in DOMAIN searches : searches[s].gap = g}

FollowedOf(g) == {s \in SearchesOf(g) : searches[s].followed}

(***************************************************************************)
(* The counters never flatter a gap: it was asked at least as often as it  *)
(* has searches, and read at most as often as those were followed, though  *)
(* any statement may be the last of its group to succeed (gaps.ts:217-246; *)
(* the work list is ordered by asked minus read, gaps.ts:263).             *)
(***************************************************************************)
CountersAreSound ==
  \A g \in DOMAIN gaps :
    /\ gaps[g].followed <= Cardinality(FollowedOf(g))
    /\ Cardinality(SearchesOf(g)) <= gaps[g].count

(***************************************************************************)
(* A search the tracker still offers to a read is that agent's, and has    *)
(* not been followed: "consumed once" (gaps.ts:461).                       *)
(***************************************************************************)
RecentAreUnread ==
  \A a \in Agents : \A i \in DOMAIN recent[a] :
    LET s == searches[recent[a][i].search]
    IN s.agent = a /\ ~s.followed

(***************************************************************************)
(* Every open gap the file has a vector for is searched by meaning by the  *)
(* running server, restarted or not (gaps.ts:186-193, 378-396).            *)
(***************************************************************************)
MeaningsAreSearched ==
  \A g \in DOMAIN gaps : gaps[g].status = "open" /\ gaps[g].vec => g \in centroids

(***************************************************************************)
(* "One row per question group" (gaps.ts:11): the same question asked at   *)
(* the same time makes one open gap, because the gaps are searched by      *)
(* vector after the embedding is awaited -- unless an embedding failed.    *)
(***************************************************************************)
OneRowPerQuestion ==
  ~hiccup =>
    \A g, h \in DOMAIN gaps :
      /\ gaps[g].status = "open" /\ gaps[h].status = "open"
      /\ gaps[g].question = gaps[h].question /\ gaps[g].question.wording # Blank
      => g = h
=============================================================================
