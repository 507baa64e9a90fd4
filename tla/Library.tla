------------------------------ MODULE Library ------------------------------
(***************************************************************************)
(* The read side of the server over a vault that is being written: notes   *)
(* come, change and go; readers, each with a scope, ask what is near a     *)
(* note, for the graph around it, for a search; the linter and the curator *)
(* read the same notes.  An answer stays in `answer` until it is sent.     *)
(***************************************************************************)
EXTENDS Ranking, Lint, Curation

CONSTANTS
  Corpus,      \* the forms the notes may take
  Scopes,      \* read scopes of the identities
  Alphabet,    \* the segments of paths and names, in order
  MaxNotes,    \* bound on the notes of the vault
  MaxMatches,  \* bound on the notes a query's words match
  MaxDepth,    \* bound on the hops asked for
  MaxShown,    \* bound on the results asked for
  NoAnswer     \* nothing asked

ASSUME BoundsAssumption ==
  /\ RrfK \in Nat /\ Longest \in Nat /\ MaxNotes \in 0 .. Longest
  /\ MaxDepth \in Nat /\ MaxShown \in Nat
ASSUME ScoresAssumption == Scores \subseteq Int
\* A note is written down: it links to and says so much.
ASSUME CorpusAssumption == \A note \in Corpus :
  /\ IsFiniteSet(note.links) /\ IsFiniteSet(note.text)
  /\ \A kind \in Kinds : IsFiniteSet(note.cites[kind])
\* Names and links are spelled in the alphabet, each segment of which has one place in it.
ASSUME AlphabetAssumption ==
  /\ Alphabet \in Seq(Range(Alphabet))
  /\ \A p, o \in DOMAIN Alphabet : Alphabet[p] = Alphabet[o] => p = o
  /\ \A note \in Corpus :
       {note.name} \cup note.links \cup UNION {note.cites[kind] : kind \in Kinds} \subseteq Seq(Range(Alphabet))
ASSUME ScopeAssumption == \A s \in Scopes : "private" \notin s

VARIABLES notes, answer
vars == <<notes, answer>>

Init == notes = <<>> /\ answer = NoAnswer

Idle == answer = NoAnswer

\* A note is written: in its place, or at the end.
Write(note) ==
  /\ Idle
  /\ notes' = IF At(notes, note.path) # {} THEN [notes EXCEPT ![First(At(notes, note.path))] = note]
              ELSE Append(notes, note)
  /\ Len(notes') <= MaxNotes
  /\ UNCHANGED answer

Delete(i) ==
  /\ Idle
  /\ notes' = RemoveAt(notes, i)
  /\ UNCHANGED answer

\* The answer is sent.
Sent == answer # NoAnswer /\ answer' = NoAnswer /\ UNCHANGED notes

Answers(a) == answer' = a /\ UNCHANGED notes
-----------------------------------------------------------------------------
\* `brain_neighbors`.
BrainNeighbors(scope, name, depth) ==
  Idle /\ Answers([tool |-> "neighbors", scope |-> scope, name |-> name,
           names |-> Neighbors(View(notes, scope).graph, name, depth)])

\* `brain_list`.
BrainList(scope, limit) ==
  Idle /\ Answers([tool |-> "list", scope |-> scope,
                   names |-> {n.name : n \in Range(Prefix(View(notes, scope).notes, limit))}])

\* `brain_grep`: a pattern may match any of the notes of the view, to a limit.
BrainGrep(scope, limit) ==
  LET shown == View(notes, scope).notes
  IN Idle /\ \E found \in {S \in SUBSET Places(shown) : Cardinality(S) <= limit} :
       Answers([tool |-> "grep", scope |-> scope, names |-> {shown[i].name : i \in found}])

\* `brain_read`: a name that is no note of the view is refused.
BrainRead(scope, name) ==
  Idle /\ Answers([tool |-> "read", scope |-> scope, names |-> {name} \cap View(notes, scope).graph.nodes])

\* `brain_read_raw`: the same, and refused when the file is not there any more.
BrainReadRaw(scope, name) ==
  Idle /\ \E there \in BOOLEAN :
    Answers([tool |-> "raw", scope |-> scope,
             names |-> IF there THEN {name} \cap View(notes, scope).graph.nodes ELSE {}])

\* `brain_quarantine`: the oldest of the notes of the view that wait; ages are not modelled.
BrainQuarantine(scope, limit) ==
  LET waiting == {n.name : n \in {m \in Range(View(notes, scope).notes) : m.status = "quarantine"}}
  IN Idle /\ \E shown \in {S \in SUBSET waiting : Cardinality(S) <= limit} :
       /\ shown = waiting \/ Cardinality(shown) = limit
       /\ Answers([tool |-> "quarantine", scope |-> scope, names |-> shown])

\* Edges of the slice: `brain_graph` counts no link of a note to itself.
Between(g, names) == {e \in g.edges : e.from # e.to /\ e.from \in names /\ e.to \in names}
LinkCount(g, name) == Cardinality({e \in Between(g, g.nodes) : name \in {e.from, e.to}})

Position(segment) == CHOOSE p \in DOMAIN Alphabet : Alphabet[p] = segment
\* `localeCompare`: the first segment that differs decides, and what goes on comes after.
Earlier(a, b) ==
  \E i \in DOMAIN b :
    /\ i <= Len(a) + 1
    /\ \A j \in 1 .. (i - 1) : a[j] = b[j]
    /\ i > Len(a) \/ Position(a[i]) < Position(b[i])

\* Mutant of Ahead: the centre is sorted with the others.
AheadByLinks(g, center, a, b) ==
  LinkCount(g, a) > LinkCount(g, b) \/ (LinkCount(g, a) = LinkCount(g, b) /\ Earlier(a, b))

\* The order of the slice: the centre, then the most linked, then by name.
Ahead(g, center, a, b) ==
  \/ a = center /\ b # center
  \/ b # center /\ (LinkCount(g, a) > LinkCount(g, b) \/ (LinkCount(g, a) = LinkCount(g, b) /\ Earlier(a, b)))

(***************************************************************************)
(* `brain_graph`: the notes around a centre, or the most linked ones, cut  *)
(* to a limit, and one edge per pair of them and kind.                     *)
(***************************************************************************)
BrainGraph(scope, center, depth, limit) ==
  LET g == View(notes, scope).graph
      reached == IF center = <<>> THEN g.nodes ELSE {center} \cup Neighbors(g, center, depth)
      chosen == {n \in reached : Cardinality({m \in reached : m # n /\ Ahead(g, center, m, n)}) < limit}
  IN /\ Idle
     /\ center = <<>> \/ center \in g.nodes
     /\ Answers([tool |-> "graph", scope |-> scope, center |-> center, depth |-> depth, limit |-> limit,
                 names |-> chosen,
                 edges |-> {[ends |-> {e.from, e.to}, kind |-> e.kind] : e \in Between(g, chosen)},
                 truncated |-> Cardinality(chosen) < Cardinality(reached)])

\* Every order a set may be listed in.
Orders(S) == {s \in [1 .. Cardinality(S) -> S] : Range(s) = S}

(***************************************************************************)
(* The list a ranker has besides what the words match: the vectors order   *)
(* every note, the walk from the best of what the words match meets what   *)
(* it meets.                                                               *)
(***************************************************************************)
OtherLists(ranker, g, lexical) ==
  CASE ranker = "lexical" -> {<<>>}
    [] ranker \in {"dense", "fused"} -> Orders(g.nodes)
    [] ranker = "hybrid" -> IF lexical = <<>> THEN {<<>>} ELSE Orders(Walked(g, Range(Prefix(lexical, Seeds))))

\* Only two of the rankers rank by scores of their own.
Owns(ranker, lexical, other) ==
  CASE ranker = "lexical" -> OwnScores(lexical)
    [] ranker = "dense" -> OwnScores(other)
    [] OTHER -> {<<>>}

\* The hits of the ranker that serves.
HitsBy(ranker, view, lexical, other, own) ==
  CASE ranker = "lexical" -> LexicalHits(lexical, own)
    [] ranker = "dense" -> DenseHits(other, own)
    [] ranker = "fused" -> FusedHits(lexical, other)
    [] ranker = "hybrid" -> HybridHits(view.notes, view.graph, lexical, other)

(***************************************************************************)
(* `brain_search` with one of the rankers `rank` builds over the view.     *)
(***************************************************************************)
BrainSearch(scope, ranker, k) ==
  LET view == View(notes, scope)
      g == view.graph
  IN /\ Idle
     /\ \E matches \in {S \in SUBSET g.nodes : Cardinality(S) <= IF ranker = "dense" THEN 0 ELSE MaxMatches} :
        \E lexical \in Orders(matches) : \E other \in OtherLists(ranker, g, lexical) :
        \E own \in Owns(ranker, lexical, other) :
        \E shown \in {StatusAware(view.notes, HitsBy(ranker, view, lexical, other, own), k)} :
          Answers([tool |-> "search", scope |-> scope, ranker |-> ranker, k |-> k,
                   lists |-> <<lexical, other>>, own |-> own, hits |-> shown, names |-> Range(shown)])

\* `manent lint`.
LintVault == Idle /\ Answers([tool |-> "lint", scope |-> {"*"}, names |-> {}, findings |-> Lint(notes)])

\* `manent curate`, two of its reports: over every note.
CurateVault ==
  Idle /\ Answers([tool |-> "curate", scope |-> {"*"}, names |-> {},
                   rows |-> Contradictions(notes), pairs |-> Duplicates(notes)])

(***************************************************************************)
(* `brain_curate`: the same over the reader's view.                        *)
(***************************************************************************)
BrainCurate(scope) ==
  LET shown == View(notes, scope).notes
      rows == Contradictions(shown)
      pairs == Duplicates(shown)
  IN Idle /\ Answers([tool |-> "brain_curate", scope |-> scope, rows |-> rows, pairs |-> pairs,
                      names |-> {shown[i].name : i \in UNION pairs} \cup UNION {{r.a, r.b} : r \in rows}])

Next ==
  \/ \E note \in Corpus : Write(note)
  \/ \E i \in Places(notes) : Delete(i)
  \/ Sent
  \/ \E scope \in Scopes, depth \in 1 .. MaxDepth :
       \/ \E name \in Graph(notes).nodes : BrainNeighbors(scope, name, depth)
       \/ \E center \in Graph(notes).nodes \cup {<<>>}, limit \in 1 .. MaxShown :
            BrainGraph(scope, center, depth, limit)
  \/ \E scope \in Scopes, ranker \in {"lexical", "dense", "fused", "hybrid"}, k \in 1 .. MaxShown :
       BrainSearch(scope, ranker, k)
  \/ \E scope \in Scopes :
       \/ \E limit \in 1 .. MaxShown : BrainList(scope, limit) \/ BrainGrep(scope, limit) \/ BrainQuarantine(scope, limit)
       \/ \E name \in Graph(notes).nodes : BrainRead(scope, name) \/ BrainReadRaw(scope, name)
       \/ BrainCurate(scope)
  \/ LintVault \/ CurateVault

Spec == Init /\ [][Next]_vars
-----------------------------------------------------------------------------
Asked(tool) == answer # NoAnswer /\ answer.tool = tool

\* Names of notes that are there for others than the reader.
HiddenFrom(scope) == Graph(notes).nodes \ Graph(Visible(notes, scope)).nodes

\* What the notes a reader sees say they disagree with.
Disputed(scope) == UNION {note.cites["contradicts"] : note \in Range(Visible(notes, scope))}

(***************************************************************************)
(* No answer to a reader has the name of a note that exists only for       *)
(* others, whoever links to it, however it came into the vault or left it. *)
(* `brain_curate` alone does, of the notes that one the reader sees says   *)
(* it contradicts.                                                         *)
(***************************************************************************)
AnswersNameNoHidden ==
  answer # NoAnswer =>
    answer.names \cap HiddenFrom(answer.scope) \subseteq
      IF answer.tool = "brain_curate" THEN Disputed(answer.scope) ELSE {}

(***************************************************************************)
(* A slice of the graph is the neighbourhood `brain_neighbors` tells of,   *)
(* with its centre, or the whole graph, for every reader.  It says that it *)
(* was cut exactly when something is missing, which is only when it is as  *)
(* full as it may be, and what is missing has no more links than what is   *)
(* there.  Two notes it shows are joined when each is next to the other.   *)
(***************************************************************************)
GraphAnswersAgree ==
  Asked("graph") =>
    LET g == View(notes, answer.scope).graph
        around == IF answer.center = <<>> THEN g.nodes
                  ELSE {answer.center} \cup Neighbors(g, answer.center, answer.depth)
        missing == around \ answer.names
    IN /\ answer.names \subseteq around
       /\ answer.center = <<>> \/ answer.center \in answer.names
       /\ answer.truncated <=> missing # {}
       /\ Cardinality(answer.names) <= answer.limit
       /\ missing # {} => Cardinality(answer.names) = answer.limit
       /\ \A shown \in answer.names \ {answer.center}, other \in missing : LinkCount(g, other) <= LinkCount(g, shown)
       /\ \A a, b \in answer.names :
            a # b => ((\E e \in answer.edges : e.ends = {a, b}) <=> b \in Neighbors(g, a, 1) /\ a \in Neighbors(g, b, 1))

Above(hits, a, b) ==
  \E i \in DOMAIN hits : hits[i] = a /\ \A j \in DOMAIN hits : hits[j] = b => i < j

(***************************************************************************)
(* What the lists agree on is not reversed, unless the note on top was     *)
(* demoted: a note that is above another one in every list the other is in *)
(* is above it in the hits, if the other is there at all.  (A score below  *)
(* zero is raised by what should demote it: with one about, it is so of    *)
(* notes of one weight.)  What is demoted is so among the notes the reader *)
(* sees: a name two files share may be one of a verified note to one       *)
(* reader and of a demoted one to another.                                 *)
(***************************************************************************)
AgreementHolds ==
  Asked("search") /\ answer.ranker # "hybrid" =>
    LET view == View(notes, answer.scope)
        weight(name) == Weight(StatusOf(view.notes, name))
    IN \A a, b \in view.graph.nodes :
         /\ \A l \in {1, 2} : b \in Range(answer.lists[l]) => Above(answer.lists[l], a, b)
         /\ weight(a) >= weight(b)
         /\ weight(a) = weight(b) \/ \A i \in DOMAIN answer.own : answer.own[i] >= 0
         /\ b \in answer.names /\ a # b
         => Above(answer.hits, a, b)

(***************************************************************************)
(* A note nobody verified does not take the place of one somebody did: a   *)
(* search shows a demoted note below a verified one the vectors have near, *)
(* and not without it, unless as many others as are asked for were found   *)
(* as near as that one, and it was never looked at.  (Of the fused ranker, *)
(* the one that serves once the model is there; near is a place in the     *)
(* first third of RrfK: places are close then.  The ones that rank by      *)
(* their own scores do not promise it: a score that is more than twice     *)
(* another stays above it when it is halved.)                              *)
(***************************************************************************)
VerifiedFirst ==
  Asked("search") /\ answer.ranker = "fused" =>
    LET lexical == Prefix(answer.lists[1], FusedDepth)
        dense == Prefix(answer.lists[2], FusedDepth)
        mass(name) == Mass([weight |-> 1, items |-> lexical], [weight |-> 2, items |-> dense], name)
        Demoted(name) == Weight(StatusOf(View(notes, answer.scope).notes, name)) < 4
    IN \A d \in answer.names, p \in DOMAIN dense :
         /\ 3 * p < RrfK + 4
         /\ Demoted(d) /\ ~Demoted(dense[p])
         /\ Cardinality({n \in (Range(lexical) \cup Range(dense)) \ {dense[p]} : mass(n) >= mass(dense[p])})
              < Pulled(answer.k)
         => Above(answer.hits, dense[p], d)

\* A search keeps to the evidence, and to what was verified.
SearchIsOrderly == AgreementHolds /\ VerifiedFirst

(***************************************************************************)
(* Lint and the server see one graph: a link is reported as unresolved     *)
(* when a reader would find something that is no note among the            *)
(* neighbours of the note it is in, and a note as an orphan when the owner *)
(* would find nothing there; for notes with a name of their own.           *)
(***************************************************************************)
LintSeesTheGraph ==
  Asked("lint") =>
    \A i \in {i \in Places(notes) : ~notes[i].broken /\ Named(notes, notes[i].name) = {i}} :
      LET g == Graph(notes)
          near == Neighbors(g, notes[i].name, 1)
      IN /\ Finding("link-unresolved", i, notes) \in answer.findings
              <=> \E e \in g.edges : e.from = notes[i].name /\ e.kind = "wikilink" /\ e.to \notin g.nodes
         /\ Finding("orphan", i, notes) \in answer.findings
              => near = {}
         /\ near = {} /\ notes[i].type \notin {"index", "moc"} /\ (\A e \in g.edges : {e.from, e.to} # {notes[i].name})
              => Finding("orphan", i, notes) \in answer.findings

(***************************************************************************)
(* The linter reports an index that tells a reader more than the server    *)
(* would: one a reader with that one label opens, which lists a note that  *)
(* is not in his view.                                                     *)
(***************************************************************************)
LeaksAreReported ==
  Asked("lint") =>
    \A i \in {i \in Places(notes) : ~notes[i].broken /\ notes[i].type \in {"index", "moc"}} :
      \A label \in Audiences(notes[i]) \ {"private", "public"} :
        ~(\A j \in Listing(notes, i) : notes[j] \in Range(View(notes, {label}).notes))
          => Finding("audience-leak", i, notes) \in answer.findings

\* What the linter says of the links and the audiences is what the server does.
LintAgrees == LintSeesTheGraph /\ LeaksAreReported

\* The owner's command or a reader's tool has reported.
Curated == Asked("curate") \/ Asked("brain_curate")

(***************************************************************************)
(* A disagreement is one work item, whoever declared it and in whatever    *)
(* order the notes are read: every contradiction the graph shows between   *)
(* two notes is one row, of the kind both sides make it.                   *)
(***************************************************************************)
OneItemPerDispute ==
  Curated =>
    LET view == View(notes, answer.scope)
    IN \A e \in {e \in Sound(view.graph) : e.kind = "contradicts" /\ e.from # e.to} :
         LET rows == {r \in answer.rows : {r.a, r.b} = {e.from, e.to} /\ r.kind # "superseded"}
             mutual == \E f \in view.graph.edges : f.kind = "contradicts" /\ f.from = e.to /\ f.to = e.from
         IN (\A n \in {e.from, e.to} : Cardinality(Named(view.notes, n)) = 1) =>
              Cardinality(rows) = 1 /\ \A r \in rows : r.kind = IF mutual THEN "declared" ELSE "one-sided"

(***************************************************************************)
(* A note pasted into another, which was then extended or the note edited, *)
(* is found as long as half of it is left there and the other is at most   *)
(* Factor times its size; and a pair that says it is one is not news.  Of  *)
(* the notes of one name, only the last is compared by its own words.      *)
(***************************************************************************)
CopiesAreFound ==
  Curated =>
    LET shown == View(notes, answer.scope).notes
    IN \A i, j \in Places(shown) :
         /\ LastNamed(shown, shown[i].name) = {i} /\ LastNamed(shown, shown[j].name) = {j}
         /\ i # j /\ 2 * Cardinality(shown[i].text \cap shown[j].text) >= Cardinality(shown[i].text)
         /\ MinShingles <= Cardinality(shown[i].text) /\ MinShingles <= Cardinality(shown[j].text)
         /\ Cardinality(shown[j].text) <= Factor * Cardinality(shown[i].text)
         => ({i, j} \in answer.pairs <=> ~(Declares(shown, i, j) \/ Declares(shown, j, i)))

\* The curator's two work lists miss nothing and repeat nothing.
CurateIsComplete == OneItemPerDispute /\ CopiesAreFound
=============================================================================
