------------------------------ MODULE Ranking ------------------------------
(***************************************************************************)
(* How ranked lists of names become the hits of a search.  The lists are   *)
(* given: what words or vectors match is not modelled, and what follows    *)
(* uses positions only.  A score is an integer, a multiple of the code's:  *)
(* every list is at most as long as the vault, so a common denominator     *)
(* exists.  The rounding of the scores is left out: it makes some equal,   *)
(* and a sort keeps the order of those.                                    *)
(***************************************************************************)
EXTENDS Links

CONSTANTS
  RrfK,        \* `RRF_K`
  FusedDepth,  \* candidates `fusedRetriever` takes of each list: 30
  HybridDepth, \* and `hybridRetriever`: `candidateDepth`, 60
  Seeds,       \* how many of them its walk starts from: `seedCount`, 5
  Times, AtLeast, AtMost,  \* how far `statusAware` looks past k: 3, 20, 100
  Scores,      \* what a ranker with scores of its own may give
  Longest      \* bound on the length of a list

ASSUME DepthsAssumption ==
  {FusedDepth, HybridDepth, Seeds, Times, AtLeast, AtMost} \subseteq Nat

Denominator ==
  LET Product[n \in 0 .. Longest] == IF n = 0 THEN 1 ELSE (RrfK + n) * Product[n - 1]
  IN Product[Longest]

\* What a list gives a name: its weight over the place of the name.
Share(list, name) ==
  IF name \notin Range(list.items) THEN 0
  ELSE list.weight * (Denominator \div (RrfK + (CHOOSE i \in DOMAIN list.items : list.items[i] = name)))

\* Mutant of Mass: a name in both lists gets the mean of its shares.
MassMean(first, second, name) ==
  LET sum == Share(first, name) + Share(second, name)
  IN IF name \in Range(first.items) \cap Range(second.items) THEN sum \div 2 ELSE sum

\* `reciprocalRankFusion` of two lists, for one name.
Mass(first, second, name) == Share(first, name) + Share(second, name)

\* The names of two lists, in the order the fused map meets them.
Met(first, second) == first.items \o Kept(second.items, {i \in DOMAIN second.items : second.items[i] \notin Range(first.items)})

\* A stable sort by score, best first.
Sorted(names, score) ==
  LET points == {<<i, score[names[i]]>> : i \in DOMAIN names}
      Above(p, q) == p[2] > q[2] \/ (p[2] = q[2] /\ p[1] < q[1])
  IN [r \in DOMAIN names |->
        names[(CHOOSE q \in points : Cardinality({p \in points : Above(p, q)}) = r - 1)[1]]]

Prefix(seq, n) == SubSeq(seq, 1, IF n < Len(seq) THEN n ELSE Len(seq))

\* Hits in order, with the scores statusAware sorts again.
Hits(names, score) == [order |-> Sorted(names, score), score |-> score]

(***************************************************************************)
(* `fusedRetriever`: the first of the lexical and of the dense list, the   *)
(* dense one with twice the weight.                                        *)
(***************************************************************************)
FusedHits(lexical, dense) ==
  LET words == [weight |-> 1, items |-> Prefix(lexical, FusedDepth)]
      meaning == [weight |-> 2, items |-> Prefix(dense, FusedDepth)]
      met == Met(words, meaning)
  IN Hits(met, [name \in Range(met) |-> Mass(words, meaning, name)])

\* Scores a list may come with, best first: they may be near or far apart.
OwnScores(list) ==
  {s \in [DOMAIN list -> Scores] : \A i \in 1 .. (Len(list) - 1) : s[i] >= s[i + 1]}

\* The note at a place of the list has the score at that place.
ByOwnScore(list, scores) ==
  Hits(list, [name \in Range(list) |-> scores[CHOOSE i \in DOMAIN list : list[i] = name]])

\* `bm25Retriever`: what the words match, by the engine's score.
LexicalHits(lexical, scores) == ByOwnScore(lexical, scores)

\* `denseRetriever`: every note, by that of its passages, however they were collapsed.
DenseHits(dense, scores) == ByOwnScore(dense, scores)

(***************************************************************************)
(* The names `personalizedPageRank` gives a mass to: what can be reached   *)
(* from the seeds, in fewer hops than it iterates.                         *)
(***************************************************************************)
Walked(g, seeds) == Reached(Sound(g), seeds, Longest)

(***************************************************************************)
(* `hybridRetriever`: the first of the lexical list and of the walk, which *)
(* has half the weight; then an index or a map keeps two fifths of its     *)
(* score, and centrality adds at most 15%.  Recency is left out: the notes *)
(* are of one age.                                                         *)
(***************************************************************************)
HybridHits(notes, g, lexical, walk) ==
  LET words == [weight |-> 2, items |-> Prefix(lexical, HybridDepth)]
      graph == [weight |-> 1, items |-> Prefix(walk, HybridDepth)]
      met == Met(words, graph)
      degrees == {1} \cup {Degree(g, n) : n \in g.nodes}
      most == CHOOSE m \in degrees : \A d \in degrees : d <= m
      Hub(name) == notes[First(Named(notes, name))].type \in {"index", "moc"}
  IN IF lexical = <<>> THEN Hits(<<>>, <<>>)
     ELSE Hits(met, [name \in Range(met) |->
                       Mass(words, graph, name) * (IF Hub(name) THEN 2 ELSE 5) * (20 * most + 3 * Degree(g, name))])
-----------------------------------------------------------------------------
\* Of a score, in quarters: `DEFAULT_STATUS_WEIGHTS`.
Weight(status) == CASE status \in {"quarantine", "deprecated"} -> 2 [] status = "archived" -> 1 [] OTHER -> 4

\* Of the notes of one name, the last that is demoted decides: only those enter the map.
StatusOf(notes, name) ==
  LET named == Named(notes, name)
      demoted == {i \in named : Weight(notes[i].status) < 4}
      entered == IF demoted = {} THEN named ELSE demoted
  IN notes[CHOOSE i \in entered : \A j \in entered : j <= i].status

\* How many hits are asked for, to show k of them.
Pulled(k) ==
  LET far == IF Times * k < AtLeast THEN AtLeast ELSE Times * k
  IN IF far < AtMost THEN far ELSE AtMost

\* Mutant of StatusAware: nothing past k is looked at.
StatusAwareAtK(notes, hits, k) ==
  Sorted(Prefix(hits.order, k), [name \in DOMAIN hits.score |-> hits.score[name] * Weight(StatusOf(notes, name))])

(***************************************************************************)
(* `statusAware`: when a note of the view is demoted it asks for more than *)
(* k, scales what is demoted, sorts again and cuts.                        *)
(***************************************************************************)
StatusAware(notes, hits, k) ==
  LET scaled == [name \in DOMAIN hits.score |-> hits.score[name] * Weight(StatusOf(notes, name))]
  IN IF \A i \in Places(notes) : Weight(notes[i].status) = 4 THEN Prefix(hits.order, k)
     ELSE Prefix(Sorted(Prefix(hits.order, Pulled(k)), scaled), k)
=============================================================================
