---------------------------- MODULE Communities ----------------------------
(***************************************************************************)
(* The community report of `manent curate`: Louvain over the links between *)
(* notes, maps and indexes held out, one move of one node at a time, a     *)
(* level of aggregation at a time; then what is not connected is split.    *)
(*                                                                         *)
(* Notes are numbers, in the order of their names.  Gains and modularity   *)
(* are integers: the code's, times the total degree or its square.         *)
(***************************************************************************)
EXTENDS Integers, FiniteSets, FiniteSetsExt

CONSTANTS
  Notes,       \* the notes which are no maps
  MinSize,     \* the smallest part reported
  MaxRounds,   \* the code's 30
  MaxPasses    \* the code's 12

ASSUME NumberAssumption ==
  Notes \subseteq Nat \ {0} /\ IsFiniteSet(Notes) /\ MinSize \in Nat /\ MaxRounds \in Nat /\ MaxPasses \in Nat

VARIABLES
  graph,       \* the weighted link graph
  m2,          \* its total degree
  level,       \* the graph of this pass: its nodes are communities of the one before
  community,   \* where each of its nodes is
  mapping,     \* the node of this level each note is in
  turn,        \* the nodes this round has still to try
  moved,       \* one moved this round
  rounds, pass,
  phase        \* "moving", "settled", "done"

vars == <<graph, m2, level, community, mapping, turn, moved, rounds, pass, phase>>

Weight(g, a, b) == g.w[{a, b}]
Pairs(S) == {{a, b} : a, b \in S}   \* with the loops

\* `degreeOf`: a loop counts twice.
DegreeOf(g, a) == SumFunction([b \in g.nodes |-> Weight(g, a, b)]) + Weight(g, a, a)

DegreeIn(g, S) == SumFunction([a \in S |-> DegreeOf(g, a)])

\* `totalDegree`.
TotalDegree(g) == DegreeIn(g, g.nodes)

\* `linkGraph`: one link is one edge, however often it was written and in whichever note.
LinkGraph(linked) == [nodes |-> Notes, w |-> [p \in Pairs(Notes) |-> IF p \in linked THEN 1 ELSE 0]]

Alone(g) == [a \in g.nodes |-> a]
Members(c) == {a \in level.nodes : community[a] = c}

Init ==
  \E linked \in SUBSET {p \in Pairs(Notes) : Cardinality(p) = 2} :
    /\ graph = LinkGraph(linked) /\ m2 = TotalDegree(graph) /\ level = graph
    /\ community = Alone(graph) /\ mapping = Alone(graph)
    /\ turn = Notes /\ moved = FALSE /\ rounds = 1 /\ pass = 0
    /\ phase = IF m2 = 0 THEN "settled" ELSE "moving"
-----------------------------------------------------------------------------
\* Mutant of Gain: the node's own degree stays in the community it leaves.
GainUnmoved(a, c) ==
  SumFunction([b \in Members(c) \ {a} |-> Weight(level, a, b)]) * m2
    - DegreeIn(level, Members(c)) * DegreeOf(level, a)

(***************************************************************************)
(* What a node gets out of being in a community: its weight into it, less  *)
(* what the degrees of the two would give by chance, the node taken out of *)
(* its own community first.                                                *)
(***************************************************************************)
Gain(a, c) ==
  LET there == Members(c) \ {a}
  IN SumFunction([b \in there |-> Weight(level, a, b)]) * m2 - DegreeIn(level, there) * DegreeOf(level, a)

\* The communities next to a node.
Around(a) == {community[b] : b \in {b \in level.nodes \ {a} : Weight(level, a, b) > 0}}

\* The first of those it gains most in, if it gains.
Best(a) ==
  LET better == {c \in Around(a) : Gain(a, c) > Gain(a, community[a])}
      best == {c \in better : \A d \in better : Gain(a, c) >= Gain(a, d)}
  IN IF better = {} THEN community[a] ELSE Min(best)

\* The next node, in the order of names, goes where it gains most.
Move ==
  /\ phase = "moving" /\ turn # {}
  /\ LET a == Min(turn) IN
       /\ community' = [community EXCEPT ![a] = Best(a)]
       /\ moved' = (moved \/ Best(a) # community[a])
       /\ turn' = turn \ {a}
  /\ UNCHANGED <<graph, m2, level, mapping, rounds, pass, phase>>

\* Mutant of RoundEnds: one round is enough.
RoundEndsOnce ==
  /\ phase = "moving" /\ turn = {}
  /\ phase' = "settled"
  /\ UNCHANGED <<graph, m2, level, community, mapping, turn, moved, rounds, pass>>

\* Another round if something moved, as long as there are some left.
RoundEnds ==
  /\ phase = "moving" /\ turn = {}
  /\ IF moved /\ rounds < MaxRounds
     THEN turn' = level.nodes /\ moved' = FALSE /\ rounds' = rounds + 1 /\ phase' = phase
     ELSE phase' = "settled" /\ UNCHANGED <<turn, moved, rounds>>
  /\ UNCHANGED <<graph, m2, level, community, mapping, pass>>
-----------------------------------------------------------------------------
\* Mutant of Collapsed: what is inside a community is dropped.
CollapsedBare(g, found) ==
  LET nodes == {found[a] : a \in g.nodes}
      Between(p) == {q \in Pairs(g.nodes) : {found[a] : a \in q} = p}
  IN [nodes |-> nodes,
      w |-> [p \in Pairs(nodes) |-> IF Cardinality(p) = 1 THEN 0 ELSE SumFunctionOnSet(g.w, Between(p))]]

(***************************************************************************)
(* `aggregate`: a community is a node, and what was inside it is a loop.   *)
(* The code meets an edge from both ends and a loop once, and halves the   *)
(* former: a pair is summed once here.                                     *)
(***************************************************************************)
Collapsed(g, found) ==
  LET nodes == {found[a] : a \in g.nodes}
      Between(p) == {q \in Pairs(g.nodes) : {found[a] : a \in q} = p}
  IN [nodes |-> nodes, w |-> [p \in Pairs(nodes) |-> SumFunctionOnSet(g.w, Between(p))]]

\* The next pass, over the communities found, if two of them came together.
Aggregate ==
  /\ phase = "settled"
  /\ Cardinality({community[a] : a \in level.nodes}) < Cardinality(level.nodes)
  /\ mapping' = [n \in Notes |-> community[mapping[n]]]
  /\ level' = Collapsed(level, community)
  /\ pass' = pass + 1
  /\ IF pass' < MaxPasses
     THEN /\ community' = Alone(level') /\ turn' = level'.nodes
          /\ moved' = FALSE /\ rounds' = 1 /\ phase' = "moving"
     ELSE phase' = "done" /\ community' = Alone(level') /\ UNCHANGED <<turn, moved, rounds>>
  /\ UNCHANGED <<graph, m2>>

\* Nothing came together: the partition stands.
Finish ==
  /\ phase = "settled"
  /\ Cardinality({community[a] : a \in level.nodes}) = Cardinality(level.nodes)
  /\ phase' = "done"
  /\ UNCHANGED <<graph, m2, level, community, mapping, turn, moved, rounds, pass>>

Next == Move \/ RoundEnds \/ Aggregate \/ Finish
Spec == Init /\ [][Next]_vars
-----------------------------------------------------------------------------
\* Mutant of Reach: the walk leaves the community.
ReachOut(members, start) ==
  LET Step[d \in 0 .. Cardinality(Notes)] ==
        IF d = 0 THEN {start} ELSE {b \in Notes : \E a \in Step[d - 1] : a = b \/ Weight(graph, a, b) > 0}
  IN Step[Cardinality(Notes)]

\* What can be reached from a note without leaving its community.
Reach(members, start) ==
  LET Step[d \in 0 .. Cardinality(members)] ==
        IF d = 0 THEN {start} ELSE {b \in members : \E a \in Step[d - 1] : a = b \/ Weight(graph, a, b) > 0}
  IN Step[Cardinality(members)]

\* The communities found, and `splitDisconnected` of each.
Group(n) == {m \in Notes : mapping[m] = mapping[n]}
Found == {Group(n) : n \in Notes}
Parts == {Reach(Group(n), n) : n \in Notes}

\* The links inside a part, and those that leave it.
Internal(p) == SumFunctionOnSet(graph.w, Pairs(p))
External(p) == SumFunction([n \in p |-> SumFunction([m \in Notes \ p |-> Weight(graph, n, m)])])

\* Parts in the order of the report: the largest first, then by their first note.
Ranks(p, q) == Cardinality(p) > Cardinality(q) \/ (Cardinality(p) = Cardinality(q) /\ Min(p) < Min(q))

\* Mutant of Covered: every part a map has two links into is one it is about.
CoveredTwice(parts, links, outside) == {p \in parts : Cardinality(links \cap p) >= 2}

(***************************************************************************)
(* The part a map is about, none if it is a map of none: the first of      *)
(* those that hold most of its links, if these are two at least and a      *)
(* quarter of all it has.  `outside` counts those to what is in no part.   *)
(***************************************************************************)
Covered(parts, links, outside) ==
  LET In(p) == Cardinality(links \cap p)
      best == {p \in parts : \A q \in parts \ {p} : In(p) > In(q) \/ (In(p) = In(q) /\ Ranks(p, q))}
  IN {p \in best : In(p) >= 2 /\ 4 * In(p) >= Cardinality(links) + outside}

\* The report: the parts that are not too small, without the notes nothing links.
Report ==
  {[members |-> p, internal |-> Internal(p), external |-> External(p)] :
     p \in {p \in Parts : Cardinality(p) >= MinSize /\ ~\E n \in p : p = {n} /\ DegreeOf(graph, n) = 0}}

\* `modularityOf`, times the square of the total degree.
Merit(g, S) == 2 * SumFunctionOnSet(g.w, Pairs(S)) * m2 - DegreeIn(g, S) * DegreeIn(g, S)
Modularity(g, where) ==
  SumFunction([c \in {where[a] : a \in g.nodes} |-> Merit(g, {a \in g.nodes : where[a] = c})])
-----------------------------------------------------------------------------
(***************************************************************************)
(* A level is the graph seen from further away: the partition it holds     *)
(* scores what the same partition of the notes scores, whatever was        *)
(* collapsed into what, and its total degree is the graph's.               *)
(***************************************************************************)
LevelsAgree ==
  /\ TotalDegree(level) = m2
  /\ Modularity(level, community) = Modularity(graph, [n \in Notes |-> community[mapping[n]]])

\* What a partition of a level scores, as one of the notes.
Score(c, m) == Modularity(graph, [n \in Notes |-> c[m[n]]])
Uphill ==
  \/ phase = "moving" /\ community' = community
  \/ phase = "moving" /\ Score(community', mapping') > Score(community, mapping)
  \/ phase # "moving" /\ Score(community', mapping') = Score(community, mapping)

(***************************************************************************)
(* A node moves only uphill: a step that changes where a node is makes the *)
(* partition of the notes better, so no sequence of moves comes back to    *)
(* where it was; and collapsing changes nothing of what was found.         *)
(***************************************************************************)
MovesClimb == [][Uphill]_vars

\* Two of the parts as one, and what parts are worth together.
Joined(parts, p, q) == (parts \ {p, q}) \cup {p \cup q}
Worth(parts) == SumFunction([p \in parts |-> Merit(graph, p)])

(***************************************************************************)
(* A pass ends where no node is better off elsewhere, unless the limit on  *)
(* rounds cut it short.  And the report is about subjects: every note is   *)
(* in one part, a part's links are enough to hold it together, splitting   *)
(* what was not connected cost nothing, and neither two pieces of one      *)
(* community nor two communities in one piece would be better reported as  *)
(* one.  The links a report counts are those its notes have.  And a map is *)
(* a map of one part at most: of the one all its links are to if there is  *)
(* one (communities.ts:131-164, 196-219, 271-340).                         *)
(***************************************************************************)
PartsAreSubjects ==
  /\ phase = "settled" /\ rounds < MaxRounds => \A a \in level.nodes : Best(a) = community[a]
  /\ phase = "done" =>
       LET parts == Parts IN
       /\ \A n \in Notes : Cardinality({p \in parts : n \in p}) = 1
       /\ \A r \in Report :
            /\ r.internal >= Cardinality(r.members) - 1
            /\ 2 * r.internal + r.external = DegreeIn(graph, r.members)
       /\ Worth(parts) >= Modularity(graph, mapping)
       /\ \A p, q \in parts :
            (\E c \in Found : p \cup q \subseteq c) \/ ({p, q} \subseteq Found /\ rounds < MaxRounds /\ pass < MaxPasses)
              => Worth(Joined(parts, p, q)) <= Worth(parts)
       /\ \A links \in SUBSET Notes, outside \in {0, 4} : LET about == Covered(parts, links, outside) IN
            /\ Cardinality(about) <= 1
            /\ \A p \in parts : links \subseteq p /\ Cardinality(links) > 1 /\ outside = 0 => about = {p}
=============================================================================
