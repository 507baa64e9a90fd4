------------------------------- MODULE Links -------------------------------
(***************************************************************************)
(* What a list of notes means: what a link resolves to, the graph, who is  *)
(* near whom, who may read what, and the part of it a reader is shown.     *)
(*                                                                         *)
(* A path is a sequence of segments, lower-cased and without extension;    *)
(* the target of a link is one too, ".." included; a name is a path of one *)
(* segment.  A note has the name it is known by, its path, the targets of  *)
(* its wikilinks and of its Markdown links, what its frontmatter cites,    *)
(* its type, its status, its audience labels, and whether its frontmatter  *)
(* could not be parsed.                                                    *)
(***************************************************************************)
EXTENDS Naturals, FiniteSets, Sequences, SequencesExt

Kinds == {"provenance", "supersedes", "contradicts"}
Places(notes) == 1 .. Len(notes)
First(places) == CHOOSE i \in places : \A j \in places : i <= j

\* What is at some places of a list, in its order.
Kept(list, places) ==
  LET Nth(i) == CHOOSE p \in places : Cardinality({q \in places : q < p}) = i - 1
  IN [i \in 1 .. Cardinality(places) |-> list[Nth(i)]]

Stem(path) == path[Len(path)]
Folder(path) == SubSeq(path, 1, Len(path) - 1)

\* `normalizePath`: `./a/../b` is `b`.
Normal(path) ==
  LET Out[i \in 0 .. Len(path)] ==
        IF i = 0 THEN <<>>
        ELSE IF path[i] = "." THEN Out[i - 1]
        ELSE IF path[i] # ".." THEN Append(Out[i - 1], path[i])
        ELSE IF Out[i - 1] = <<>> THEN <<>> ELSE Folder(Out[i - 1])
  IN Out[Len(path)]

Named(notes, name) == {i \in Places(notes) : notes[i].name = name}
At(notes, path) == {i \in Places(notes) : notes[i].path = path}
Stemmed(notes, stem) == {i \in Places(notes) : Stem(notes[i].path) = stem}

(***************************************************************************)
(* `resolveLink`, and what an edge gets when nothing is found: the target  *)
(* as it was written.  A name first, then a path from the linking note,    *)
(* then one from the root, then a file name if one file has it, or one in  *)
(* the folder of the linking note.                                         *)
(***************************************************************************)
Resolve(notes, target, from) ==
  LET here  == At(notes, Normal(Folder(from) \o target))
      root  == At(notes, Normal(target))
      twins == Stemmed(notes, Stem(target))
      near  == {i \in twins : Folder(notes[i].path) = Folder(from)}
  IN IF Named(notes, target) # {} THEN target
     ELSE IF Len(target) > 1 /\ here # {} THEN notes[First(here)].name
     ELSE IF root # {} THEN notes[First(root)].name
     ELSE IF Cardinality(twins) = 1 THEN notes[First(twins)].name
     ELSE IF Cardinality(near) = 1 THEN notes[First(near)].name
     ELSE target

(***************************************************************************)
(* `buildGraph`.  An edge keeps the link it comes from, as two links of a  *)
(* note to another are two edges.                                          *)
(***************************************************************************)
Edges(notes) ==
  UNION {{[from |-> notes[i].name, to |-> Resolve(notes, t, notes[i].path), kind |-> "wikilink", as |-> t]
            : t \in notes[i].links}
         \cup UNION {{[from |-> notes[i].name, to |-> t, kind |-> kind, as |-> t] : t \in notes[i].cites[kind]}
                       : kind \in Kinds}
           : i \in Places(notes)}

Graph(notes) == [nodes |-> {notes[i].name : i \in Places(notes)}, edges |-> Edges(notes)]

\* The edges of which both ends are notes: `buildAdjacency`.
Sound(g) == {e \in g.edges : e.from \in g.nodes /\ e.to \in g.nodes}
\* `degreeMap`: an edge is in the list of both of its ends, twice in that of a note which links itself.
Degree(g, name) == Cardinality({e \in Sound(g) : e.from = name}) + Cardinality({e \in Sound(g) : e.to = name})

\* Mutant of Neighbors: an edge is followed one way.
NeighborsForward(g, name, depth) ==
  LET Reached[d \in 0 .. depth] ==
        IF d = 0 THEN {name}
        ELSE Reached[d - 1] \cup {e.to : e \in {f \in g.edges : f.from \in Reached[d - 1]}}
  IN Reached[depth] \ {name}

\* Some names and those one hop further, either way.
Beside(edges, names) ==
  names \cup {e.to : e \in {f \in edges : f.from \in names}} \cup {e.from : e \in {f \in edges : f.to \in names}}

\* Whoever can be reached from some names in that many hops.
Reached(edges, names, depth) ==
  LET Within[d \in 0 .. depth] == IF d = 0 THEN names ELSE Beside(edges, Within[d - 1])
  IN Within[depth]

\* `neighbors`: a note is not a neighbour of itself.
Neighbors(g, name, depth) == Reached(g.edges, {name}, depth) \ {name}
-----------------------------------------------------------------------------
\* `noteAudiences`: nothing said is private.
Audiences(note) == IF note.audience = {} THEN {"private"} ELSE note.audience

\* `canRead`: "private" is no label a scope can name.
CanRead(scope, note) ==
  "*" \in scope \/ "public" \in Audiences(note) \/ (Audiences(note) \ {"private"}) \cap scope # {}

\* `filterVisible`.
Visible(notes, scope) == Kept(notes, {i \in Places(notes) : CanRead(scope, notes[i])})

\* Mutant of View: only the notes are filtered.
ViewNotes(notes, scope) == [notes |-> Visible(notes, scope), graph |-> Graph(Visible(notes, scope))]

\* `buildView`: the visible notes, and the edges that name no hidden one.
View(notes, scope) ==
  LET visible == Visible(notes, scope)
      full == Graph(visible)
      hidden == Graph(notes).nodes \ full.nodes
  IN [notes |-> visible,
      graph |-> [nodes |-> full.nodes,
                 edges |-> {e \in full.edges : e.from \notin hidden /\ e.to \notin hidden}]]
=============================================================================
