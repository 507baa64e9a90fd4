------------------------------ MODULE Curation ------------------------------
(***************************************************************************)
(* Two of the reports of `manent curate` over a list of notes: the         *)
(* disagreements the notes declare, and the pairs that say the same thing. *)
(* The text of a note is the set of its word triples.                      *)
(***************************************************************************)
EXTENDS Links

CONSTANTS
  MinShingles,   \* `MIN_SHINGLES`
  Factor         \* the threshold and the size ratio are one in Factor

ASSUME CurationAssumption == MinShingles \in Nat \ {0} /\ Factor \in Nat \ {0, 1}

Contradicts(notes, i, j) == notes[j].name \in notes[i].cites["contradicts"]
Row(kind, a, b) == [kind |-> kind, a |-> a, b |-> b]

\* `byName` of the report: the last note of a name.
LastNamed(notes, name) == {i \in Named(notes, name) : \A j \in Named(notes, name) : j <= i}

\* The note that answers to the name says it back.
Back(notes, i, b) == \E j \in LastNamed(notes, b) : Contradicts(notes, j, i)

\* Mutant of AlreadySeen: the pair is remembered as it is read.
SeenAsRead(notes, i, b) == \E j \in 1 .. (i - 1) : notes[j].name = notes[i].name /\ b \in notes[j].cites["contradicts"]

\* The pair had its row when an earlier note was read.
AlreadySeen(notes, i, b) ==
  \E j \in 1 .. (i - 1) :
    \/ notes[j].name = b /\ Contradicts(notes, j, i) /\ Back(notes, j, notes[i].name)
    \/ notes[j].name = notes[i].name /\ b \in notes[j].cites["contradicts"] /\ Back(notes, j, b)

(***************************************************************************)
(* `contradictions`: a disagreement both notes declare is one row, one     *)
(* that only one does another kind of row, and a note that another         *)
(* supersedes is reported until it is deprecated or archived.              *)
(***************************************************************************)
Contradictions(notes) ==
  UNION {
    {Row("declared", notes[i].name, b) :
       b \in {b \in notes[i].cites["contradicts"] : Back(notes, i, b) /\ ~AlreadySeen(notes, i, b)}}
    \cup {Row("one-sided", notes[i].name, b) : b \in {b \in notes[i].cites["contradicts"] : ~Back(notes, i, b)}}
    \cup {Row("superseded", notes[i].name, b) :
            b \in {b \in notes[i].cites["supersedes"] :
                     \E j \in LastNamed(notes, b) : notes[j].status \notin {"deprecated", "archived"}}}
    : i \in Places(notes)}
-----------------------------------------------------------------------------
\* Mutant of Alike: only how much the two share counts.
AlikeByOverlap(a, b) ==
  /\ Cardinality(a) >= MinShingles /\ Cardinality(b) >= MinShingles
  /\ Factor * Cardinality(a \cap b) >= Cardinality(a \cup b)

(***************************************************************************)
(* `lexicalSimilarity` is at the threshold: what the two share, of both or,*)
(* when they are near in size, of the smaller.                             *)
(***************************************************************************)
Alike(a, b) ==
  LET shared == Cardinality(a \cap b)
      small == IF Cardinality(a) <= Cardinality(b) THEN Cardinality(a) ELSE Cardinality(b)
      large == Cardinality(a) + Cardinality(b) - small
  IN /\ small >= MinShingles
     /\ shared # 0
     /\ \/ Factor * shared >= small + large - shared
        \/ Factor * small >= large /\ Factor * shared >= small

\* What a note says, and whom it relates to, is kept by name: the last note of a name speaks for all.
Spokesman(notes, i) == notes[CHOOSE j \in LastNamed(notes, notes[i].name) : TRUE]

\* Declared by either: a link, `supersedes`, `contradicts`, as they are written.
Declares(notes, i, j) ==
  LET note == Spokesman(notes, i)
  IN notes[j].name \in note.links \cup note.cites["supersedes"] \cup note.cites["contradicts"]

\* `duplicates`, by words, without the pairs that are already related.
Duplicates(notes) ==
  UNION {{{i, j} : j \in {j \in Places(notes) :
            /\ i < j /\ Alike(Spokesman(notes, i).text, Spokesman(notes, j).text)
            /\ ~Declares(notes, i, j) /\ ~Declares(notes, j, i)}}
           : i \in Places(notes)}
=============================================================================
