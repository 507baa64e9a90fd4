-------------------------------- MODULE Lint --------------------------------
(***************************************************************************)
(* `lintVault`: the findings about a list of notes that relate notes to    *)
(* each other.  The rules about one note's own text and frontmatter (its   *)
(* schema, its body, personal data, instructions) are left out.            *)
(***************************************************************************)
EXTENDS Links

CONSTANTS Labels   \* the labels the vault declares, {} when it declares none

\* `listedNotes`: the places of the notes a document names, whichever link syntax it uses, itself left out.
Listing(notes, i) ==
  {First(Named(notes, Resolve(notes, t, notes[i].path))) :
     t \in {t \in notes[i].links \cup notes[i].markdown : Named(notes, Resolve(notes, t, notes[i].path)) # {}}} \ {i}

Finding(rule, i, notes) == [rule |-> rule, path |-> notes[i].path]

\* Mutant of Leaks: the labels of the index are compared with those of what it lists.
LeaksByLabel(notes, i) ==
  {label \in Audiences(notes[i]) \ {"private", "public"} :
     \E j \in Listing(notes, i) : Audiences(notes[j]) = {"private"}}

\* The labels an index opens to a reader who cannot open all it lists.
Leaks(notes, i) ==
  {label \in Audiences(notes[i]) \ {"private", "public"} :
     \E j \in Listing(notes, i) : ~CanRead({label}, notes[j])}

\* Mutant of Orphan: links in are not looked at.
OrphanBySelf(notes, g, i) ==
  /\ \A e \in g.edges : e.from # notes[i].name
  /\ notes[i].type \notin {"index", "moc"}

\* No edge has the note's name at either end.
Orphan(notes, g, i) ==
  /\ \A e \in g.edges : e.from # notes[i].name /\ e.to # notes[i].name
  /\ notes[i].type \notin {"index", "moc"}

\* Mutant of Unresolved: a link is looked up by name only.
UnresolvedByName(notes, target, from) == Named(notes, target) = {}

\* Neither a name nor a path to one.
Unresolved(notes, target, from) ==
  Named(notes, target) = {} /\ Named(notes, Resolve(notes, target, from)) = {}

\* Labels no scope names, reported when the vault declares its own.
Unknown(notes, i) == IF Labels = {} THEN {} ELSE Audiences(notes[i]) \ (Labels \cup {"private", "public"})

(***************************************************************************)
(* A note whose frontmatter does not parse gets one finding and nothing    *)
(* else is looked at.                                                      *)
(***************************************************************************)
Lint(notes) ==
  LET g == Graph(notes)
      broken == {i \in Places(notes) : notes[i].broken}
      read == Places(notes) \ broken
      Found(rule, S) == {Finding(rule, i, notes) : i \in S}
  IN Found("frontmatter-invalid", broken)
     \cup Found("name-mismatch", {i \in read : Len(notes[i].path) > 1 /\ notes[i].name # <<Stem(notes[i].path)>>})
     \cup Found("duplicate-name", {i \in read : Cardinality(Named(notes, notes[i].name)) > 1})
     \cup Found("link-unresolved", {i \in read : \E t \in notes[i].links : Unresolved(notes, t, notes[i].path)})
     \cup Found("audience-unknown", {i \in read : Unknown(notes, i) # {}})
     \cup Found("audience-leak", {i \in read : notes[i].type \in {"index", "moc"} /\ Leaks(notes, i) # {}})
     \cup Found("orphan", {i \in read : Orphan(notes, g, i)})
=============================================================================
