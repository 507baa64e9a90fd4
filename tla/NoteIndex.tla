------------------------------ MODULE NoteIndex ------------------------------
(***************************************************************************)
(* Which note answers to a name.  A note is known by its path on disk and  *)
(* by its canonical name to everything that reads: the graph, the links    *)
(* and the lexical index are keyed by name, and of two files that answer   *)
(* to the same one the first in the served list wins (`buildGraph`,        *)
(* `buildLinkIndex`, `buildSearchIndex`).  A reload builds the lexical     *)
(* index from the list; a tool's write folds its note into the list and,   *)
(* where that is enough, into the index in place (`applyWrite`).           *)
(*                                                                         *)
(* Paths are numbers, in the order in which a listing sorts them.          *)
(***************************************************************************)
EXTENDS Naturals, FiniteSets, SequencesExt

CONSTANTS
  LastPath,   \* the paths a note may have are 1 .. LastPath
  Names,      \* canonical names
  Bodies,     \* what a note may say
  None        \* no note

ASSUME LastPathAssumption == LastPath \in Nat

Paths == 1 .. LastPath
Note == [path : Paths, name : Names, body : Bodies]

ASSUME NoneAssumption == None \notin Note

VARIABLES
  disk,      \* the files, by path
  notes,     \* `notes`, in the order they are served
  lexical,   \* `lexical`, by name: the note that answers to it
  stem       \* what each path is called, which is what a tool's write names its note

indexVars == <<disk, notes, lexical, stem>>

-----------------------------------------------------------------------------
\* `loadVault`: the files there are, in the order of their paths.
Load(files) ==
  LET there == {p \in Paths : files[p] # None}
      Nth(i) == CHOOSE p \in there : Cardinality({q \in there : q < p}) = i - 1
  IN [i \in 1 .. Cardinality(there) |-> files[Nth(i)]]

\* `noteName` keyed maps: the first note of the list that answers to the name.
First(list, name) ==
  LET i == SelectInSeq(list, LAMBDA n : n.name = name)
  IN IF i = 0 THEN None ELSE list[i]

\* `buildSearchIndex`, and the nodes of `buildGraph`.
Build(list) == [name \in Names |-> First(list, name)]

\* Where the list has the note of this path: 0 when it has none.
At(list, path) == SelectInSeq(list, LAMBDA n : n.path = path)
-----------------------------------------------------------------------------
IndexInit ==
  /\ disk \in {d \in [Paths -> Note \cup {None}] : \A p \in Paths : d[p] = None \/ d[p].path = p}
  /\ notes = Load(disk)
  /\ lexical = Build(notes)
  /\ stem \in [Paths -> Names]

\* Somebody edits, renames or removes the file behind the server's back.
Edit(p) ==
  /\ \E n \in {m \in Note : m.path = p} \cup {None} : disk' = [disk EXCEPT ![p] = n]
  /\ UNCHANGED <<notes, lexical, stem>>

(***************************************************************************)
(* `reloadNow`: the list becomes what was read, in the order it was read,  *)
(* unless every note in it is as it was served and none is missing.        *)
(***************************************************************************)
Reload ==
  /\ LET fresh == Load(disk)
     IN IF ToSet(fresh) = ToSet(notes)
          THEN UNCHANGED <<notes, lexical>>
          ELSE /\ notes' = fresh
               /\ lexical' = Build(fresh)
  /\ UNCHANGED <<disk, stem>>

\* Mutant of Upsert: only a note that was there under another name is a reason to rebuild.
UpsertClashing(list, note, renamed) ==
  IF renamed THEN Build(list) ELSE [lexical EXCEPT ![note.name] = note]

(***************************************************************************)
(* The index of the new list: the note's entry added or replaced, unless   *)
(* the file used to answer to another name, whose entry would linger, or   *)
(* another file answers to this one.                                       *)
(***************************************************************************)
Upsert(list, note, renamed) ==
  LET clash == \E i \in DOMAIN list : list[i].path # note.path /\ list[i].name = note.name
  IN IF renamed \/ clash THEN Build(list) ELSE [lexical EXCEPT ![note.name] = note]

\* A tool call writes the file (`writeNote`) and folds the note in (`applyWrite`).
Write(p, body) ==
  LET note == [path |-> p, name |-> stem[p], body |-> body]
      at == At(notes, p)
      list == IF at = 0 THEN Append(notes, note) ELSE [notes EXCEPT ![at] = note]
  IN /\ disk' = [disk EXCEPT ![p] = note]
     /\ notes' = list
     /\ lexical' = Upsert(list, note, at # 0 /\ notes[at].name # note.name)
     /\ UNCHANGED stem

IndexNext ==
  \/ \E p \in Paths : Edit(p)
  \/ Reload
  \/ \E p \in Paths, b \in Bodies : Write(p, b)

IndexSpec == IndexInit /\ [][IndexNext]_indexVars
-----------------------------------------------------------------------------
(***************************************************************************)
(* The lexical index updated in place is the one a full build over the     *)
(* served list would give, whatever was renamed, shadowed or uncovered on  *)
(* the way (context.ts:320-327, bm25.ts:80-91).                            *)
(***************************************************************************)
LexicalIsFull == lexical = Build(notes)
=============================================================================
