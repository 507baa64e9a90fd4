----------------------------- MODULE NoteWrites -----------------------------
(***************************************************************************)
(* The two halves of the write path on one note: calls of the write tools  *)
(* (`runWrite`, `writeNote`), by agents into their quarantine folder and   *)
(* by the owner anywhere, and the command that promotes what an agent      *)
(* wrote (`promoteNote`, `manent promote --commit`), which is another      *)
(* process and takes no lock.  A call reads the file, decides, truncates   *)
(* it and writes it, a promotion loads the vault, rewrites the note and    *)
(* moves it: anything may happen in between, and either may die anywhere.  *)
(*                                                                         *)
(* A path is a folder, as the note's name is always the same.  A file has  *)
(* a header, the text written under it, as the set of its pieces, and a    *)
(* tail: what is left, beyond the end of that text, of a longer one that   *)
(* was written between the two steps of the write.  One promotion runs at  *)
(* a time.                                                                 *)
(***************************************************************************)
EXTENDS Naturals, FiniteSets

CONSTANTS
  Dirs,      \* folders of the vault
  Home,      \* the one the agent may write into
  Ignored,   \* those .manentignore excludes
  Asked,     \* the audiences an owner's call or a promotion may ask for
  MaxCalls,  \* bound on the calls, each with a piece of its own
  MaxProms,  \* bound on the promotions
  None,      \* no file, no call, no promotion
  Torn       \* a file truncated and not yet written

Calls == 1 .. MaxCalls
Pieces == 0 .. MaxCalls   \* 0 is what a person had written by hand
Statuses == {"active", "superseded", "quarantine"}
File == [text : SUBSET Pieces, tail : SUBSET Pieces, status : Statuses, audience : {"private", "shared"}]
Whole(file) == file.text \cup file.tail

ASSUME BoundsAssumption == MaxCalls \in Nat /\ MaxProms \in Nat
ASSUME HomeAssumption == Home \in Dirs /\ Ignored \subseteq Dirs
ASSUME AskedAssumption == Asked \subseteq {"private", "shared"}
ASSUME NoneAssumption == None # Torn /\ None \notin File /\ Torn \notin File

VARIABLES
  disk,      \* the files
  calls,     \* what each call in flight is about to write, and where
  made,      \* calls made
  prom,      \* the promotion in flight
  proms,     \* promotions made
  dirty,     \* folders the server wrote into and has not staged since
  adding,    \* the one it has staged and comes to commit
  index,     \* what git has staged
  head,      \* what git has committed
  vouched    \* texts the owner, or a promotion, has written

vars == <<disk, calls, made, prom, proms, dirty, adding, index, head, vouched>>
jobs == <<dirty, adding>>
git == <<jobs, index, head>>
callVars == <<calls, made>>
promVars == <<prom, proms>>

Content == File \cup {None, Torn}

\* `at` is where the file that was opened is now, if it is anywhere.
InFlight == [stage : {"decided", "open"}, agent : BOOLEAN, dir : Dirs, at : Dirs \cup {None}, file : File]
Promotion == [stage : {"loaded", "open", "written", "moved", "staged"}, from : Dirs, to : Dirs, file : File]

TypeOK ==
  /\ disk \in [Dirs -> Content] /\ index \in [Dirs -> Content] /\ head \in [Dirs -> Content]
  /\ calls \in [Calls -> InFlight \cup {None}]
  /\ made \in 0 .. MaxCalls /\ proms \in Nat
  /\ prom \in Promotion \cup {None}
  /\ vouched \subseteq SUBSET Pieces
  /\ dirty \subseteq Dirs /\ adding \in Dirs \cup {None}

Init ==
  /\ disk = [d \in Dirs |-> IF d \in Ignored
                            THEN [text |-> {0}, tail |-> {}, status |-> "active", audience |-> "private"]
                            ELSE None]
  /\ dirty = {} /\ adding = None
  /\ index = [d \in Dirs |-> None] /\ head = index
  /\ calls = [c \in Calls |-> None] /\ made = 0
  /\ prom = None /\ proms = 0
  /\ vouched = {{0}}

Put(map, d, content) == [map EXCEPT ![d] = content]

(***************************************************************************)
(* A file is written from its start and not truncated again: over what     *)
(* somebody else wrote into it since it was truncated, any of that may be  *)
(* left at the end.                                                        *)
(***************************************************************************)
Over(old, file) ==
  {[file EXCEPT !.tail = @ \cup left] : left \in SUBSET (IF old \in File THEN Whole(old) ELSE {})}
-----------------------------------------------------------------------------
\* Mutant of Stamped: what the note already had goes over the stamp.
StampedUnder(agent, seen, audience) ==
  [status |-> IF seen \in File THEN seen.status ELSE "quarantine",
   audience |-> IF seen \in File THEN seen.audience ELSE "private"]

(***************************************************************************)
(* `runWrite`'s stamp over the frontmatter the note had: an agent's note   *)
(* is a private proposal whatever it was; the owner's keeps what it had,   *)
(* or takes the audience the call gives.                                   *)
(***************************************************************************)
Stamped(agent, seen, audience) ==
  [status |-> IF agent THEN "quarantine" ELSE IF seen \in File THEN seen.status ELSE "active",
   audience |-> IF agent THEN "private"
                ELSE IF audience # None THEN audience
                ELSE IF seen \in File THEN seen.audience ELSE "private"]

(***************************************************************************)
(* A call reads the file and decides: create refuses one that exists, even *)
(* torn, append wants one, and what the arguments do not say about the     *)
(* note must be in it; nothing is written where nothing is served.         *)
(***************************************************************************)
Decide(agent, dir, mode, audience, described) ==
  /\ made < MaxCalls
  /\ agent => dir = Home /\ audience = None
  /\ dir \notin Ignored
  /\ mode = "create" => disk[dir] = None
  /\ mode = "append" => disk[dir] # None
  /\ described \/ disk[dir] \in File
  /\ LET c == made + 1
         seen == disk[dir]
         stamp == Stamped(agent, seen, audience)
         text == {c} \cup IF mode = "append" /\ seen \in File THEN Whole(seen) ELSE {}
     IN /\ calls' = [calls EXCEPT ![c] =
                      [stage |-> "decided", agent |-> agent, dir |-> dir, at |-> None,
                       file |-> [text |-> text, tail |-> {},
                                 status |-> stamp.status, audience |-> stamp.audience]]]
        /\ made' = c
  /\ UNCHANGED <<disk, promVars, git, vouched>>

\* `writeFile` opens the file, which truncates it.
Truncate(c) ==
  /\ calls[c] # None /\ calls[c].stage = "decided"
  /\ disk' = Put(disk, calls[c].dir, Torn)
  /\ calls' = [calls EXCEPT ![c].stage = "open", ![c].at = calls[c].dir]
  /\ UNCHANGED <<made, promVars, git, vouched>>

(***************************************************************************)
(* The text is in the file it opened, wherever that was moved to: nowhere, *)
(* if another file was moved over it.                                      *)
(***************************************************************************)
Land(c) ==
  /\ calls[c] # None /\ calls[c].stage = "open"
  /\ \/ calls[c].at = None /\ UNCHANGED disk
     \/ /\ calls[c].at # None
        /\ \E file \in Over(disk[calls[c].at], calls[c].file) : disk' = Put(disk, calls[c].at, file)
  /\ calls' = [calls EXCEPT ![c] = None]
  /\ vouched' = IF calls[c].agent THEN vouched ELSE vouched \cup {calls[c].file.text}
  /\ dirty' = dirty \cup {calls[c].dir}
  /\ UNCHANGED <<made, promVars, adding, index, head>>

\* The server dies with its calls where they are.
ServerDies ==
  /\ \E c \in Calls : calls[c] # None
  /\ calls' = [c \in Calls |-> None]
  /\ dirty' = {} /\ adding' = None
  /\ UNCHANGED <<disk, made, promVars, index, head, vouched>>

Known(d) == disk[d] # None \/ index[d] # None

\* The server commits the file a call wrote, when it was started to: `git add -- <file>`;
ServerAdds(d) ==
  /\ adding = None /\ d \in dirty
  /\ Known(d)
  /\ index' = Put(index, d, disk[d])
  /\ dirty' = dirty \ {d} /\ adding' = d
  /\ UNCHANGED <<disk, callVars, promVars, head, vouched>>

\* if that differs, `git commit`, of everything that is staged.
ServerCommits ==
  /\ adding # None
  /\ head' = IF index[adding] # head[adding] THEN index ELSE head
  /\ adding' = None
  /\ UNCHANGED <<disk, callVars, promVars, dirty, index, vouched>>

\* Either command fails.
ServerGivesUp ==
  /\ \/ adding # None /\ adding' = None /\ UNCHANGED dirty
     \/ /\ adding = None
        /\ \E d \in dirty : dirty' = dirty \ {d}
        /\ UNCHANGED adding
  /\ UNCHANGED <<disk, callVars, promVars, index, head, vouched>>
-----------------------------------------------------------------------------
\* `loadVault`: the files it lists under the note's name, torn ones included.
Listed == {d \in Dirs \ Ignored : disk[d] # None}

\* `reviewQueue`: the notes waiting for a person.
Queue == {d \in Listed : disk[d] \in File /\ disk[d].status = "quarantine"}

(***************************************************************************)
(* The checks of a promotion: one note of that name, in quarantine if it   *)
(* is to be active, with nothing listed at the destination; the status and *)
(* the audience are what the note will have.                               *)
(***************************************************************************)
Load(to, status, audience) ==
  /\ prom = None /\ proms < MaxProms
  /\ \E d \in Listed :
       /\ Listed = {d}
       /\ disk[d] \in File   \* a torn one has no description
       /\ status = "active" => d \in Queue
       /\ prom' = [stage |-> "loaded", from |-> d, to |-> to,
                   file |-> [disk[d] EXCEPT !.status = status,
                                            !.audience = IF audience = None THEN @ ELSE audience]]
  /\ proms' = proms + 1
  /\ UNCHANGED <<disk, callVars, git, vouched>>

Step(from, to) == prom # None /\ prom.stage = from /\ prom' = [prom EXCEPT !.stage = to]

\* The note is rewritten in place: truncated,
Rewrite ==
  /\ Step("loaded", "open")
  /\ disk' = Put(disk, prom.from, Torn)
  /\ UNCHANGED <<proms, callVars, git, vouched>>

\* then written.
Rewritten ==
  /\ Step("open", "written")
  /\ \E file \in Over(disk[prom.from], prom.file) : disk' = Put(disk, prom.from, file)
  /\ vouched' = vouched \cup {prom.file.text, Whole(prom.file)}
  /\ UNCHANGED <<proms, callVars, git>>

\* Where what was at a path is after a rename.
Renamed(at, from, to) == IF from = to THEN at ELSE IF at = from THEN to ELSE IF at = to THEN None ELSE at

(***************************************************************************)
(* It is renamed to its destination: the file that is there by now, over   *)
(* whatever is there, under the calls that have either open.               *)
(***************************************************************************)
Move ==
  /\ Step("written", "moved")
  /\ prom.from # prom.to => disk[prom.from] # None
  /\ disk' = [disk EXCEPT ![prom.to] = disk[prom.from],
                          ![prom.from] = IF prom.from = prom.to THEN @ ELSE None]
  /\ calls' = [c \in Calls |-> IF calls[c] = None THEN None
                               ELSE [calls[c] EXCEPT !.at = Renamed(@, prom.from, prom.to)]]
  /\ UNCHANGED <<proms, made, git, vouched>>

\* Mutant of Add: only the new path is staged.
AddNew ==
  /\ Step("moved", "staged")
  /\ index' = Put(index, prom.to, disk[prom.to])
  /\ UNCHANGED <<disk, proms, callVars, jobs, head, vouched>>

(***************************************************************************)
(* `git add -- <from> <to>`: git refuses a path that is neither a file nor *)
(* one it knows, and then stages nothing.                                  *)
(***************************************************************************)
Add ==
  /\ Step("moved", "staged")
  /\ Known(prom.from) /\ Known(prom.to)
  /\ index' = [d \in Dirs |-> IF d \in {prom.from, prom.to} THEN disk[d] ELSE index[d]]
  /\ UNCHANGED <<disk, proms, callVars, jobs, head, vouched>>

\* `git commit`: all that is staged, if the server has not committed it already.
Commit ==
  /\ prom # None /\ prom.stage = "staged"
  /\ index # head
  /\ head' = index
  /\ prom' = None
  /\ UNCHANGED <<disk, jobs, index, proms, callVars, vouched>>

\* The command ends without a commit, was not asked for one, fails or is interrupted.
PromotionEnds ==
  /\ prom # None
  /\ prom' = None
  /\ UNCHANGED <<disk, proms, callVars, git, vouched>>

Next ==
  \/ \E agent \in BOOLEAN, dir \in Dirs, mode \in {"create", "overwrite", "append"},
        audience \in Asked \cup {None}, described \in BOOLEAN :
          Decide(agent, dir, mode, audience, described)
  \/ \E c \in Calls : Truncate(c) \/ Land(c)
  \/ \E d \in Dirs : ServerAdds(d)
  \/ ServerCommits \/ ServerGivesUp
  \/ \E to \in Dirs, status \in Statuses, audience \in Asked \cup {None} : Load(to, status, audience)
  \/ ServerDies \/ Rewrite \/ Rewritten \/ Move \/ Add \/ Commit \/ PromotionEnds

Spec == Init /\ [][Next]_vars
-----------------------------------------------------------------------------
Waiting(file) == file.status = "quarantine" /\ file.audience = "private"

Waits(file) == file \in File /\ file.text \notin vouched => Waiting(file)

(***************************************************************************)
(* What nobody vouched for waits: on disk, staged or committed, a header   *)
(* over a text neither the owner nor a promotion ever wrote is that of a   *)
(* private proposal, in the review queue where there is one -- however the *)
(* agent's calls interleave with the owner's, with a promotion of the same *)
(* note and with the death of either (tools.ts:648-668, promote.ts:187-    *)
(* 194).  Of a tail it says nothing: the end of an agent's text that the   *)
(* owner's, written over it meanwhile, leaves may be under any header.     *)
(***************************************************************************)
UnvouchedTextWaits ==
  \A d \in Dirs :
    /\ Waits(disk[d]) /\ Waits(index[d]) /\ Waits(head[d])
    /\ disk[d] \in File /\ disk[d].text \notin vouched /\ d \notin Ignored => d \in Queue

Apart(file, other) == file \in File /\ other \in File => file.text # other.text

(***************************************************************************)
(* The commit of a promotion holds both ends of the move: the history it   *)
(* makes does not have a text at both, though the server writes, stages    *)
(* and commits in the same repository meanwhile (cli/promote.ts:60-71).    *)
(***************************************************************************)
CommitMovesTheNote ==
  [][prom # None /\ prom.stage = "staged" /\ prom' = None /\ head' # head =>
       prom.from = prom.to \/ Apart(head'[prom.from], head'[prom.to])]_vars
=============================================================================
