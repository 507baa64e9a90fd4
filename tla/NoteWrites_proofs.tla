-------------------------- MODULE NoteWrites_proofs --------------------------
(***************************************************************************)
(* Writes, for any folders, calls, promotions, clients and times: what     *)
(* nobody vouched for waits, and what is confirmed is what is written.     *)
(* The first induction needs what a call in flight is about to write: an   *)
(* agent's is a private proposal from the moment it was decided.  The next *)
(* needs to know texts apart.  The last part, about NoteWrites' neighbour  *)
(* WriteConfirmation, has names of its own (ConfirmSpec, ConfirmInv) and   *)
(* shares nothing with the first two.                                      *)
(***************************************************************************)
EXTENDS NoteWrites, WriteConfirmation, TLAPS

\* An agent's call, once decided, will write a private proposal.
AgentsPropose ==
  \A c \in Calls : calls[c] # None /\ calls[c].agent =>
    calls[c].file.status = "quarantine" /\ calls[c].file.audience = "private"

\* What the disk and git hold waits, or was vouched for.
AllWait == \A d \in Dirs : Waits(disk[d]) /\ Waits(index[d]) /\ Waits(head[d])

Inv == TypeOK /\ AgentsPropose /\ AllWait

LEMMA InitInv == Init => Inv
<1> SUFFICES ASSUME Init PROVE Inv
  OBVIOUS
<1>1. [text |-> {0}, tail |-> {}, status |-> "active", audience |-> "private"] \in File
  BY BoundsAssumption DEF File, Pieces, Statuses
<1>2. TypeOK
  BY <1>1, BoundsAssumption DEF Init, TypeOK, Content, Pieces
<1>3. AgentsPropose /\ AllWait
  BY <1>1, NoneAssumption DEF Init, AgentsPropose, AllWait, Waits, Waiting
<1>. QED BY <1>2, <1>3 DEF Inv
-----------------------------------------------------------------------------
\* What is written over a file is one, under the header and with the text that were written.
LEMMA OverIsAFile ==
  ASSUME NEW old \in Content, NEW file \in File, NEW f \in Over(old, file)
  PROVE  f \in File /\ f.text = file.text /\ f.status = file.status /\ f.audience = file.audience
<1>1. PICK left \in SUBSET (IF old \in File THEN Whole(old) ELSE {}) :
        f = [file EXCEPT !.tail = @ \cup left]
  BY DEF Over
<1>2. left \subseteq Pieces
  BY <1>1 DEF Whole, File
<1>. QED BY <1>1, <1>2 DEF File

\* A rename leaves the calls as they were, but for where what they have open is.
LEMMA MovedCalls ==
  ASSUME TypeOK, Move
  PROVE  /\ calls' \in [Calls -> InFlight \cup {None}]
         /\ \A c \in Calls :
              /\ calls[c] = None => calls'[c] = None
              /\ calls[c] # None => calls'[c].file = calls[c].file /\ calls'[c].agent = calls[c].agent
<1>1. prom \in Promotion
  BY DEF Move, Step, TypeOK
<1>2. ASSUME NEW c \in Calls
      PROVE  /\ calls'[c] \in InFlight \cup {None}
             /\ calls[c] = None => calls'[c] = None
             /\ calls[c] # None => calls'[c].file = calls[c].file /\ calls'[c].agent = calls[c].agent
  <2>1. CASE calls[c] = None
    BY <2>1 DEF Move
  <2>2. CASE calls[c] # None
    <3>1. calls[c] \in InFlight /\ calls'[c] = [calls[c] EXCEPT !.at = Renamed(@, prom.from, prom.to)]
      BY <2>2 DEF Move, TypeOK
    <3>2. Renamed(calls[c].at, prom.from, prom.to) \in Dirs \cup {None}
      BY <1>1, <3>1 DEF Renamed, Promotion, InFlight
    <3>3. calls'[c] \in InFlight /\ calls'[c].file = calls[c].file /\ calls'[c].agent = calls[c].agent
      BY <3>1, <3>2 DEF InFlight
    <3>. QED BY <2>2, <3>3
  <2>. QED BY <2>1, <2>2
<1>3. calls' = [c \in Calls |-> calls'[c]]
  BY DEF Move
<1>. QED BY <1>2, <1>3

\* What a call decides to write is a file, and a private proposal when it is an agent's.
LEMMA StampedIsAFile ==
  ASSUME NEW agent \in BOOLEAN, NEW seen \in Content, NEW audience \in Asked \cup {None},
         NEW text \in SUBSET Pieces
  PROVE  LET stamp == Stamped(agent, seen, audience)
             file == [text |-> text, tail |-> {}, status |-> stamp.status, audience |-> stamp.audience]
         IN file \in File /\ (agent => file.status = "quarantine" /\ file.audience = "private")
  BY NoneAssumption, AskedAssumption DEF Stamped, File, Statuses, Content

\* A call's own steps: it decides, and its file is truncated and written.
LEMMA DecideInv ==
  ASSUME Inv, NEW agent \in BOOLEAN, NEW dir \in Dirs, NEW mode \in {"create", "overwrite", "append"},
         NEW audience \in Asked \cup {None}, NEW described \in BOOLEAN,
         Decide(agent, dir, mode, audience, described)
  PROVE  Inv'
<1> DEFINE c == made + 1
           seen == disk[dir]
           stamp == Stamped(agent, seen, audience)
           text == {c} \cup IF mode = "append" /\ seen \in File THEN Whole(seen) ELSE {}
           file == [text |-> text, tail |-> {}, status |-> stamp.status, audience |-> stamp.audience]
           call == [stage |-> "decided", agent |-> agent, dir |-> dir, at |-> None, file |-> file]
<1>1. c \in Calls /\ seen \in Content
  BY BoundsAssumption DEF Inv, TypeOK, Decide, Calls
<1>2. text \in SUBSET Pieces
  BY <1>1, BoundsAssumption DEF Calls, Pieces, File, Whole
<1> HIDE DEF text
<1>3. file \in File /\ (agent => file.status = "quarantine" /\ file.audience = "private")
  BY <1>1, <1>2, StampedIsAFile
<1> HIDE DEF file
<1>4. call \in InFlight /\ call.agent = agent /\ call.file = file
  BY <1>3 DEF InFlight
<1>5. calls' = [calls EXCEPT ![c] = call] /\ made' = c /\ UNCHANGED <<disk, promVars, git, vouched>>
  BY DEF Decide, text, file
<1> HIDE DEF call
<1>6. TypeOK'
  BY <1>1, <1>4, <1>5, BoundsAssumption DEF Inv, TypeOK, Calls, promVars, git, jobs
<1>7. AgentsPropose'
  BY <1>1, <1>3, <1>4, <1>5 DEF Inv, TypeOK, AgentsPropose
<1>8. AllWait'
  BY <1>5 DEF Inv, AllWait, Waits, Waiting, git, jobs
<1>. QED BY <1>6, <1>7, <1>8 DEF Inv

LEMMA TruncateInv ==
  ASSUME Inv, NEW c \in Calls, Truncate(c)
  PROVE  Inv'
<1>1. calls[c] \in InFlight
  BY DEF Inv, TypeOK, Truncate
<1>2. TypeOK'
  BY <1>1 DEF Inv, TypeOK, Truncate, InFlight, Put, Content, promVars, git, jobs
<1>3. AgentsPropose'
  BY <1>1 DEF Inv, TypeOK, AgentsPropose, Truncate, InFlight
<1>4. AllWait'
  BY <1>1, NoneAssumption DEF Inv, TypeOK, AllWait, Waits, Waiting, Truncate, Put, git, jobs
<1>. QED BY <1>2, <1>3, <1>4 DEF Inv

LEMMA LandInv ==
  ASSUME Inv, NEW c \in Calls, Land(c)
  PROVE  Inv'
<1>1. calls[c] \in InFlight /\ calls[c].file \in File /\ calls[c].file.text \in SUBSET Pieces
  BY DEF Inv, TypeOK, Land, InFlight, File
<1>2. \/ UNCHANGED disk
      \/ /\ calls[c].at \in Dirs
         /\ \E file \in Over(disk[calls[c].at], calls[c].file) : disk' = Put(disk, calls[c].at, file)
  BY <1>1 DEF Land, InFlight
<1>3. \/ UNCHANGED disk
      \/ \E d \in Dirs, file \in File :
           /\ disk' = Put(disk, d, file)
           /\ file.text = calls[c].file.text
           /\ file.status = calls[c].file.status /\ file.audience = calls[c].file.audience
  BY <1>1, <1>2, OverIsAFile DEF Inv, TypeOK
<1>4. /\ calls' = [calls EXCEPT ![c] = None] /\ calls[c].dir \in Dirs
      /\ vouched' = IF calls[c].agent THEN vouched ELSE vouched \cup {calls[c].file.text}
      /\ dirty' = dirty \cup {calls[c].dir}
      /\ UNCHANGED <<made, prom, proms, adding, index, head>>
  BY <1>1 DEF Land, promVars, InFlight
<1>5. disk' \in [Dirs -> Content]
  BY <1>3 DEF Inv, TypeOK, Put, Content
<1>6. TypeOK'
  BY <1>1, <1>4, <1>5 DEF Inv, TypeOK
<1>7. AgentsPropose'
  BY <1>4 DEF Inv, TypeOK, AgentsPropose
<1>8. ASSUME NEW d \in Dirs PROVE Waits(disk[d])' /\ Waits(index[d])' /\ Waits(head[d])'
  <2>1. vouched \subseteq vouched'
    BY <1>4
  <2>2. Waits(disk[d]) /\ Waits(index[d]) /\ Waits(head[d])
    BY DEF Inv, AllWait
  <2>3. Waits(index[d])' /\ Waits(head[d])'
    BY <1>4, <2>1, <2>2 DEF Waits, Waiting
  <2>4. CASE disk'[d] = disk[d]
    BY <2>1, <2>2, <2>3, <2>4 DEF Waits, Waiting
  <2>5. CASE disk'[d] # disk[d]
    <3>1. /\ disk'[d].text = calls[c].file.text
          /\ disk'[d].status = calls[c].file.status /\ disk'[d].audience = calls[c].file.audience
      BY <1>3, <2>5 DEF Put, Inv, TypeOK
    <3>2. calls[c] # None /\ (calls[c].agent => Waiting(calls[c].file))
      BY DEF Land, Inv, AgentsPropose, Waiting
    <3>3. Waits(disk[d])'
      BY <1>1, <1>4, <3>1, <3>2 DEF Waits, Waiting, InFlight
    <3>. QED BY <2>3, <3>3
  <2>. QED BY <2>3, <2>4, <2>5
<1>9. AllWait'
  BY <1>8 DEF AllWait
<1>. QED BY <1>6, <1>7, <1>9 DEF Inv
-----------------------------------------------------------------------------
\* The steps of a promotion: what it writes, it vouches for; what it moves may be another's.
LEMMA LoadInv ==
  ASSUME Inv, NEW to \in Dirs, NEW status \in Statuses, NEW audience \in Asked \cup {None},
         Load(to, status, audience)
  PROVE  Inv'
<1>1. PICK d \in Listed :
        /\ disk[d] \in File
        /\ prom' = [stage |-> "loaded", from |-> d, to |-> to,
                    file |-> [disk[d] EXCEPT !.status = status,
                                             !.audience = IF audience = None THEN @ ELSE audience]]
  BY DEF Load
<1>2. prom' \in Promotion
  BY <1>1, AskedAssumption DEF Promotion, File, Listed
<1>3. TypeOK' /\ AgentsPropose' /\ AllWait'
  BY <1>2 DEF Load, Inv, TypeOK, AgentsPropose, AllWait, Waits, Waiting, callVars, git, jobs
<1>. QED BY <1>3 DEF Inv

LEMMA StepType ==
  ASSUME TypeOK, NEW from, NEW to \in {"open", "written", "moved", "staged"}, Step(from, to)
  PROVE  /\ prom \in Promotion /\ prom' \in Promotion
         /\ prom.from \in Dirs /\ prom.to \in Dirs /\ prom.file \in File
  BY DEF Step, TypeOK, Promotion

LEMMA RewriteInv == ASSUME Inv, Rewrite PROVE Inv'
<1>1. prom' \in Promotion /\ prom.from \in Dirs
  BY StepType DEF Rewrite, Inv
<1>2. TypeOK'
  BY <1>1 DEF Rewrite, Inv, TypeOK, Put, Content, callVars, git, jobs
<1>3. AgentsPropose' /\ AllWait'
  BY <1>1, NoneAssumption DEF Rewrite, Inv, TypeOK, AgentsPropose, AllWait, Waits, Waiting, Put, callVars, git, jobs
<1>. QED BY <1>2, <1>3 DEF Inv

LEMMA RewrittenInv == ASSUME Inv, Rewritten PROVE Inv'
<1>1. prom' \in Promotion /\ prom.from \in Dirs /\ prom.file \in File /\ prom.file.text \in SUBSET Pieces
  BY StepType DEF Rewritten, Inv, File
<1>2. PICK file \in Over(disk[prom.from], prom.file) : disk' = Put(disk, prom.from, file)
  BY DEF Rewritten
<1>3. file \in File /\ file.text = prom.file.text /\ Whole(prom.file) \subseteq Pieces
  BY <1>1, OverIsAFile DEF Inv, TypeOK, Whole, File
<1>4. TypeOK'
  BY <1>1, <1>2, <1>3 DEF Rewritten, Inv, TypeOK, Put, Content, callVars, git, jobs
<1>5. AgentsPropose'
  BY DEF Rewritten, Inv, AgentsPropose, callVars
<1>6. AllWait'
  BY <1>1, <1>2, <1>3 DEF Rewritten, Inv, TypeOK, AllWait, Waits, Waiting, Put, git, jobs
<1>. QED BY <1>4, <1>5, <1>6 DEF Inv

LEMMA MoveInv == ASSUME Inv, Move PROVE Inv'
<1>1. prom' \in Promotion /\ prom.from \in Dirs /\ prom.to \in Dirs
  BY StepType DEF Move, Inv
<1>2. TypeOK'
  BY <1>1, MovedCalls DEF Move, Inv, TypeOK, Content, git, jobs
<1>3. AgentsPropose'
  BY MovedCalls DEF Inv, AgentsPropose
<1>4. AllWait'
  BY <1>1, NoneAssumption DEF Move, Inv, TypeOK, AllWait, Waits, Waiting, git, jobs
<1>. QED BY <1>2, <1>3, <1>4 DEF Inv

LEMMA AddInv == ASSUME Inv, Add PROVE Inv'
<1>1. prom' \in Promotion
  BY StepType DEF Add, Inv
<1>2. TypeOK'
  BY <1>1 DEF Add, Inv, TypeOK, callVars, jobs
<1>3. AgentsPropose' /\ AllWait'
  BY DEF Add, Inv, AgentsPropose, AllWait, Waits, Waiting, callVars
<1>. QED BY <1>2, <1>3 DEF Inv

\* Git's other steps, and the ends of a process: nothing is written anew.
LEMMA OthersInv ==
  ASSUME Inv,
         (\E d \in Dirs : ServerAdds(d)) \/ ServerCommits \/ ServerGivesUp \/ ServerDies \/ Commit \/ PromotionEnds
  PROVE  Inv'
<1>1. ASSUME NEW d \in Dirs, ServerAdds(d) PROVE Inv'
  BY <1>1 DEF ServerAdds, Put, Inv, TypeOK, AgentsPropose, AllWait, Waits, Waiting, callVars, promVars
<1>2. CASE ServerCommits
  BY <1>2 DEF ServerCommits, Inv, TypeOK, AgentsPropose, AllWait, Waits, Waiting, callVars, promVars
<1>3. CASE ServerGivesUp
  BY <1>3 DEF ServerGivesUp, Inv, TypeOK, AgentsPropose, AllWait, Waits, Waiting, callVars, promVars
<1>4. CASE ServerDies
  BY <1>4 DEF ServerDies, Inv, TypeOK, AgentsPropose, AllWait, Waits, Waiting, promVars
<1>5. CASE Commit
  BY <1>5 DEF Commit, Inv, TypeOK, AgentsPropose, AllWait, Waits, Waiting, callVars, jobs
<1>6. CASE PromotionEnds
  BY <1>6 DEF PromotionEnds, Inv, TypeOK, AgentsPropose, AllWait, Waits, Waiting, callVars, git, jobs
<1>. QED BY <1>1, <1>2, <1>3, <1>4, <1>5, <1>6
-----------------------------------------------------------------------------
LEMMA StepInv == Inv /\ [Next]_vars => Inv'
<1> SUFFICES ASSUME Inv, [Next]_vars PROVE Inv'
  OBVIOUS
<1>1. ASSUME NEW agent \in BOOLEAN, NEW dir \in Dirs, NEW mode \in {"create", "overwrite", "append"},
             NEW audience \in Asked \cup {None}, NEW described \in BOOLEAN,
             Decide(agent, dir, mode, audience, described)
      PROVE  Inv'
  BY <1>1, DecideInv
<1>2. ASSUME NEW c \in Calls, Truncate(c) \/ Land(c) PROVE Inv'
  BY <1>2, TruncateInv, LandInv
<1>3. ASSUME NEW to \in Dirs, NEW status \in Statuses, NEW audience \in Asked \cup {None},
             Load(to, status, audience)
      PROVE  Inv'
  BY <1>3, LoadInv
<1>4. CASE Rewrite \/ Rewritten \/ Move \/ Add
  BY <1>4, RewriteInv, RewrittenInv, MoveInv, AddInv
<1>5. CASE (\E d \in Dirs : ServerAdds(d)) \/ ServerCommits \/ ServerGivesUp \/ ServerDies \/ Commit \/ PromotionEnds
  BY <1>5, OthersInv
<1>6. CASE UNCHANGED vars
  BY <1>6 DEF vars, git, jobs, callVars, promVars, Inv, TypeOK, AgentsPropose, AllWait, Waits
<1>. QED BY <1>1, <1>2, <1>3, <1>4, <1>5, <1>6 DEF Next

(***************************************************************************)
(* Whatever agents propose has the header of a private proposal, and is in *)
(* the queue a person looks at, until the owner or a promotion writes that *)
(* very text: through races with the owner's calls and with promotions,    *)
(* overlapping writes into one file, stale decisions, moves of a file      *)
(* another call has open or has just written, and deaths (tools.ts:648-    *)
(* 668, promote.ts:55-89, 187-195).                                        *)
(***************************************************************************)
THEOREM ProposalsWait == Spec => [](TypeOK /\ UnvouchedTextWaits)
<1>1. Inv => TypeOK /\ UnvouchedTextWaits
  BY NoneAssumption DEF Inv, TypeOK, AllWait, Waits, Waiting, UnvouchedTextWaits, Queue, Listed
<1>. QED BY InitInv, StepInv, <1>1, PTL DEF Spec
-----------------------------------------------------------------------------
(***************************************************************************)
(* No text under two headers.  A text is known by its pieces: a call in    *)
(* flight has one nobody else has yet, and what is on disk, staged or      *)
(* being promoted is made of pieces of calls that have ended.  A promotion *)
(* holds a text which, until it is written back, no other folder has.      *)
(***************************************************************************)
ByHand == {0}

\* No two folders have one text under their headers, but what a person wrote by hand.
NeverTwoCopies ==
  \A d, e \in Dirs : d # e /\ disk[d] \in File /\ disk[d].text # ByHand => Apart(disk[d], disk[e])

Settled(text, count, flying) ==
  text \subseteq 0 .. count /\ \A c \in text \cap Calls : flying[c] = None

Held == \A d \in Dirs :
  /\ disk[d] \in File => Settled(Whole(disk[d]), made, calls)
  /\ index[d] \in File => Settled(Whole(index[d]), made, calls)
  /\ disk[d] \in File /\ d \notin Ignored => disk[d].text # ByHand

Flying == \A c \in Calls : calls[c] # None =>
  c <= made /\ c \in calls[c].file.text /\ Settled(Whole(calls[c].file) \ {c}, made, calls)

Promoted == prom # None =>
  /\ prom.from \notin Ignored
  /\ Settled(Whole(prom.file), made, calls) /\ prom.file.text # ByHand
  /\ prom.stage \in {"loaded", "open"} =>
       \A d \in Dirs : d # prom.from => Apart(prom.file, disk[d])
  /\ prom.stage = "staged" /\ prom.from # prom.to =>
       /\ Apart(index[prom.from], index[prom.to])
       /\ Apart(index[prom.from], disk[prom.to])
       /\ Apart(disk[prom.from], index[prom.to])

Texts == Held /\ Flying /\ Promoted /\ NeverTwoCopies

\* A call that has ended has ended for good, and a text of such calls stays one.
LEMMA SettledStays ==
  ASSUME TypeOK, [Next]_vars
  PROVE  \A text : Settled(text, made, calls) => Settled(text, made', calls')
<1> SUFFICES ASSUME NEW text, Settled(text, made, calls)
             PROVE  Settled(text, made', calls')
  OBVIOUS
<1>1. ASSUME NEW agent \in BOOLEAN, NEW dir \in Dirs, NEW mode \in {"create", "overwrite", "append"},
             NEW audience \in Asked \cup {None}, NEW described \in BOOLEAN,
             Decide(agent, dir, mode, audience, described)
      PROVE  Settled(text, made', calls')
  <2>1. made' = made + 1 /\ \A c \in Calls : c # made + 1 => calls'[c] = calls[c]
    BY <1>1 DEF Decide, TypeOK
  <2> QED
    BY <2>1, BoundsAssumption DEF Settled, TypeOK
<1>2. ASSUME NEW c \in Calls, Truncate(c)
      PROVE  Settled(text, made', calls')
  BY <1>2 DEF Truncate, Settled, TypeOK
<1>6. CASE Move
  <2>1. made' = made /\ \A c \in Calls : calls[c] = None => calls'[c] = None
    BY <1>6, MovedCalls DEF Move
  <2> QED
    BY <2>1 DEF Settled
<1>3. ASSUME NEW c \in Calls, Land(c)
      PROVE  Settled(text, made', calls')
  BY <1>3 DEF Land, Settled, TypeOK
<1>4. CASE ServerDies
  BY <1>4 DEF ServerDies, Settled
<1>5. CASE UNCHANGED callVars
  BY <1>5 DEF Settled, callVars
<1> QED
  BY <1>1, <1>2, <1>3, <1>4, <1>5, <1>6
  DEF Next, vars, callVars, ServerAdds, ServerCommits, ServerGivesUp, Load, Rewrite, Rewritten, Add, Commit, PromotionEnds

\* A call in flight is apart from every text there is.
LEMMA FlyingApart ==
  ASSUME TypeOK, Flying, NEW c \in Calls, calls[c] # None,
         NEW file, file \in File => Settled(Whole(file), made, calls)
  PROVE  Apart(calls[c].file, file) /\ Apart(file, calls[c].file)
  BY DEF Flying, Apart, Settled, Whole

\* What is written over a file has, under its header, the text that was written, and pieces of both.
LEMMA OverTexts ==
  ASSUME NEW old \in Content, NEW file \in File, NEW f \in Over(old, file)
  PROVE  /\ f \in File /\ f.text = file.text
         /\ \E left : /\ Whole(f) = Whole(file) \cup left
                       /\ IF old \in File THEN left \subseteq Whole(old) ELSE left = {}
<1>1. PICK left \in SUBSET (IF old \in File THEN Whole(old) ELSE {}) :
        f = [file EXCEPT !.tail = @ \cup left]
  BY DEF Over
<1>2. f \in File /\ f.text = file.text
  BY OverIsAFile
<1>3. f.tail = file.tail \cup left
  BY <1>1 DEF File
<1>4. Whole(f) = Whole(file) \cup left
  BY <1>2, <1>3 DEF Whole
<1> QED
  BY <1>1, <1>2, <1>4

LEMMA TextsInit == Init => Texts
<1> SUFFICES ASSUME Init PROVE Texts
  OBVIOUS
<1>1. \A d \in Dirs : disk[d] \in File => d \in Ignored /\ disk[d].text = ByHand /\ Whole(disk[d]) = ByHand
  BY NoneAssumption DEF Init, ByHand, Whole
<1>2. \A d \in Dirs : index[d] \notin File
  BY NoneAssumption DEF Init
<1>3. Settled(ByHand, made, calls)
  BY BoundsAssumption DEF Init, Settled, ByHand, Calls
<1>4. Held
  BY <1>1, <1>2, <1>3 DEF Held
<1>5. Flying /\ Promoted
  BY DEF Init, Flying, Promoted
<1>6. NeverTwoCopies
  BY <1>1 DEF NeverTwoCopies
<1> QED
  BY <1>4, <1>5, <1>6 DEF Texts
-----------------------------------------------------------------------------
LEMMA DecideTexts ==
  ASSUME TypeOK, Texts, NEW agent \in BOOLEAN, NEW dir \in Dirs, NEW mode \in {"create", "overwrite", "append"},
         NEW audience \in Asked \cup {None}, NEW described \in BOOLEAN,
         Decide(agent, dir, mode, audience, described)
  PROVE  Texts'
<1> DEFINE c == made + 1
           seen == disk[dir]
           stamp == Stamped(agent, seen, audience)
           text == {c} \cup IF mode = "append" /\ seen \in File THEN Whole(seen) ELSE {}
           file == [text |-> text, tail |-> {}, status |-> stamp.status, audience |-> stamp.audience]
           call == [stage |-> "decided", agent |-> agent, dir |-> dir, at |-> None, file |-> file]
<1>1. /\ calls' = [calls EXCEPT ![c] = call] /\ made' = c /\ UNCHANGED <<disk, prom, index>>
      /\ made \in Nat /\ c \in Calls
  BY BoundsAssumption DEF Decide, promVars, git, jobs, TypeOK, Calls
<1>2. \A t : Settled(t, made, calls) => Settled(t, made', calls')
  <2>1. Next
    BY DEF Next
  <2> QED
    BY <2>1, SettledStays
<1>3. call.file.text = text /\ Whole(call.file) = text
  BY DEF Whole
<1>4. c \in text /\ Settled(text \ {c}, made, calls)
  BY DEF Texts, Held, Settled
<1> HIDE DEF text, call
<1>5. Held' /\ Promoted' /\ NeverTwoCopies'
  BY <1>1, <1>2 DEF Texts, Held, Promoted, NeverTwoCopies
<1>6. Flying'
  <2> SUFFICES ASSUME NEW e \in Calls, calls'[e] # None
               PROVE  e <= made' /\ e \in calls'[e].file.text /\ Settled(Whole(calls'[e].file) \ {e}, made', calls')
    BY DEF Flying
  <2>1. CASE e = c
    <3>1. calls'[e] = call
      BY <2>1, <1>1 DEF TypeOK
    <3>2. Settled(text \ {c}, made', calls')
      BY <1>2, <1>4
    <3> QED
      BY <2>1, <3>1, <3>2, <1>1, <1>3, <1>4
  <2>2. CASE e # c
    <3>1. calls'[e] = calls[e]
      BY <2>2, <1>1 DEF TypeOK
    <3>2. e <= made /\ e \in calls[e].file.text /\ Settled(Whole(calls[e].file) \ {e}, made, calls)
      BY <3>1 DEF Texts, Flying
    <3>3. e <= made'
      BY <3>2, <1>1 DEF Calls
    <3> QED
      BY <3>1, <3>2, <3>3, <1>2
  <2> QED
    BY <2>1, <2>2
<1> QED
  BY <1>5, <1>6 DEF Texts

LEMMA TruncateTexts ==
  ASSUME TypeOK, Texts, NEW c \in Calls, Truncate(c)
  PROVE  Texts'
<1>1. /\ calls[c] # None /\ calls[c] \in InFlight
      /\ UNCHANGED <<made, prom, index>>
      /\ disk' = Put(disk, calls[c].dir, Torn)
      /\ calls' = [calls EXCEPT ![c].stage = "open", ![c].at = calls[c].dir]
  BY DEF Truncate, promVars, git, jobs, TypeOK
<1>2. \A t : Settled(t, made, calls) => Settled(t, made', calls')
  <2>1. Next
    BY DEF Next
  <2> QED
    BY <2>1, SettledStays
<1>3. \A d \in Dirs : disk'[d] \in File => disk'[d] = disk[d]
  BY <1>1, NoneAssumption DEF Put, TypeOK, InFlight
<1>4. \A e \in Calls : calls'[e] # None => calls[e] # None /\ calls'[e].file = calls[e].file
  BY <1>1 DEF TypeOK, InFlight
<1>5. Held'
  BY <1>1, <1>2, <1>3 DEF Texts, Held
<1>6. Flying'
  BY <1>1, <1>2, <1>4 DEF Texts, Flying
<1>7. Promoted'
  <2>1. prom # None => prom.from \in Dirs /\ prom.to \in Dirs
    BY DEF TypeOK, Promotion
  <2> QED
    BY <1>1, <1>2, <1>3, <2>1 DEF Texts, Promoted, Apart
<1>8. NeverTwoCopies'
  BY <1>3 DEF Texts, NeverTwoCopies, Apart
<1> QED
  BY <1>5, <1>6, <1>7, <1>8 DEF Texts

LEMMA LandTexts ==
  ASSUME TypeOK, Texts, NEW c \in Calls, Land(c)
  PROVE  Texts'
<1>1. /\ calls[c] # None /\ calls[c] \in InFlight
      /\ UNCHANGED <<made, prom, index>>
      /\ calls' = [calls EXCEPT ![c] = None]
      /\ \/ UNCHANGED disk
         \/ /\ calls[c].at \in Dirs
            /\ \E f \in Over(disk[calls[c].at], calls[c].file) : disk' = Put(disk, calls[c].at, f)
  BY DEF Land, promVars, TypeOK, InFlight
<1>2. \A t : Settled(t, made, calls) => Settled(t, made', calls')
  <2>1. Next
    BY DEF Next
  <2> QED
    BY <2>1, SettledStays
<1>12. CASE UNCHANGED disk
  <2>1. Held' /\ Promoted' /\ NeverTwoCopies'
    BY <1>1, <1>2, <1>12 DEF Texts, Held, Promoted, NeverTwoCopies
  <2>2. Flying'
    BY <1>1, <1>2 DEF Texts, Flying, TypeOK
  <2> QED
    BY <2>1, <2>2 DEF Texts
<1>13. SUFFICES ASSUME NEW dir \in Dirs, NEW file \in Over(disk[dir], calls[c].file), disk' = Put(disk, dir, file)
                PROVE  Texts'
  BY <1>1, <1>12
<1>14. calls[c].file \in File /\ disk[dir] \in Content
  BY <1>1 DEF InFlight, TypeOK
<1>15. PICK left : /\ file \in File /\ file.text = calls[c].file.text
                   /\ Whole(file) = Whole(calls[c].file) \cup left
                   /\ IF disk[dir] \in File THEN left \subseteq Whole(disk[dir]) ELSE left = {}
  BY <1>14, OverTexts
<1>3. file \in File /\ disk'[dir] = file /\ \A d \in Dirs : d # dir => disk'[d] = disk[d]
  BY <1>13, <1>15 DEF Put, TypeOK
<1>4. /\ c <= made /\ c \in file.text
      /\ Settled(Whole(calls[c].file) \ {c}, made, calls) /\ Settled(left, made, calls)
  BY <1>1, <1>15 DEF Texts, Flying, Held, Settled
<1>5. Settled(Whole(file), made', calls') /\ file.text # ByHand
  <2>1. Settled(Whole(calls[c].file) \ {c}, made', calls') /\ Settled(left, made', calls') /\ calls'[c] = None
    BY <1>1, <1>2, <1>4 DEF TypeOK
  <2>2. made' \in Nat /\ c <= made'
    BY <1>1, <1>4 DEF TypeOK
  <2>3. Whole(file) = Whole(calls[c].file) \cup left
    BY <1>15
  <2>4. Settled(Whole(calls[c].file) \cup left, made', calls')
    <3> DEFINE mine == Whole(calls[c].file)
    <3>1. Settled(mine \ {c}, made', calls') /\ Settled(left, made', calls')
      BY <2>1
    <3>5. calls'[c] = None
      BY <2>1
    <3> HIDE DEF mine
    <3>2. (mine \ {c}) \subseteq 0 .. made' /\ left \subseteq 0 .. made' /\ c \in 0 .. made'
      BY <2>2, <3>1 DEF Settled, Calls
    <3>3. mine \cup left \subseteq 0 .. made'
      BY <3>2
    <3>4. ASSUME NEW e \in (mine \cup left) \cap Calls PROVE calls'[e] = None
      <4>1. e = c \/ e \in (mine \ {c}) \cap Calls \/ e \in left \cap Calls
        OBVIOUS
      <4> QED
        BY <4>1, <3>1, <3>5 DEF Settled
    <3>6. Settled(mine \cup left, made', calls')
      BY <3>3, <3>4 DEF Settled
    <3> QED
      BY <3>6 DEF mine
  <2>5. Settled(Whole(file), made', calls')
    BY <2>3, <2>4
  <2> QED
    BY <1>4, <2>5 DEF Calls, ByHand
<1>6. \A d \in Dirs : /\ Apart(file, disk[d]) /\ Apart(disk[d], file)
                      /\ Apart(file, index[d]) /\ Apart(index[d], file)
  <2>1. \A d \in Dirs : /\ Apart(calls[c].file, disk[d]) /\ Apart(disk[d], calls[c].file)
                        /\ Apart(calls[c].file, index[d]) /\ Apart(index[d], calls[c].file)
    BY <1>1, FlyingApart DEF Texts, Held
  <2> QED
    BY <1>14, <1>15, <2>1 DEF Apart
<1>7. prom # None => Apart(prom.file, file) /\ prom.from \in Dirs /\ prom.to \in Dirs
  <2>1. prom # None => Apart(prom.file, calls[c].file)
    BY <1>1, FlyingApart DEF Texts, Promoted
  <2> QED
    BY <1>14, <1>15, <2>1 DEF Apart, TypeOK, Promotion
<1>8. Held'
  <2> SUFFICES ASSUME NEW d \in Dirs
               PROVE  /\ disk'[d] \in File => Settled(Whole(disk'[d]), made', calls')
                      /\ index'[d] \in File => Settled(Whole(index'[d]), made', calls')
                      /\ disk'[d] \in File /\ d \notin Ignored => disk'[d].text # ByHand
    BY DEF Held
  <2>1. CASE d = dir
    BY <2>1, <1>1, <1>2, <1>3, <1>5 DEF Texts, Held
  <2>2. CASE d # dir
    BY <2>2, <1>1, <1>2, <1>3 DEF Texts, Held
  <2> QED
    BY <2>1, <2>2
<1>9. Flying'
  BY <1>1, <1>2 DEF Texts, Flying, TypeOK
<1>10. Promoted'
  <2> SUFFICES ASSUME prom # None
               PROVE  /\ prom.from \notin Ignored
                      /\ Settled(Whole(prom.file), made', calls') /\ prom.file.text # ByHand
                      /\ prom.stage \in {"loaded", "open"} =>
                           \A d \in Dirs : d # prom.from => Apart(prom.file, disk'[d])
                      /\ prom.stage = "staged" /\ prom.from # prom.to =>
                           /\ Apart(index[prom.from], index[prom.to])
                           /\ Apart(index[prom.from], disk'[prom.to])
                           /\ Apart(disk'[prom.from], index[prom.to])
    BY <1>1 DEF Promoted
  <2>1. Promoted
    BY DEF Texts
  <2>2. prom.stage \in {"loaded", "open"} => \A d \in Dirs : d # prom.from => Apart(prom.file, disk'[d])
    BY <2>1, <1>3, <1>7 DEF Promoted
  <2>3. prom.stage = "staged" /\ prom.from # prom.to =>
          /\ Apart(index[prom.from], index[prom.to])
          /\ Apart(index[prom.from], disk'[prom.to])
          /\ Apart(disk'[prom.from], index[prom.to])
    BY <2>1, <1>3, <1>6, <1>7 DEF Promoted
  <2> QED
    BY <2>1, <2>2, <2>3, <1>2 DEF Promoted
<1>11. NeverTwoCopies'
  <2> SUFFICES ASSUME NEW d \in Dirs, NEW e \in Dirs, d # e, disk'[d] \in File, disk'[d].text # ByHand
               PROVE  Apart(disk'[d], disk'[e])
    BY DEF NeverTwoCopies
  <2>1. CASE d = dir
    BY <2>1, <1>3, <1>6
  <2>2. CASE e = dir
    BY <2>2, <1>3, <1>6
  <2>3. CASE d # dir /\ e # dir
    BY <2>3, <1>3 DEF Texts, NeverTwoCopies
  <2> QED
    BY <2>1, <2>2, <2>3
<1> QED
  BY <1>8, <1>9, <1>10, <1>11 DEF Texts
-----------------------------------------------------------------------------
\* A promotion takes up a text no other folder has.
LEMMA LoadTexts ==
  ASSUME TypeOK, Texts, NEW to \in Dirs, NEW status \in Statuses, NEW audience \in Asked \cup {None},
         Load(to, status, audience)
  PROVE  Texts'
<1>1. PICK d \in Listed :
        /\ disk[d] \in File
        /\ prom' = [stage |-> "loaded", from |-> d, to |-> to,
                    file |-> [disk[d] EXCEPT !.status = status,
                                             !.audience = IF audience = None THEN @ ELSE audience]]
  BY DEF Load
<1>2. /\ d \in Dirs /\ d \notin Ignored /\ UNCHANGED <<disk, index, calls, made>>
      /\ prom'.stage = "loaded" /\ prom'.from = d
      /\ prom'.file.text = disk[d].text /\ Whole(prom'.file) = Whole(disk[d])
  BY <1>1 DEF Load, Listed, callVars, git, jobs, File, Whole
<1>3. Settled(Whole(disk[d]), made, calls) /\ disk[d].text # ByHand
  BY <1>1, <1>2 DEF Texts, Held
<1>4. \A e \in Dirs : e # d => Apart(prom'.file, disk[e])
  BY <1>1, <1>2, <1>3 DEF Texts, NeverTwoCopies, Apart
<1>5. Promoted'
  BY <1>2, <1>3, <1>4 DEF Promoted
<1>6. Held' /\ Flying' /\ NeverTwoCopies'
  BY <1>2 DEF Texts, Held, Flying, NeverTwoCopies
<1> QED
  BY <1>5, <1>6 DEF Texts

\* What a step of a promotion leaves of it.
LEMMA StepLeaves ==
  ASSUME TypeOK, Texts, NEW from, NEW to, Step(from, to)
  PROVE  /\ prom # None /\ prom.stage = from /\ prom'.stage = to
         /\ prom'.from = prom.from /\ prom'.to = prom.to /\ prom'.file = prom.file
         /\ prom.from \in Dirs /\ prom.to \in Dirs /\ prom.file \in File
         /\ prom.from \notin Ignored
         /\ Settled(Whole(prom.file), made, calls) /\ prom.file.text # ByHand
<1>1. prom \in Promotion /\ prom # None
  BY DEF Step, TypeOK
<1>2. /\ prom'.stage = to /\ prom'.from = prom.from /\ prom'.to = prom.to /\ prom'.file = prom.file
      /\ prom' = [stage |-> to, from |-> prom.from, to |-> prom.to, file |-> prom.file]
  BY <1>1 DEF Step, Promotion
<1> QED
  BY <1>1, <1>2 DEF Step, Promotion, Texts, Promoted

LEMMA RewriteTexts ==
  ASSUME TypeOK, Texts, Rewrite
  PROVE  Texts'
<1>1. /\ disk' = Put(disk, prom.from, Torn) /\ UNCHANGED <<index, calls, made>>
      /\ Step("loaded", "open")
  BY DEF Rewrite, callVars, git, jobs
<1>2. \A d \in Dirs : disk'[d] \in File => disk'[d] = disk[d]
  BY <1>1, StepLeaves, NoneAssumption DEF Put, TypeOK
<1>3. Held' /\ Flying'
  BY <1>1, <1>2 DEF Texts, Held, Flying
<1>4. Promoted'
  BY <1>1, <1>2, StepLeaves DEF Texts, Promoted, Apart
<1>5. NeverTwoCopies'
  BY <1>2 DEF Texts, NeverTwoCopies, Apart
<1> QED
  BY <1>3, <1>4, <1>5 DEF Texts

LEMMA RewrittenTexts ==
  ASSUME TypeOK, Texts, Rewritten
  PROVE  Texts'
<1>1. UNCHANGED <<index, calls, made>> /\ Step("open", "written")
  BY DEF Rewritten, callVars, git, jobs
<1>6. PICK file \in Over(disk[prom.from], prom.file) : disk' = Put(disk, prom.from, file)
  BY DEF Rewritten
<1>7. prom.from \in Dirs /\ prom.file \in File /\ disk[prom.from] \in Content
  BY <1>1, StepLeaves DEF TypeOK
<1>8. PICK left : /\ file \in File /\ file.text = prom.file.text
                  /\ Whole(file) = Whole(prom.file) \cup left
                  /\ IF disk[prom.from] \in File THEN left \subseteq Whole(disk[prom.from]) ELSE left = {}
  BY <1>7, OverTexts
<1>2. /\ prom.from \in Dirs /\ file \in File /\ disk'[prom.from] = file
      /\ \A d \in Dirs : d # prom.from => disk'[d] = disk[d] /\ Apart(file, disk[d])
  BY <1>1, <1>6, <1>7, <1>8, StepLeaves DEF Put, TypeOK, Texts, Promoted, Apart
<1>9. Settled(Whole(file), made, calls) /\ file.text # ByHand
  <2>1. Settled(left, made, calls) /\ Settled(Whole(prom.file), made, calls)
    BY <1>1, <1>7, <1>8, StepLeaves DEF Texts, Held, Settled
  <2> QED
    BY <1>1, <1>8, <2>1, StepLeaves DEF Settled
<1>3. Held' /\ Flying'
  BY <1>1, <1>2, <1>9 DEF Texts, Held, Flying
<1>4. Promoted'
  BY <1>1, StepLeaves DEF Promoted
<1>5. NeverTwoCopies'
  <2> SUFFICES ASSUME NEW d \in Dirs, NEW e \in Dirs, d # e, disk'[d] \in File, disk'[d].text # ByHand
               PROVE  Apart(disk'[d], disk'[e])
    BY DEF NeverTwoCopies
  <2>1. CASE d = prom.from
    BY <2>1, <1>2
  <2>2. CASE e = prom.from
    BY <2>2, <1>2 DEF Apart
  <2>3. CASE d # prom.from /\ e # prom.from
    BY <2>3, <1>2 DEF Texts, NeverTwoCopies
  <2> QED
    BY <2>1, <2>2, <2>3
<1> QED
  BY <1>3, <1>4, <1>5 DEF Texts

LEMMA MoveTexts ==
  ASSUME TypeOK, Texts, Move
  PROVE  Texts'
<1> DEFINE from == prom.from
           to == prom.to
<1>1. /\ UNCHANGED <<index, made>> /\ Step("written", "moved")
      /\ disk' = [disk EXCEPT ![to] = disk[from], ![from] = IF from = to THEN @ ELSE None]
  BY DEF Move, git, jobs
<1>8. /\ \A t : Settled(t, made, calls) => Settled(t, made', calls')
      /\ \A c \in Calls : calls'[c] # None => calls[c] # None /\ calls'[c].file = calls[c].file
  <2>1. Next
    BY DEF Next
  <2> QED
    BY <2>1, SettledStays, MovedCalls
<1>2. from \in Dirs /\ to \in Dirs /\ from \notin Ignored
  BY <1>1, StepLeaves
<1>3. /\ disk'[to] = disk[from] /\ (from # to => disk'[from] \notin File)
      /\ \A d \in Dirs : d \notin {from, to} => disk'[d] = disk[d]
  BY <1>1, <1>2, NoneAssumption DEF TypeOK
<1>6. Promoted'
  BY <1>1, <1>8, StepLeaves DEF Promoted
<1> HIDE DEF from, to
<1>4. Held'
  <2> SUFFICES ASSUME NEW d \in Dirs
               PROVE  /\ disk'[d] \in File => Settled(Whole(disk'[d]), made', calls')
                      /\ index'[d] \in File => Settled(Whole(index'[d]), made', calls')
                      /\ disk'[d] \in File /\ d \notin Ignored => disk'[d].text # ByHand
    BY DEF Held
  <2>1. disk'[d] \in File => disk'[d] = disk[d] \/ (d = to /\ disk'[d] = disk[from])
    BY <1>3
  <2>2. \A e \in Dirs : /\ disk[e] \in File => Settled(Whole(disk[e]), made', calls')
                        /\ index[e] \in File => Settled(Whole(index[e]), made', calls')
                        /\ disk[e] \in File /\ e \notin Ignored => disk[e].text # ByHand
    BY <1>8 DEF Texts, Held
  <2>3. index' = index
    BY <1>1
  <2> QED
    BY <1>2, <2>1, <2>2, <2>3
<1>5. Flying'
  BY <1>1, <1>8 DEF Texts, Flying
<1>7. NeverTwoCopies'
  <2> SUFFICES ASSUME NEW d \in Dirs, NEW e \in Dirs, d # e,
                      disk'[d] \in File, disk'[e] \in File, disk'[d].text # ByHand
               PROVE  disk'[d].text # disk'[e].text
    BY DEF NeverTwoCopies, Apart
  <2>1. CASE d = to
    BY <2>1, <1>2, <1>3 DEF Texts, NeverTwoCopies, Apart
  <2>2. CASE e = to
    BY <2>2, <1>2, <1>3 DEF Texts, NeverTwoCopies, Apart
  <2>3. CASE d # to /\ e # to
    BY <2>3, <1>2, <1>3 DEF Texts, NeverTwoCopies, Apart
  <2> QED
    BY <2>1, <2>2, <2>3
<1> QED
  BY <1>4, <1>5, <1>6, <1>7 DEF Texts

LEMMA AddTexts ==
  ASSUME TypeOK, Texts, Add
  PROVE  Texts'
<1> DEFINE from == prom.from
           to == prom.to
<1>1. /\ UNCHANGED <<disk, calls, made>> /\ Step("moved", "staged")
      /\ index' = [d \in Dirs |-> IF d \in {from, to} THEN disk[d] ELSE index[d]]
  BY DEF Add, callVars
<1>2. from \in Dirs /\ to \in Dirs /\ from \notin Ignored
  BY <1>1, StepLeaves
<1>3. from # to => Apart(disk[from], disk[to])
  BY <1>2 DEF Texts, Held, NeverTwoCopies, Apart
<1>4. Held' /\ Flying' /\ NeverTwoCopies'
  BY <1>1 DEF Texts, Held, Flying, NeverTwoCopies
<1>5. prom'.stage = "staged" /\ prom'.from = from /\ prom'.to = to /\ prom'.file = prom.file
  BY <1>1, StepLeaves
<1>6. index'[from] = disk[from] /\ index'[to] = disk[to]
  BY <1>1, <1>2
<1>7. Settled(Whole(prom.file), made, calls) /\ prom.file.text # ByHand
  BY <1>1, StepLeaves
<1> HIDE DEF from, to
<1>8. Promoted'
  BY <1>1, <1>2, <1>3, <1>5, <1>6, <1>7 DEF Promoted
<1> QED
  BY <1>4, <1>8 DEF Texts

\* The server stages one end of the move, or something else.
LEMMA ServerAddsTexts ==
  ASSUME TypeOK, Texts, NEW d \in Dirs, ServerAdds(d)
  PROVE  Texts'
<1>1. UNCHANGED <<disk, calls, made, prom>> /\ index' = Put(index, d, disk[d])
  BY DEF ServerAdds, callVars, promVars
<1>2. \A e \in Dirs : index'[e] = IF e = d THEN disk[d] ELSE index[e]
  BY <1>1 DEF Put, TypeOK
<1>3. Held' /\ Flying' /\ NeverTwoCopies'
  BY <1>1, <1>2 DEF Texts, Held, Flying, NeverTwoCopies
<1>4. Promoted'
  <2> SUFFICES ASSUME prom # None, prom.stage = "staged", prom.from # prom.to
               PROVE  /\ Apart(index'[prom.from], index'[prom.to])
                      /\ Apart(index'[prom.from], disk[prom.to])
                      /\ Apart(disk[prom.from], index'[prom.to])
    BY <1>1 DEF Texts, Promoted
  <2>1. prom.from \in Dirs /\ prom.to \in Dirs /\ prom.from \notin Ignored
    BY DEF TypeOK, Promotion, Texts, Promoted
  <2>2. Apart(disk[prom.from], disk[prom.to])
    BY <2>1 DEF Texts, Held, NeverTwoCopies, Apart
  <2>3. /\ Apart(index[prom.from], index[prom.to])
        /\ Apart(index[prom.from], disk[prom.to])
        /\ Apart(disk[prom.from], index[prom.to])
    BY DEF Texts, Promoted
  <2> QED
    BY <2>1, <2>2, <2>3, <1>2
<1> QED
  BY <1>3, <1>4 DEF Texts

LEMMA TextsStep == TypeOK /\ Texts /\ [Next]_vars => Texts'
<1> SUFFICES ASSUME TypeOK, Texts, [Next]_vars PROVE Texts'
  OBVIOUS
<1>1. ASSUME NEW agent \in BOOLEAN, NEW dir \in Dirs, NEW mode \in {"create", "overwrite", "append"},
             NEW audience \in Asked \cup {None}, NEW described \in BOOLEAN,
             Decide(agent, dir, mode, audience, described)
      PROVE  Texts'
  BY <1>1, DecideTexts
<1>2. ASSUME NEW c \in Calls, Truncate(c) \/ Land(c) PROVE Texts'
  BY <1>2, TruncateTexts, LandTexts
<1>3. ASSUME NEW to \in Dirs, NEW status \in Statuses, NEW audience \in Asked \cup {None},
             Load(to, status, audience)
      PROVE  Texts'
  BY <1>3, LoadTexts
<1>4. ASSUME NEW d \in Dirs, ServerAdds(d) PROVE Texts'
  BY <1>4, ServerAddsTexts
<1>5. CASE ServerDies
  <2>1. UNCHANGED <<disk, index, made, prom>> /\ \A c \in Calls : calls'[c] = None
    BY <1>5 DEF ServerDies, promVars
  <2>2. \A t : Settled(t, made, calls) => Settled(t, made', calls')
    BY SettledStays
  <2> QED
    BY <2>1, <2>2 DEF Texts, Held, Flying, Promoted, NeverTwoCopies
<1>6. CASE ServerCommits \/ ServerGivesUp \/ Commit \/ PromotionEnds
  BY <1>6 DEF ServerCommits, ServerGivesUp, promVars, Commit, PromotionEnds, callVars, git, jobs, Texts, Held, Flying, Promoted, NeverTwoCopies
<1>7. CASE UNCHANGED vars
  BY <1>7 DEF vars, callVars, promVars, git, jobs, Texts, Held, Flying, Promoted, NeverTwoCopies
<1> QED
  BY <1>1, <1>2, <1>3, <1>4, <1>5, <1>6, <1>7, RewriteTexts, RewrittenTexts, MoveTexts, AddTexts DEF Next

LEMMA TextsAlways == Spec => [](TypeOK /\ Texts)
<1>1. Inv => TypeOK
  BY DEF Inv
<1> QED
  BY InitInv, StepInv, TextsInit, TextsStep, <1>1, PTL DEF Spec

(***************************************************************************)
(* Whatever the server commits and writes between the add and the commit   *)
(* of a promotion, the history it makes has the text at one end of the     *)
(* move only (cli/promote.ts:60-71).                                       *)
(***************************************************************************)
THEOREM BothEndsCommitted == Spec => CommitMovesTheNote
<1>1. ASSUME TypeOK, Texts, [Next]_vars, prom # None, prom.stage = "staged", prom' = None, head' # head
      PROVE  prom.from = prom.to \/ Apart(head'[prom.from], head'[prom.to])
  <2>1. head' = index
    BY <1>1 DEF Next, Decide, Truncate, Land, ServerDies, ServerAdds, ServerCommits, ServerGivesUp, Load, Rewrite, Rewritten, Move, Add,
                Commit, PromotionEnds, Step, vars, callVars, promVars, git, jobs
  <2> QED
    BY <2>1, <1>1 DEF Texts, Promoted
<1>2. TypeOK /\ Texts /\ [Next]_vars =>
        [prom # None /\ prom.stage = "staged" /\ prom' = None /\ head' # head =>
           prom.from = prom.to \/ Apart(head'[prom.from], head'[prom.to])]_vars
  BY <1>1
<1> QED
  BY <1>2, TextsAlways, PTL DEF Spec, CommitMovesTheNote
-----------------------------------------------------------------------------
(***************************************************************************)
(* The confirmation of writes, for any proposals, clients, times and       *)
(* bounds: what is written was confirmed, and a client that let a form     *)
(* time out is remembered across restarts.                                 *)
(*                                                                         *)
(* A write keeps no trace of the question it answers: the invariant finds  *)
(* one among those a person ever said yes to.  It was put before it was    *)
(* answered, so the types bound its time.  The memory never holds less     *)
(* than the end of the audit: a line goes to both, later lines push it out *)
(* of the audit's end alone, and a restart makes them one again.           *)
(***************************************************************************)

\* Every timeout the end of the audit tells of is known, or a later one of the same identity.
TailIsKnown ==
  \A l \in InTail : l.at <= now /\ \E k \in known : k.agent = l.agent /\ l.at <= k.at

ConfirmInv == ConfirmTypeOK /\ WritesAreConfirmed /\ TailIsKnown

\* A line of the audit's end is a timeout.
LEMMA LinesAreLate ==
  ASSUME ConfirmTypeOK
  PROVE  InTail \subseteq Late
  BY DEF ConfirmTypeOK, InTail, Range

\* Time is a number.
LEMMA TimesAreNumbers ==
  Times \subseteq Nat /\ \A l \in Late : l.at \in Nat
  BY ConfirmBounds DEF Times, Late

\* Initially nothing was asked, recorded or written.
LEMMA ConfirmInitInv == ConfirmInit => ConfirmInv
  BY TimesAssumption, TailAssumption, ConfirmBounds
     DEF ConfirmInit, ConfirmInv, ConfirmTypeOK, WritesAreConfirmed, TailIsKnown, InTail, Range, Times, Nothing

-----------------------------------------------------------------------------
\* A question put now is a question, and leaves the others as they were.
LEMMA AskType ==
  ASSUME ConfirmTypeOK, NEW via \in {"form", "chat"}, NEW p \in Proposals, Ask(via, p)
  PROVE  /\ asked' \subseteq Question
         /\ \A q \in asked' \ asked : q.via = via
  BY DEF Ask, ConfirmTypeOK, Question

\* A line goes to the end of the audit, where the others move up.
LEMMA LogsType ==
  ASSUME ConfirmTypeOK, NEW line \in Late \cup {OtherLine}, Logs(line)
  PROVE  /\ tail' \in [1 .. TailLines -> Late \cup {OtherLine}]
         /\ InTail' \subseteq InTail \cup {line}
  <1>1. TailLines \in Nat /\ tail \in [1 .. TailLines -> Late \cup {OtherLine}]
    BY TailAssumption DEF ConfirmTypeOK
  <1>2. \A i \in 1 .. TailLines : i # TailLines => i + 1 \in 1 .. TailLines
    BY <1>1
  <1>3. tail' \in [1 .. TailLines -> Late \cup {OtherLine}]
    BY <1>1, <1>2 DEF Logs
  <1>4. \A i \in 1 .. TailLines : tail'[i] = line \/ \E j \in 1 .. TailLines : tail'[i] = tail[j]
    BY <1>1, <1>2 DEF Logs
  <1>. QED
    BY <1>1, <1>3, <1>4 DEF InTail, Range

\* A call that times nothing out keeps what is known.
LEMMA NoTimeoutKeeps ==
  ASSUME ConfirmInv, NoTimeout, now' = now
  PROVE  /\ tail' \in [1 .. TailLines -> Late \cup {OtherLine}]
         /\ known' = known
         /\ TailIsKnown'
  <1>1. known' = known
    BY DEF NoTimeout
  <1>2. CASE UNCHANGED tail
    BY <1>1, <1>2 DEF ConfirmInv, ConfirmTypeOK, TailIsKnown, InTail
  <1>3. CASE Logs(OtherLine)
    <2>1. tail' \in [1 .. TailLines -> Late \cup {OtherLine}] /\ InTail' \subseteq InTail \cup {OtherLine}
      BY <1>3, LogsType DEF ConfirmInv
    <2>2. OtherLine \notin InTail'
      BY DEF InTail
    <2>. QED
      BY <1>1, <2>1, <2>2 DEF ConfirmInv, TailIsKnown
  <1>. QED
    BY <1>2, <1>3 DEF NoTimeout

\* A call that asks, and times nothing out, keeps the invariant.
LEMMA AskInv ==
  ASSUME ConfirmInv, asked' \subseteq Question, NoTimeout, UNCHANGED <<now, boots, said, wrote>>
  PROVE  ConfirmInv'
  <1>1. /\ tail' \in [1 .. TailLines -> Late \cup {OtherLine}]
        /\ known' = known
        /\ TailIsKnown'
    BY NoTimeoutKeeps
  <1>. QED
    BY <1>1 DEF ConfirmInv, ConfirmTypeOK, WritesAreConfirmed

\* Asking once more, for whatever reason.
LEMMA AskAgainInv ==
  ASSUME ConfirmInv, NEW p \in Proposals, NEW answered \in BOOLEAN,
         AskAgain(p, answered), UNCHANGED <<now, boots, said>>
  PROVE  ConfirmInv'
  <1>1. asked' \subseteq Question
    BY AskType DEF AskAgain, ConfirmInv
  <1>. QED
    BY <1>1, AskInv DEF AskAgain

\* A write made on a fresh question of this very proposal keeps it.
LEMMA WriteInv ==
  ASSUME ConfirmInv, NEW q \in said, NEW p \in Proposals,
         Fresh(q), SameProposal(q, p), Write(p), UNCHANGED <<now, boots, said>>
  PROVE  ConfirmInv'
  <1>1. q.at \in Nat /\ now \in Nat /\ TTL \in Nat /\ now \in Times
    BY TimesAreNumbers, TimesAssumption DEF ConfirmInv, ConfirmTypeOK, Question
  <1>2. wrote' = [prop |-> p, at |-> now] /\ wrote' \in Writes /\ now <= q.at + TTL
    BY <1>1 DEF Write, Writes, Fresh
  <1>3. WritesAreConfirmed'
    BY <1>2 DEF WritesAreConfirmed, SameProposal
  <1>4. /\ tail' \in [1 .. TailLines -> Late \cup {OtherLine}]
        /\ known' = known
        /\ TailIsKnown'
    BY NoTimeoutKeeps DEF Write
  <1>. QED
    BY <1>2, <1>3, <1>4 DEF ConfirmInv, ConfirmTypeOK, Write

\* A form that closes goes to the chat; if it timed out, memory and audit learn it together.
LEMMA FormClosedInv ==
  ASSUME ConfirmInv, NEW q \in asked, NEW p \in Proposals,
         FormClosed(q, p), UNCHANGED <<now, boots, said>>
  PROVE  ConfirmInv'
  <1>. DEFINE late == [agent |-> p.agent, at |-> now]
  <1>1. asked' \subseteq Question
    BY AskType DEF FormClosed, ConfirmInv
  <1>2. CASE NoTimeout
    BY <1>1, <1>2, AskInv DEF FormClosed
  <1>3. CASE /\ known' = Latest(known, late)
             /\ Logs(late) \/ UNCHANGED tail
    <2>1. late \in Late /\ now \in Nat
      BY TimesAreNumbers DEF ConfirmInv, ConfirmTypeOK, Late, Proposals
    <2>2. known' \in SUBSET Late
      BY <1>3, <2>1 DEF Latest, ConfirmInv, ConfirmTypeOK
    <2>3. /\ tail' \in [1 .. TailLines -> Late \cup {OtherLine}]
          /\ InTail' \subseteq InTail \cup {late}
      <3>1. CASE Logs(late)
        BY <2>1, <3>1, LogsType DEF ConfirmInv
      <3>2. CASE UNCHANGED tail
        BY <3>2 DEF InTail, ConfirmInv, ConfirmTypeOK
      <3>. QED
        BY <1>3, <3>1, <3>2
    <2>4. ASSUME NEW l \in InTail'
          PROVE  l.at <= now /\ \E k \in known' : k.agent = l.agent /\ l.at <= k.at
      <3>1. late \in known' /\ late.at = now /\ late.agent = p.agent
        BY <1>3 DEF Latest
      <3>2. CASE l = late
        BY <2>1, <3>1, <3>2
      <3>3. CASE l \in InTail
        <4>1. l.at <= now /\ \E k \in known : k.agent = l.agent /\ l.at <= k.at
          BY <3>3 DEF ConfirmInv, TailIsKnown
        <4>2. PICK k \in known : k.agent = l.agent /\ l.at <= k.at
          BY <4>1
        <4>3. CASE l.agent = p.agent
          BY <3>1, <4>1, <4>3
        <4>4. CASE l.agent # p.agent
          BY <1>3, <4>1, <4>2, <4>4 DEF Latest
        <4>. QED
          BY <4>3, <4>4
      <3>. QED
        BY <2>3, <3>2, <3>3
    <2>. HIDE DEF late
    <2>5. TailIsKnown'
      BY <2>4 DEF TailIsKnown
    <2>. QED
      BY <1>1, <2>2, <2>3, <2>5 DEF ConfirmInv, ConfirmTypeOK, WritesAreConfirmed, FormClosed
  <1>. QED
    BY <1>2, <1>3 DEF FormClosed

\* Every call of a tool keeps the invariant.
LEMMA CallInv == ASSUME ConfirmInv, Call PROVE ConfirmInv'
  <1>. USE DEF Call
  <1>1. ASSUME NEW p \in Proposals, FirstCall(p)
        PROVE  ConfirmInv'
    BY <1>1, AskAgainInv DEF FirstCall
  <1>2. ASSUME NEW q \in asked, NEW p \in Proposals, Redeem(q, p)
        PROVE  ConfirmInv'
    <2>1. CASE q \in said /\ Fresh(q) /\ SameProposal(q, p) /\ Write(p)
      BY <2>1, WriteInv
    <2>2. CASE AskAgain(p, FALSE)
      BY <2>2, AskAgainInv
    <2>. QED
      BY <1>2, <2>1, <2>2 DEF Redeem
  <1>3. ASSUME NEW q \in asked, NEW p \in Proposals, Retry(q, p)
        PROVE  ConfirmInv'
    <2>1. CASE Ask("chat", p) /\ NoTimeout /\ UNCHANGED wrote
      <3>1. asked' \subseteq Question
        BY <2>1, AskType DEF ConfirmInv
      <3>. QED
        BY <2>1, <3>1, AskInv
    <2>2. CASE AskAgain(p, TRUE)
      BY <2>2, AskAgainInv
    <2>. QED
      BY <1>3, <2>1, <2>2 DEF Retry
  <1>4. ASSUME NEW q \in asked, NEW p \in Proposals, Submit(q, p)
        PROVE  ConfirmInv'
    BY <1>4, WriteInv DEF Submit
  <1>5. ASSUME NEW q \in asked, NEW p \in Proposals, FormClosed(q, p)
        PROVE  ConfirmInv'
    BY <1>5, FormClosedInv
  <1>6. CASE OtherCall
    BY <1>6, AskInv DEF OtherCall, ConfirmInv, ConfirmTypeOK
  <1>. QED
    BY <1>1, <1>2, <1>3, <1>4, <1>5, <1>6

-----------------------------------------------------------------------------
LEMMA ConfirmStepInv == ConfirmInv /\ [ConfirmNext]_confirmVars => ConfirmInv'
  <1>. SUFFICES ASSUME ConfirmInv, [ConfirmNext]_confirmVars PROVE ConfirmInv'
    OBVIOUS
  <1>1. CASE Call
    BY <1>1, CallInv
  <1>2. ASSUME NEW q \in asked, SayYes(q) PROVE ConfirmInv'
    BY <1>2 DEF SayYes, auditVars, ConfirmInv, ConfirmTypeOK, WritesAreConfirmed, TailIsKnown, InTail
  <1>3. ASSUME NEW q \in asked, Forget(q) PROVE ConfirmInv'
    BY <1>3 DEF Forget, auditVars, ConfirmInv, ConfirmTypeOK, WritesAreConfirmed, TailIsKnown, InTail
  <1>4. CASE Tick
    <2>1. now' \in Times /\ now \in Nat /\ now' = now + 1
      BY <1>4, ConfirmBounds DEF Tick, ConfirmInv, ConfirmTypeOK, Times
    <2>2. known' = known /\ InTail' = InTail /\ InTail \subseteq Late
      BY <1>4, LinesAreLate DEF Tick, auditVars, InTail, ConfirmInv
    <2>3. TailIsKnown'
      BY <2>1, <2>2, TimesAreNumbers DEF TailIsKnown, ConfirmInv
    <2>. QED
      BY <1>4, <2>1, <2>3 DEF Tick, auditVars, ConfirmInv, ConfirmTypeOK, WritesAreConfirmed
  <1>5. CASE Restart
    <2>1. boots' \in 1 .. MaxBoots
      BY <1>5, ConfirmBounds DEF Restart, ConfirmInv, ConfirmTypeOK
    <2>2. known' = InTail /\ InTail' = InTail /\ InTail \subseteq Late /\ now' = now
      BY <1>5, LinesAreLate DEF Restart, InTail, ConfirmInv
    <2>3. TailIsKnown'
      BY <2>2, TimesAreNumbers DEF TailIsKnown, ConfirmInv
    <2>. QED
      BY <1>5, <2>1, <2>2, <2>3 DEF Restart, ConfirmInv, ConfirmTypeOK, WritesAreConfirmed
  <1>6. CASE UNCHANGED confirmVars
    BY <1>6 DEF confirmVars, auditVars, ConfirmInv, ConfirmTypeOK, WritesAreConfirmed, TailIsKnown, InTail
  <1>. QED
    BY <1>1, <1>2, <1>3, <1>4, <1>5, <1>6 DEF ConfirmNext

LEMMA ConfirmInvAlways == ConfirmSpec => []ConfirmInv
  BY ConfirmInitInv, ConfirmStepInv, PTL DEF ConfirmSpec

(***************************************************************************)
(* Of whatever a write tool writes there is a question a person said yes   *)
(* to, put no longer ago than the TTL, with the same writer and the fields *)
(* that are fingerprinted as they are written (tools.ts:604-612, 686-689). *)
(***************************************************************************)
THEOREM Confirmed == ConfirmSpec => [](ConfirmTypeOK /\ WritesAreConfirmed)
  <1>1. ConfirmInv => ConfirmTypeOK /\ WritesAreConfirmed
    BY DEF ConfirmInv
  <1>. QED
    BY ConfirmInvAlways, <1>1, PTL

(***************************************************************************)
(* A client whose timeout is among the audit's last lines, or happened     *)
(* since and is among them too, is not shown a form on a first call while  *)
(* it is remembered, whatever process answers (form-timeouts.ts:13-17).    *)
(***************************************************************************)
THEOREM TimeoutsRemembered == ConfirmSpec => TimeoutsOutliveRestarts
  <1>1. ASSUME ConfirmInv, NEW p \in Proposals,
               \E l \in InTail : l.agent = p.agent /\ now - l.at <= Memory,
               FirstCall(p)
        PROVE  \A q \in asked' \ asked : q.via = "chat"
    <2>1. PICK l \in InTail : l.agent = p.agent /\ now - l.at <= Memory
      BY <1>1
    <2>2. PICK k \in known : k.agent = l.agent /\ l.at <= k.at
      BY <1>1, <2>1 DEF ConfirmInv, TailIsKnown
    <2>3. l.at \in Nat /\ k.at \in Nat /\ now \in Nat /\ Memory \in Nat
      BY <1>1, <2>1, <2>2, LinesAreLate, TimesAreNumbers, TimesAssumption DEF ConfirmInv, ConfirmTypeOK
    <2>4. now - k.at <= Memory
      BY <2>1, <2>2, <2>3
    <2>5. TimedOutBefore(p.agent)
      BY <2>1, <2>2, <2>4 DEF TimedOutBefore
    <2>6. Ask("chat", p)
      BY <1>1, <2>5 DEF FirstCall, AskAgain
    <2>. QED
      BY <1>1, <2>6, AskType DEF ConfirmInv
  <1>2. ConfirmInv =>
          [\A p \in Proposals :
             (\E l \in InTail : l.agent = p.agent /\ now - l.at <= Memory) /\ FirstCall(p)
               => \A q \in asked' \ asked : q.via = "chat"]_confirmVars
    BY <1>1
  <1>. QED
    BY ConfirmInvAlways, <1>2, PTL DEF TimeoutsOutliveRestarts
=============================================================================
