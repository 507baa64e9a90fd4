-------------------------- MODULE WriteConfirmation --------------------------
(***************************************************************************)
(* The person confirms (packages/server/src/tools.ts, `runWrite`): a write *)
(* tool called by a client that can show a form is answered with the form, *)
(* or with a code to be redeemed after a yes in the chat, and the same     *)
(* call is made again with the answer.  The server remembers nothing of    *)
(* the question: the form's state and the code carry the fingerprint of    *)
(* what was proposed and the time, and the retry's own arguments are       *)
(* fingerprinted again.  It does remember the clients that let a form time *)
(* out (form-timeouts.ts), and rebuilds that from the end of the audit     *)
(* when started.                                                           *)
(*                                                                         *)
(* The client is honest about the person, and about nothing else: it may   *)
(* change the arguments between the question and the retry, answer an old  *)
(* form, redeem a code late, or twice, or have another identity redeem it. *)
(***************************************************************************)
EXTENDS Naturals, FiniteSets, Sequences, Functions, TLC

CONSTANTS
  Agents,      \* the identities that write, each from a client of its own
  Bodies,      \* what a note may say; the other fields that are fingerprinted
  Audiences,   \* the audience its owner may give it; not one of them
  TTL,         \* WRITE_CONFIRMATION_TTL_MS
  FormTimeout, \* FORM_TIMEOUT_MS
  Memory,      \* FORM_TIMEOUT_MEMORY_MS
  TailLines,   \* AUDIT_TAIL_BYTES, in lines
  MaxTime,     \* bound: the last instant
  MaxBoots,    \* bound: processes started
  MaxAsked,    \* bound: questions open at any time
  MaxYes       \* bound: questions ever answered yes

ASSUME TimesAssumption ==
  /\ TTL \in Nat /\ FormTimeout \in Nat /\ Memory \in Nat
  /\ FormTimeout <= TTL /\ TTL <= Memory

ASSUME TailAssumption == TailLines \in Nat \ {0}

ASSUME ConfirmBounds == MaxTime \in Nat /\ MaxBoots \in Nat /\ MaxBoots > 0

VARIABLES
  now,      \* the time
  boots,    \* which process this is: each has a CONFIRMATION_KEY of its own
  asked,    \* forms and codes sent out and not forgotten by the client
  said,     \* the questions a person has answered yes, ever
  known,    \* `FormTimeouts.seen`
  tail,     \* the last lines of the audit
  wrote     \* the last write made, and when

auditVars == <<known, tail>>
confirmVars == <<now, boots, asked, said, auditVars, wrote>>

Proposals == [agent : Agents, body : Bodies, audience : Audiences]
Times == 0 .. MaxTime
Question == [via : {"form", "chat"}, prop : Proposals, at : Times, boot : 1 .. MaxBoots]
Writes == [prop : Proposals, at : Times]
Nothing == [at |-> "never"]
Late == [agent : Agents, at : Times]
OtherLine == [at |-> "of another call"]

ConfirmTypeOK ==
  /\ now \in Times
  /\ boots \in 1 .. MaxBoots
  /\ asked \subseteq Question /\ said \subseteq Question
  /\ known \in SUBSET Late
  /\ tail \in [1 .. TailLines -> Late \cup {OtherLine}]
  /\ wrote \in Writes \cup {Nothing}

ConfirmInit ==
  /\ now = 0 /\ boots = 1
  /\ asked = {} /\ said = {}
  /\ known = {}
  /\ tail = [i \in 1 .. TailLines |-> OtherLine]
  /\ wrote = Nothing

\* `fingerprint`: of the name, folder, mode, type, description, body and agent.
Fingerprint(p) == <<p.agent, p.body>>

\* Mutant of SameProposal: the retry is taken at its word.
SameProposalTrusted(q, p) == p \in Proposals

\* `stateMatches`, and the fingerprint in `codeMatches`.
SameProposal(q, p) == Fingerprint(q.prop) = Fingerprint(p)

Fresh(q) == now - q.at <= TTL

\* `formTimeouts.has`
TimedOutBefore(a) == \E l \in known : l.agent = a /\ now - l.at <= Memory

\* What the end of the audit says of forms that timed out.
InTail == Range(tail) \ {OtherLine}
-----------------------------------------------------------------------------
Logs(line) == tail' = [i \in 1 .. TailLines |-> IF i = TailLines THEN line ELSE tail[i + 1]]

\* A call is a line of the audit, if there is one and the line can be written.
NoTimeout == (Logs(OtherLine) \/ UNCHANGED tail) /\ UNCHANGED known

\* `add` keeps the last of an identity.
Latest(lines, late) == {l \in lines : l.agent # late.agent} \cup {late}

Ask(via, p) ==
  LET q == [via |-> via, prop |-> p, at |-> now, boot |-> boots]
  IN /\ Cardinality(asked) < MaxAsked
     /\ asked' = asked \cup {q}

Write(p) ==
  /\ wrote' = [prop |-> p, at |-> now]
  /\ NoTimeout
  /\ UNCHANGED asked

(***************************************************************************)
(* A first call, or a retry that changed the arguments of an answered form *)
(* (`answered`): one more question, in the chat when the caller asked for  *)
(* that, or, with no answer given, when its client lets forms time out.    *)
(***************************************************************************)
AskAgain(p, answered) ==
  /\ \/ Ask("chat", p)
     \/ /\ answered \/ ~TimedOutBefore(p.agent)
        /\ Ask("form", p)
  /\ NoTimeout
  /\ UNCHANGED wrote

FirstCall(p) == AskAgain(p, FALSE)

(***************************************************************************)
(* A call that carries a code.  An expired one is refused by its date; one *)
(* of this process, for this proposal, writes; any other is as if none had *)
(* been given.                                                             *)
(***************************************************************************)
Redeem(q, p) ==
  /\ q.via = "chat" /\ q \in said
  /\ \/ /\ Fresh(q) /\ q.boot = boots /\ SameProposal(q, p)
        /\ Write(p)
     \/ /\ Fresh(q) /\ ~(q.boot = boots /\ SameProposal(q, p))
        /\ AskAgain(p, FALSE)

(***************************************************************************)
(* A retry of a call answered with a form, whatever the answer: one that   *)
(* asks for the chat after all gets it, and one of another proposal is     *)
(* asked again.                                                            *)
(***************************************************************************)
Retry(q, p) ==
  /\ q.via = "form"
  /\ \/ Ask("chat", p) /\ NoTimeout /\ UNCHANGED wrote
     \/ ~SameProposal(q, p) /\ AskAgain(p, TRUE)

\* The answer is a yes, and its form is not too old.  (A no changes nothing.)
Submit(q, p) ==
  /\ q.via = "form" /\ q \in said
  /\ SameProposal(q, p) /\ Fresh(q)
  /\ Write(p)

(***************************************************************************)
(* A form closed unanswered, or answered in a way that says nothing: the   *)
(* question goes to the chat.  This long after it was issued it is the     *)
(* client's own timeout, which is remembered and audited.                  *)
(***************************************************************************)
FormClosed(q, p) ==
  /\ q.via = "form"
  /\ SameProposal(q, p) /\ Fresh(q)
  /\ Ask("chat", p)
  /\ LET late == [agent |-> p.agent, at |-> now]
     IN \/ now - q.at < FormTimeout /\ NoTimeout
        \/ /\ now - q.at >= FormTimeout
           /\ known' = Latest(known, late)
           /\ Logs(late) \/ UNCHANGED tail
  /\ UNCHANGED wrote

\* Every other tool is audited too.
OtherCall == NoTimeout /\ UNCHANGED <<asked, wrote>>

Call ==
  /\ \/ \E p \in Proposals : FirstCall(p)
     \/ \E q \in asked, p \in Proposals :
          Redeem(q, p) \/ Retry(q, p) \/ Submit(q, p) \/ FormClosed(q, p)
     \/ OtherCall
  /\ UNCHANGED <<now, boots, said>>
-----------------------------------------------------------------------------
\* The person reads the question and says yes.
SayYes(q) ==
  /\ Cardinality(said) < MaxYes
  /\ said' = said \cup {q}
  /\ UNCHANGED <<now, boots, asked, auditVars, wrote>>

\* A question is answered no, or dropped.
Forget(q) ==
  /\ asked' = asked \ {q}
  /\ UNCHANGED <<now, boots, said, auditVars, wrote>>

Tick ==
  /\ now < MaxTime
  /\ now' = now + 1
  /\ UNCHANGED <<boots, asked, said, auditVars, wrote>>

\* Mutant of Restart: the memory is the process's own.
RestartForgets ==
  /\ boots < MaxBoots
  /\ boots' = boots + 1
  /\ known' = {}
  /\ UNCHANGED <<now, asked, said, tail, wrote>>

\* A new process, with a new key and what `seedFromAudit` reads in the end of the audit.
Restart ==
  /\ boots < MaxBoots
  /\ boots' = boots + 1
  /\ known' = InTail
  /\ UNCHANGED <<now, asked, said, tail, wrote>>

ConfirmNext ==
  \/ Call
  \/ \E q \in asked : SayYes(q) \/ Forget(q)
  \/ Tick
  \/ Restart

ConfirmSpec == ConfirmInit /\ [][ConfirmNext]_confirmVars

\* Names are only compared.
ConfirmSymmetry == Permutations(Agents) \cup Permutations(Bodies) \cup Permutations(Audiences)
-----------------------------------------------------------------------------
(***************************************************************************)
(* What is written is what a person has said yes to, as far as it was      *)
(* fingerprinted -- the note, and who writes it -- in a question put to    *)
(* them within the TTL: through altered retries, codes redeemed late or by *)
(* another identity, restarts and forms that turn into codes               *)
(* (tools.ts:604-612, 686-689).  The audience is not among those fields:   *)
(* the note may be written for another than the one they were shown.       *)
(***************************************************************************)
WritesAreConfirmed ==
  wrote # Nothing =>
    \E q \in said : Fingerprint(q.prop) = Fingerprint(wrote.prop) /\ wrote.at <= q.at + TTL

(***************************************************************************)
(* A client that let a form time out is not shown another on a first call  *)
(* for as long as that is remembered, in this process or in one started    *)
(* since, if its line is among the last of the audit: what was read there  *)
(* at start and what happened since are enough (form-timeouts.ts:13-17).   *)
(***************************************************************************)
TimeoutsOutliveRestarts ==
  [][\A p \in Proposals :
       (\E l \in InTail : l.agent = p.agent /\ now - l.at <= Memory) /\ FirstCall(p)
         => \A q \in asked' \ asked : q.via = "chat"]_confirmVars
=============================================================================
