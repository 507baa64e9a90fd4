------------------------------- MODULE SignIn -------------------------------
(***************************************************************************)
(* Who a request is from.  A credential is the master token, an agent's    *)
(* token from the agents file, or an access token of the OAuth server: a   *)
(* code given on the consent page to who pasted a token there, exchanged   *)
(* once for a token that names that subject.  Access tokens are not kept:  *)
(* they are verified against the master token, so they outlive restarts;   *)
(* codes are kept in memory, and do not.  The file and the master token    *)
(* are read when a process starts.                                         *)
(***************************************************************************)
EXTENDS HttpRouter, Sequences, FiniteSets, TLC

CONSTANTS
  Masters,    \* master tokens, one at a time
  Agents,     \* names of agents
  Secrets,    \* tokens an agents file may give
  Clients,    \* OAuth clients
  Codes,      \* authorization codes: random, never given twice
  Verifiers,  \* PKCE verifiers, and their challenges
  CodeTTL,    \* how long a code is good for
  MaxTime,    \* bound on the clock
  MaxBoots    \* bound on the processes started

Owner == "owner"
Subjects == Agents \cup {Owner}

ASSUME TokensAssumption == Masters \cap Secrets = {} /\ None \notin Secrets \cup Subjects
ASSUME TimesAssumption == CodeTTL \in Nat /\ MaxTime \in Nat /\ MaxBoots \in Nat
ASSUME AgentsAssumption == Owner \notin Agents   \* `loadAgents` refuses the name

VARIABLES
  agents,    \* the agents file as this process read it: an agent's token, or None
  master,    \* the master token of this process
  up,        \* whether there is a process
  boots,     \* processes started
  now,       \* the clock
  codes,     \* `codes`: what each pending code was given for, or None
  consents,  \* every code ever given, with what it was given for, and by which process
  issued     \* access tokens ever issued, with the code each was exchanged for

vars == <<agents, master, up, boots, now, codes, consents, issued>>
loaded == <<agents, master, up, boots>>
oauth == <<codes, consents, issued>>

\* What a client asks a code for, and what an exchange must show again.
Grant == [client : Clients, challenge : Verifiers, subject : Subjects, expiresAt : Nat]
-----------------------------------------------------------------------------
\* `loadAgents`: what it accepts.  A file with one token for two agents stops the start.
Files == {f \in [Agents -> Secrets \cup {None}] : \A a, b \in Agents : f[a] # None /\ f[a] = f[b] => a = b}

(***************************************************************************)
(* `identityForToken`: the master token is the owner, an agent's is that   *)
(* agent, whichever order the agents are looked at in.                     *)
(***************************************************************************)
Static(presented) ==
  IF presented = master THEN Owner
  ELSE IF \E a \in Agents : agents[a] = presented
    THEN CHOOSE a \in Agents : agents[a] = presented
    ELSE None

\* Mutant of Minted: every subject's token has the owner's older form.
MintedAlike(key, client, subject) == [id |-> <<client>>, key |-> key]

\* `mintAccessToken`: the id, of one part for the owner, and the key it is signed with.
Minted(key, client, subject) ==
  [id |-> IF subject = Owner THEN <<client>> ELSE <<subject, client>>, key |-> key]

(***************************************************************************)
(* `subjectOfAccessToken`: who the id says it was issued to, if minting it *)
(* again gives the same.  A client id is the UUID its registration gave,   *)
(* and has no "~" to be split at.                                          *)
(***************************************************************************)
SubjectOf(token) ==
  LET subject == IF Len(token.id) = 2 THEN token.id[1] ELSE Owner
      client == token.id[Len(token.id)]
  IN IF Minted(master, client, subject) = token THEN subject ELSE None

\* Mutant of Resolve: a token that verifies is enough.
ResolveVerified(token) == SubjectOf(token)

\* `resolveIdentity` for an access token: an agent gone from the file has no identity.
Resolve(token) ==
  LET subject == SubjectOf(token)
  IN IF subject = Owner \/ (subject \in Agents /\ agents[subject] # None) THEN subject ELSE None
-----------------------------------------------------------------------------
Consent == [code : Codes, boot : Nat, grant : Grant]
Issued == {i \in [code : Codes, subject : Subjects, at : Nat, boot : Nat, client : Clients,
                  verifier : Verifiers, token : [id : Seq(Subjects \cup Clients), key : Masters]] :
             i.token = Minted(i.token.key, i.client, i.subject)}

TypeOK ==
  /\ agents \in [Agents -> Secrets \cup {None}]
  /\ master \in Masters
  /\ up \in BOOLEAN /\ boots \in Nat /\ now \in Nat
  /\ codes \in [Codes -> Grant \cup {None}]
  /\ consents \subseteq Consent
  /\ issued \subseteq Issued

Init ==
  /\ agents \in Files /\ master \in Masters
  /\ up = TRUE /\ boots = 1 /\ now = 0
  /\ codes = [c \in Codes |-> None]
  /\ consents = {} /\ issued = {}

Given == {c.code : c \in consents}

(***************************************************************************)
(* POST /authorize, with an allowed redirect and a challenge: the token    *)
(* pasted on the page says who consents, and a code is kept for that; the  *)
(* codes that have expired go.  Any other token is asked for again.        *)
(***************************************************************************)
Authorize(client, challenge, presented) ==
  /\ up /\ Static(presented) # None
  /\ \E code \in Codes \ Given :
       LET grant == [client |-> client, challenge |-> challenge, subject |-> Static(presented),
                     expiresAt |-> now + CodeTTL]
       IN /\ codes' = [c \in Codes |->
                        IF c = code THEN grant
                        ELSE IF codes[c] # None /\ codes[c].expiresAt < now THEN None ELSE codes[c]]
          /\ consents' = consents \cup {[code |-> code, boot |-> boots, grant |-> grant]}
  /\ UNCHANGED <<loaded, now, issued>>

\* What a good exchange leaves behind.
Issue(code, entry, verifier) ==
  issued \cup {[code |-> code, subject |-> entry.subject, at |-> now, boot |-> boots,
               client |-> entry.client, verifier |-> verifier,
               token |-> Minted(master, entry.client, entry.subject)]}

\* Mutant of Exchange: a code is good for as long as it is kept.
ExchangeLate(code, client, verifier) ==
  /\ up /\ code \in Given
  /\ codes' = [codes EXCEPT ![code] = None]
  /\ LET entry == codes[code]
     IN issued' = IF entry # None /\ entry.client = client /\ entry.challenge = verifier
                    THEN Issue(code, entry, verifier) ELSE issued
  /\ UNCHANGED <<loaded, now, consents>>

(***************************************************************************)
(* POST /token: the code is spent by being named, before anything else is  *)
(* looked at; then it must be known and not expired, shown by the client   *)
(* it was given to, with the verifier of its challenge.                    *)
(***************************************************************************)
Exchange(code, client, verifier) ==
  /\ up /\ code \in Given
  /\ codes' = [codes EXCEPT ![code] = None]
  /\ LET entry == codes[code]
     IN issued' = IF /\ entry # None /\ entry.expiresAt >= now
                     /\ entry.client = client /\ entry.challenge = verifier
                    THEN Issue(code, entry, verifier) ELSE issued
  /\ UNCHANGED <<loaded, now, consents>>
-----------------------------------------------------------------------------
\* The process ends, and what it kept in memory with it.
Stop ==
  /\ up
  /\ up' = FALSE
  /\ codes' = [c \in Codes |-> None]
  /\ UNCHANGED <<agents, master, boots, now, consents, issued>>

(***************************************************************************)
(* `serveHttp`, with the agents file and the master token as the operator  *)
(* has left them: edited, rotated, an agent removed or put back.  While    *)
(* the file is not valid the start fails, and is tried again.              *)
(***************************************************************************)
Restart ==
  /\ ~up /\ boots < MaxBoots
  /\ up' = TRUE /\ boots' = boots + 1
  /\ agents' \in Files /\ master' \in Masters
  /\ UNCHANGED <<now, oauth>>

Tick ==
  /\ now < MaxTime
  /\ now' = now + 1
  /\ UNCHANGED <<loaded, oauth>>

Next ==
  \/ \E c \in Clients, v \in Verifiers, p \in Masters \cup Secrets : Authorize(c, v, p)
  \/ \E code \in Codes, c \in Clients, v \in Verifiers : Exchange(code, c, v)
  \/ Stop \/ Restart \/ Tick

Spec == Init /\ [][Next]_vars

\* Names are only compared.
Symmetry ==
  Permutations(Masters) \cup Permutations(Agents) \cup Permutations(Secrets)
    \cup Permutations(Codes) \cup Permutations(Verifiers)
-----------------------------------------------------------------------------
(***************************************************************************)
(* Every access token goes back to one consent: the code was given to that *)
(* client, for that subject, by the process that exchanged it, no longer   *)
(* than its TTL before; and no consent gives two tokens (oauth.ts:234-282).*)
(***************************************************************************)
TokensAreConsented ==
  /\ \A t \in issued : \E c \in consents :
       /\ c.code = t.code /\ c.boot = t.boot
       /\ c.grant.client = t.client /\ c.grant.subject = t.subject
       /\ c.grant.challenge = t.verifier
       /\ t.at <= c.grant.expiresAt
  /\ \A t, u \in issued : t.code = u.code => t = u

(***************************************************************************)
(* What an access token is worth now, whatever was restarted, rotated,     *)
(* removed or put back since: its subject, if it was signed with this      *)
(* process's master token and the subject is in the file this process      *)
(* read; nothing otherwise.  So no token becomes another's when an agent   *)
(* leaves, or one of another name comes (oauth.ts:49-65, http.ts:96-105).  *)
(***************************************************************************)
AccessIsExact ==
  up => \A t \in issued :
    Resolve(t.token) = IF /\ t.token.key = master
                          /\ t.subject = Owner \/ agents[t.subject] # None
                         THEN t.subject ELSE None

(***************************************************************************)
(* What clients of each era send: the handshake, then calls that declare   *)
(* an older version or none; or calls that all declare one.                *)
(***************************************************************************)
HandshakeClient ==
  {Message("initialize", v, TRUE, TRUE) : v \in {None, 202511, ModernVersion}}
    \cup {Message("notifications/initialized", None, FALSE, TRUE)}
    \cup {Message("tools/call", v, TRUE, f) : v \in {None, 202511}, f \in BOOLEAN}
ModernClient ==
  {Message("server/discover", v, TRUE, TRUE) : v \in {None, ModernVersion}}
    \cup {Message(m, v, TRUE, f) : m \in {"tools/call", "tasks/get"}, v \in {ModernVersion, 202701}, f \in BOOLEAN}

(***************************************************************************)
(* A client is answered by the implementation of its era and by no other,  *)
(* through a whole conversation, whatever it says in its handshake; where  *)
(* the era is pinned to the handshake, what a modern client gets is not a  *)
(* modern answer, which is how it learns to fall back; and nobody without  *)
(* an identity learns what is served where (http.ts:141-211,               *)
(* modern.ts:61-76).                                                       *)
(***************************************************************************)
EachEraItsAnswerer ==
  LET served(pin, body) == Route(pin, "mcp", Owner, body)
  IN /\ \A b \in HandshakeClient : served("auto", b) = "legacy" /\ served("legacy", b) = "legacy"
     /\ \A b \in ModernClient : served("auto", b) = Modern(b) /\ served("modern", b) = Modern(b)
                                /\ served("legacy", b) = "pinned-to-legacy"
     /\ \A t \in issued, pin \in {"auto", "legacy", "modern"}, place \in {"mcp", "elsewhere"}, b \in ModernClient :
          Resolve(t.token) = None => Route(pin, place, Resolve(t.token), b) = "unauthorized"
=============================================================================
