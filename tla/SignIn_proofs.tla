---------------------------- MODULE SignIn_proofs ----------------------------
(***************************************************************************)
(* Access tokens, for any agents, clients, codes and restarts: each goes   *)
(* back to one consent, and what a token is worth is decided by this       *)
(* process's master token and agents file.                                 *)
(*                                                                         *)
(* The induction follows a code: while it is pending, a consent of this    *)
(* very process was given for it and no token issued; a token was issued   *)
(* for a code that was given.                                              *)
(***************************************************************************)
EXTENDS SignIn, TLAPS

\* A pending code has given no token, and was consented to in this process, for what it is kept for.
PendingIsConsented ==
  \A k \in Codes : codes[k] # None =>
    /\ up /\ \A t \in issued : t.code # k
    /\ [code |-> k, boot |-> boots, grant |-> codes[k]] \in consents

\* Only codes given are exchanged.
IssuedAreGiven == \A t \in issued : t.code \in Given

Inv == TypeOK /\ PendingIsConsented /\ IssuedAreGiven /\ TokensAreConsented

LEMMA InitInv == Init => Inv
  BY DEF Init, Inv, TypeOK, Files, PendingIsConsented, IssuedAreGiven, TokensAreConsented

\* A token consents for the owner or for an agent, or for nobody.
LEMMA StaticType ==
  ASSUME NEW presented PROVE Static(presented) \in Subjects \cup {None}
  BY DEF Static, Subjects

\* What is minted is a token.
LEMMA MintedType ==
  ASSUME NEW key \in Masters, NEW client \in Clients, NEW subject \in Subjects
  PROVE  /\ Minted(key, client, subject) \in [id : Seq(Subjects \cup Clients), key : Masters]
         /\ Minted(key, client, subject).key = key
  BY DEF Minted
-----------------------------------------------------------------------------
LEMMA AuthorizeInv ==
  ASSUME Inv, NEW client \in Clients, NEW challenge \in Verifiers, NEW presented,
         Authorize(client, challenge, presented)
  PROVE  Inv'
<1> DEFINE grant == [client |-> client, challenge |-> challenge, subject |-> Static(presented),
                     expiresAt |-> now + CodeTTL]
<1>1. PICK code \in Codes \ Given :
        /\ codes' = [c \in Codes |->
                       IF c = code THEN grant
                       ELSE IF codes[c] # None /\ codes[c].expiresAt < now THEN None ELSE codes[c]]
        /\ consents' = consents \cup {[code |-> code, boot |-> boots, grant |-> grant]}
  BY DEF Authorize
<1>2. grant \in Grant
  BY StaticType, TimesAssumption DEF Authorize, Grant, Inv, TypeOK
<1> HIDE DEF grant
<1>3. TypeOK'
  BY <1>1, <1>2 DEF Authorize, Inv, TypeOK, loaded, Consent
<1>4. PendingIsConsented'
  BY <1>1 DEF Authorize, Inv, TypeOK, PendingIsConsented, IssuedAreGiven, loaded, Given
<1>5. IssuedAreGiven' /\ TokensAreConsented'
  BY <1>1 DEF Authorize, Inv, IssuedAreGiven, TokensAreConsented, Given
<1>. QED BY <1>3, <1>4, <1>5 DEF Inv

LEMMA ExchangeInv ==
  ASSUME Inv, NEW code \in Codes, NEW client \in Clients, NEW verifier \in Verifiers,
         Exchange(code, client, verifier)
  PROVE  Inv'
<1> DEFINE entry == codes[code]
           token == [code |-> code, subject |-> entry.subject, at |-> now, boot |-> boots,
                     client |-> entry.client, verifier |-> verifier,
                     token |-> Minted(master, entry.client, entry.subject)]
           good == /\ entry # None /\ entry.expiresAt >= now
                   /\ entry.client = client /\ entry.challenge = verifier
<1>1. /\ codes' = [codes EXCEPT ![code] = None]
      /\ issued' = IF good THEN issued \cup {token} ELSE issued
      /\ UNCHANGED <<loaded, now, consents>> /\ code \in Given
  BY DEF Exchange, Issue
<1>2. ASSUME good PROVE token \in Issued
  <2>1. entry \in Grant
    BY <1>2 DEF Inv, TypeOK
  <2>2. entry.client \in Clients /\ entry.subject \in Subjects /\ master \in Masters
    BY <2>1 DEF Grant, Inv, TypeOK
  <2>. QED BY <2>2, MintedType DEF Issued, Inv, TypeOK
<1>3. TypeOK'
  BY <1>1, <1>2 DEF Inv, TypeOK, loaded
<1>4. PendingIsConsented'
  <2>1. \A k \in Codes : codes'[k] # None => k # code /\ codes'[k] = codes[k]
    BY <1>1 DEF Inv, TypeOK
  <2>2. \A t \in issued' : t \in issued \/ t.code = code
    BY <1>1
  <2>. QED BY <1>1, <2>1, <2>2 DEF Inv, PendingIsConsented, loaded
<1>5. IssuedAreGiven'
  BY <1>1 DEF Inv, IssuedAreGiven, Given
<1>6. TokensAreConsented'
  <2>1. ASSUME good
        PROVE  \E c \in consents :
                 /\ c.code = token.code /\ c.boot = token.boot
                 /\ c.grant.client = token.client /\ c.grant.subject = token.subject
                 /\ c.grant.challenge = token.verifier
                 /\ token.at <= c.grant.expiresAt
    <3>1. entry \in Grant /\ [code |-> code, boot |-> boots, grant |-> entry] \in consents
      BY <2>1 DEF Inv, TypeOK, PendingIsConsented
    <3>2. now <= entry.expiresAt
      BY <2>1, <3>1 DEF Inv, TypeOK, Grant
    <3>. QED BY <2>1, <3>1, <3>2
  <2>2. ASSUME good PROVE \A t \in issued : t.code # code
    BY <2>2 DEF Inv, PendingIsConsented, IssuedAreGiven
  <2>3. token.code = code
    OBVIOUS
  <2> HIDE DEF token, good
  <2>. QED BY <1>1, <2>1, <2>2, <2>3 DEF Inv, TokensAreConsented
<1>. QED BY <1>3, <1>4, <1>5, <1>6 DEF Inv

LEMMA StepInv == Inv /\ [Next]_vars => Inv'
<1> SUFFICES ASSUME Inv, [Next]_vars PROVE Inv'
  OBVIOUS
<1>1. ASSUME NEW c \in Clients, NEW v \in Verifiers, NEW p \in Masters \cup Secrets, Authorize(c, v, p)
      PROVE  Inv'
  BY <1>1, AuthorizeInv
<1>2. ASSUME NEW code \in Codes, NEW c \in Clients, NEW v \in Verifiers, Exchange(code, c, v)
      PROVE  Inv'
  BY <1>2, ExchangeInv
<1>3. CASE Stop
  BY <1>3 DEF Stop, Inv, TypeOK, PendingIsConsented, IssuedAreGiven, TokensAreConsented, Given
<1>4. CASE Restart
  <2>1. agents' \in [Agents -> Secrets \cup {None}] /\ master' \in Masters /\ boots' \in Nat /\ up' = TRUE
    BY <1>4 DEF Restart, Files, Inv, TypeOK
  <2>2. ~up /\ UNCHANGED <<now, codes, consents, issued>>
    BY <1>4 DEF Restart, oauth
  <2>3. TypeOK'
    BY <2>1, <2>2 DEF Inv, TypeOK
  <2>4. PendingIsConsented' /\ IssuedAreGiven' /\ TokensAreConsented'
    BY <2>2 DEF Inv, PendingIsConsented, IssuedAreGiven, TokensAreConsented, Given
  <2>. QED BY <2>3, <2>4 DEF Inv
<1>5. CASE Tick
  BY <1>5 DEF Tick, loaded, oauth, Inv, TypeOK, PendingIsConsented, IssuedAreGiven, TokensAreConsented, Given
<1>6. CASE UNCHANGED vars
  BY <1>6 DEF vars, Inv, TypeOK, PendingIsConsented, IssuedAreGiven, TokensAreConsented, Given
<1>. QED BY <1>1, <1>2, <1>3, <1>4, <1>5, <1>6 DEF Next

LEMMA InvAlways == Spec => []Inv
  BY InitInv, StepInv, PTL DEF Spec
-----------------------------------------------------------------------------
(***************************************************************************)
(* Every access token was consented to, for that client and that subject,  *)
(* in the process that exchanged its code, within the code's life; and one *)
(* consent gives one token (oauth.ts:234-282).                             *)
(***************************************************************************)
THEOREM Consented == Spec => [](TypeOK /\ TokensAreConsented)
<1>1. Inv => TypeOK /\ TokensAreConsented
  BY DEF Inv
<1>. QED BY InvAlways, <1>1, PTL

\* Whom a minted token names, to a process with this master token.
LEMMA SubjectOfMinted ==
  ASSUME NEW key \in Masters, NEW client \in Clients, NEW subject \in Subjects
  PROVE  SubjectOf(Minted(key, client, subject)) = IF key = master THEN subject ELSE None
<1>1. CASE subject = Owner
  <2>1. Minted(key, client, subject) = [id |-> <<client>>, key |-> key]
    BY <1>1 DEF Minted
  <2>2. Len(<<client>>) = 1 /\ <<client>>[1] = client
    OBVIOUS
  <2>3. SubjectOf(Minted(key, client, subject)) =
          IF Minted(master, client, Owner) = Minted(key, client, subject) THEN Owner ELSE None
    BY <2>1, <2>2 DEF SubjectOf
  <2>4. Minted(master, client, Owner) = [id |-> <<client>>, key |-> master]
    BY DEF Minted
  <2>5. Minted(master, client, Owner) = Minted(key, client, subject) <=> key = master
    BY <2>1, <2>4
  <2>. QED BY <1>1, <2>3, <2>5
<1>2. CASE subject # Owner
  <2>1. Minted(key, client, subject) = [id |-> <<subject, client>>, key |-> key]
    BY <1>2 DEF Minted
  <2>2. Len(<<subject, client>>) = 2 /\ <<subject, client>>[1] = subject /\ <<subject, client>>[2] = client
    OBVIOUS
  <2>3. SubjectOf(Minted(key, client, subject)) =
          IF Minted(master, client, subject) = Minted(key, client, subject) THEN subject ELSE None
    BY <2>1, <2>2 DEF SubjectOf
  <2>4. Minted(master, client, subject) = [id |-> <<subject, client>>, key |-> master]
    BY <1>2 DEF Minted
  <2>5. Minted(master, client, subject) = Minted(key, client, subject) <=> key = master
    BY <2>1, <2>4
  <2>. QED BY <2>3, <2>5
<1>. QED BY <1>1, <1>2

(***************************************************************************)
(* What an access token is worth: its subject, to a process with the       *)
(* master token that signed it and an agents file that has the subject,    *)
(* and nothing to any other (oauth.ts:49-65, http.ts:96-105).              *)
(***************************************************************************)
THEOREM Exact == Spec => []AccessIsExact
<1>1. ASSUME Inv, NEW t \in issued
      PROVE  Resolve(t.token) = IF t.token.key = master /\ (t.subject = Owner \/ agents[t.subject] # None)
                                THEN t.subject ELSE None
  <2>1. /\ t.token.key \in Masters /\ t.client \in Clients /\ t.subject \in Subjects
        /\ t.token = Minted(t.token.key, t.client, t.subject)
    BY <1>1 DEF Inv, TypeOK, Issued
  <2>2. SubjectOf(t.token) = IF t.token.key = master THEN t.subject ELSE None
    BY <2>1, SubjectOfMinted
  <2>3. None \notin Subjects /\ Owner \notin Agents
    BY TokensAssumption, AgentsAssumption
  <2>. QED BY <2>1, <2>2, <2>3 DEF Resolve, Subjects
<1>2. Inv => AccessIsExact
  BY <1>1 DEF AccessIsExact
<1>. QED BY InvAlways, <1>2, PTL
-----------------------------------------------------------------------------
\* A handshake client's messages are never taken for modern ones, whatever the handshake declares.
LEMMA HandshakeIsOld ==
  ASSUME NEW b \in HandshakeClient
  PROVE  b.method \notin Opaque /\ ~IsModern(b)
<1>1. \/ b.method \in Handshake
      \/ b.method = "tools/call" /\ b.version \in {None, 202511}
  BY DEF HandshakeClient, Message, Handshake
<1>2. b.method \notin Opaque
  BY <1>1 DEF Handshake, Opaque
<1> QED
  BY <1>1, <1>2 DEF IsModern, Handshake, ModernOnly

\* A modern client's always are, whatever it asks before it knows a version.
LEMMA ModernIsNew ==
  ASSUME NEW b \in ModernClient
  PROVE  b.method \notin Opaque /\ IsModern(b)
<1>1. \/ b.method = "server/discover"
      \/ b.method \in {"tools/call", "tasks/get"} /\ b.version \in {ModernVersion, 202701}
  BY DEF ModernClient, Message
<1>2. b.method \notin Opaque /\ b.method \notin Handshake
  BY <1>1 DEF Handshake, Opaque
<1>3. b.method # "server/discover" => b.version # None /\ b.version >= 202600
  BY <1>1, NoVersionAssumption DEF ModernVersion
<1> QED
  BY <1>2, <1>3 DEF IsModern, ModernOnly

(***************************************************************************)
(* A conversation stays with the implementation of its era, a server       *)
(* pinned to the handshake refuses a modern one, and a token that is worth *)
(* nothing is told nothing (http.ts:141-211).                              *)
(***************************************************************************)
THEOREM ErasKeptApart == Spec => []EachEraItsAnswerer
<1> DEFINE served(pin, b) == Route(pin, "mcp", Owner, b)
<1>1. Owner # None
  BY TokensAssumption DEF Subjects
<1>2. ASSUME NEW pin, NEW b PROVE served(pin, b) = ByEra(pin, b)
  BY <1>1 DEF Route
<1>3. ASSUME NEW b \in HandshakeClient
      PROVE  ByEra("auto", b) = "legacy" /\ ByEra("legacy", b) = "legacy"
  BY HandshakeIsOld DEF ByEra, Opaque
<1>4. ASSUME NEW b \in ModernClient
      PROVE  ByEra("auto", b) = Modern(b) /\ ByEra("modern", b) = Modern(b)
             /\ ByEra("legacy", b) = "pinned-to-legacy"
  BY ModernIsNew DEF ByEra, Opaque
<1>5. ASSUME NEW pin, NEW place \in {"mcp", "elsewhere"}, NEW b
      PROVE  Route(pin, place, None, b) = "unauthorized"
  BY DEF Route
<1>6. EachEraItsAnswerer
  BY <1>2, <1>3, <1>4, <1>5 DEF EachEraItsAnswerer
<1> QED
  BY <1>6, PTL
=============================================================================
