----------------------------- MODULE HttpRouter -----------------------------
(***************************************************************************)
(* What answers an HTTP request, as a function of the request and of who   *)
(* its credential turns out to be: the handler of `serveHttp`, and the     *)
(* dispatch of `handleModernRequest`.  Two eras are served by two          *)
(* implementations; the official SDK's, behind `legacy.ts`, is external.   *)
(* A body is absent, not JSON, JSON that is no object, or a message.       *)
(***************************************************************************)
EXTENDS Naturals

CONSTANT None   \* no version declared; nobody

ASSUME NoVersionAssumption == None \notin Nat

ModernVersion == 202607   \* `MODERN_VERSIONS`, as a number that sorts alike
Handshake == {"initialize", "notifications/initialized"}
ModernOnly == {"server/discover", "subscriptions/listen"}
Plain == {"server/discover", "tools/list", "resources/list"}
Naming == {"resources/read", "tasks/get", "tasks/cancel", "tasks/update", "tools/call"}

\* A message: its method, the version it declares, whether it has an id, whether what it names exists.
Message(method, version, id, found) ==
  [method |-> method, version |-> version, id |-> id, found |-> found]
\* A body that is no message stands as one with a method no client sends.
Opaque == {"absent", "garbled", "not-an-object"}

\* Mutant of IsModern: any declared version is modern.
IsModernWhenDeclared(body) ==
  /\ body.method \notin Opaque
  /\ \/ body.method \in ModernOnly
     \/ body.version # None

\* `isModernRequest`.
IsModern(body) ==
  /\ body.method \notin Opaque
  /\ body.method \notin Handshake
  /\ \/ body.method \in ModernOnly
     \/ body.version # None /\ body.version >= 202600

\* `handleModernRequest`: the kind of its response.
Modern(body) ==
  IF body.method \in Opaque THEN "modern:invalid"
  ELSE IF ~body.id /\ body.method = "notifications/initialized" THEN "accepted"
  ELSE IF body.version \notin {None, ModernVersion} THEN "modern:unsupported-version"
  ELSE IF body.method \notin Plain \cup Naming THEN "modern:no-such-method"
  ELSE IF body.method \in Naming /\ ~body.found THEN "modern:invalid"
  ELSE "modern:result"

\* The choice of an era for an authenticated request at /mcp.
ByEra(pinned, body) ==
  IF body.method = "garbled" THEN "internal-error"
  ELSE IF pinned = "modern" \/ (pinned = "auto" /\ IsModern(body)) THEN Modern(body)
  ELSE IF pinned = "legacy" /\ IsModern(body) THEN "pinned-to-legacy"
  ELSE "legacy"

\* Mutant of Route: the path is looked at before the credential.
RoutePathFirst(pinned, place, identity, body) ==
  IF place \in {"preflight", "oauth"} THEN place
  ELSE IF place # "mcp" THEN "not-found"
  ELSE ByEra(pinned, body)

(***************************************************************************)
(* The handler: a preflight and the OAuth endpoints are public, everything *)
(* else is 401 without an identity, then 404 anywhere but at /mcp.         *)
(***************************************************************************)
Route(pinned, place, identity, body) ==
  IF place \in {"preflight", "oauth"} THEN place
  ELSE IF identity = None THEN "unauthorized"
  ELSE IF place # "mcp" THEN "not-found"
  ELSE ByEra(pinned, body)
=============================================================================
