---------------------------- MODULE IngressRequest ----------------------------
(***************************************************************************)
(* A request to a published endpoint: the lookup of the endpoint through   *)
(* the ingress's caches, the gates of its policy, its identity gate, the   *)
(* wake of the service behind it, and the exchange with the agent; and the *)
(* access event that is written of it.                                     *)
(*                                                                         *)
(* The endpoint changes while requests are under way, and the caches of a  *)
(* server that did not make the change are only cleared by age.  A host is *)
(* looked up as a custom domain first and as a subdomain next; each lookup *)
(* has its own place in the caches.  The gates of one request read nothing *)
(* but the endpoint it found and answers from outside, so they are one     *)
(* step, of an operator per gate.                                          *)
(***************************************************************************)
EXTENDS Naturals, Sequences

CONSTANTS
  Reqs,       \* requests at a time
  Clients,    \* what a client sends (see ClientType)
  Versions,   \* the endpoint and its successive changes (see VersionType)
  TTL,        \* lifetime of a cached endpoint
  MissTTL,    \* lifetime of a cached miss
  LoadTime,   \* bound of a store query
  MaxNow      \* bound of the clock

Lookups == <<"domain", "subdomain">>
Keys == {"domain", "subdomain"}
Gates == {"https", "deny", "allow", "rate", "basic", "mtls", "oidc"}

\* A version binds keys, has gates, and may have an identity policy.
VersionType ==
  [binds : SUBSET Keys, kind : {"http", "tcp"}, gates : SUBSET Gates,
   ident : {"no", "optional", "required"}, browser : BOOLEAN, bearer : BOOLEAN,
   cred : BOOLEAN, service : BOOLEAN]

\* A client meets some gates, and presents tokens and a path.
ClientType ==
  [meets : SUBSET Gates, token : {"none", "good", "bad", "foreign", "header"},
   session : {"none", "good", "other"}, get : BOOLEAN,
   upgrade : BOOLEAN, path : {"clean", "odd", "callback"}]

VARIABLES
  now,       \* the clock
  ver,       \* the endpoint's version in the store
  since,     \* when each version was superseded
  cache,     \* cached endpoints: key to version and expiry
  miss,      \* cached misses: key to expiry
  req,       \* the requests
  event      \* the access event of each request

ingressVars == <<now, ver, since, cache, miss, req, event>>

Forever == MaxNow + 1
NoEntry == [ver |-> 0, exp |-> 0]
Idle == [pc |-> "idle"]
NoClient == [meets |-> {}]
NoEvent == [decision |-> "none", reason |-> "none"]
Nums == 1 .. Len(Versions)

Init ==
  /\ now = 0 /\ ver = 1 /\ since = [v \in Nums |-> Forever]
  /\ cache = [k \in Keys |-> NoEntry] /\ miss = [k \in Keys |-> 0]
  /\ req = [q \in Reqs |-> Idle] /\ event = [q \in Reqs |-> NoEvent]

-----------------------------------------------------------------------------
(* The caches.                                                             *)

\* ttlCache.get.
Hit(k) == now < cache[k].exp
Missing(k) == now < miss[k]

\* A mutant: what is loaded stays until the cache is cleared.
BugPut(k, v) == cache' = [cache EXCEPT ![k] = [ver |-> v, exp |-> Forever]]

\* ttlCache.put.
Put(k, v) == cache' = [cache EXCEPT ![k] = [ver |-> v, exp |-> now + TTL]]

PutMiss(k) == miss' = [miss EXCEPT ![k] = now + MissTTL]

InvalidateCaches ==
  /\ cache' = [k \in Keys |-> NoEntry] /\ miss' = [k \in Keys |-> 0]
  /\ UNCHANGED <<now, ver, since, req, event>>

\* The endpoint is changed, on this server or another.
Change ==
  /\ ver < Len(Versions) /\ ver' = ver + 1
  /\ since' = [since EXCEPT ![ver] = now]
  /\ UNCHANGED <<now, cache, miss, req, event>>

\* A query takes at most LoadTime.  Entries whose time is over are as good as none.
Tick ==
  /\ now < MaxNow /\ now' = now + 1
  /\ \A q \in Reqs : req[q].pc = "loading" => now < req[q].at + LoadTime
  /\ cache' = [k \in Keys |-> IF now + 1 < cache[k].exp THEN cache[k] ELSE NoEntry]
  /\ miss' = [k \in Keys |-> IF now + 1 < miss[k] THEN miss[k] ELSE 0]
  /\ UNCHANGED <<ver, since, req, event>>

-----------------------------------------------------------------------------
(* resolve: one lookup after the other.                                    *)

Set(q, r) == req' = [req EXCEPT ![q] = r]
Finish(q, status) == Set(q, [req[q] EXCEPT !.pc = "done", !.status = status])

Arrive(q) ==
  /\ req[q].pc = "idle"
  /\ Set(q, [pc |-> "lookup", c |-> NoClient, n |-> 1, at |-> 0, v |-> 0, used |-> 0, status |-> 0, fwd |-> FALSE])
  /\ event' = [event EXCEPT ![q] = NoEvent]
  /\ UNCHANGED <<now, ver, since, cache, miss>>

\* A key that resolves nothing: the next key, or no such tunnel.
NextLookup(q) ==
  IF req[q].n < Len(Lookups) THEN Set(q, [req[q] EXCEPT !.pc = "lookup", !.n = @ + 1, !.v = 0, !.at = 0])
  ELSE Finish(q, 404)

\* cachedEndpoint: a cached miss, a cached endpoint, or the start of a query.
Lookup(q) ==
  LET k == Lookups[req[q].n] IN
  /\ req[q].pc = "lookup"
  /\ IF Missing(k) THEN NextLookup(q)
     ELSE IF Hit(k) THEN Set(q, [req[q] EXCEPT !.pc = "found", !.v = cache[k].ver, !.used = now])
     ELSE Set(q, [req[q] EXCEPT !.pc = "loading", !.v = ver, !.at = now])
  /\ UNCHANGED <<now, ver, since, cache, miss, event>>

\* The answer of the query, or its failure.
Loaded(q) ==
  LET k == Lookups[req[q].n] IN
  /\ req[q].pc = "loading"
  /\ \/ /\ k \in Versions[req[q].v].binds
        /\ Put(k, req[q].v) /\ UNCHANGED miss
        /\ Set(q, [req[q] EXCEPT !.pc = "found", !.used = now])
     \/ /\ k \notin Versions[req[q].v].binds
        /\ PutMiss(k) /\ UNCHANGED cache
        /\ NextLookup(q)
     \/ Finish(q, 503) /\ UNCHANGED <<cache, miss>>
  /\ UNCHANGED <<now, ver, since, event>>

-----------------------------------------------------------------------------
(* The gates: what each of them may answer, 0 when the request goes on.    *)

\* allowRate, checkBasicAuth, checkMTLS and cidrMatch of a client's requests.
Fails(e, c, gate) == gate \in e.gates /\ gate \notin c.meets

\* applyPolicyGate, in its order; a client without a session of the OIDC gate
\* is sent to the provider, when it can be reached.
ApplyPolicyGate(e, c) ==
  CASE Fails(e, c, "https") -> {308}
    [] Fails(e, c, "deny")  -> {403}
    [] Fails(e, c, "allow") -> {403}
    [] Fails(e, c, "rate")  -> {429}
    [] Fails(e, c, "basic") -> {401, 429}
    [] Fails(e, c, "mtls")  -> {403}
    [] Fails(e, c, "oidc")  -> {302, 502, 503}
    [] OTHER -> {0}

\* presentedToken: the ingress's own header, or Authorization where it is allowed.
PresentedToken(e, c) ==
  IF c.token = "header" THEN (IF e.bearer THEN "good" ELSE "none") ELSE c.token

\* endpointSessionPrincipal of the cookie a browser login left.
SessionPrincipal(e, c) == e.browser /\ c.session = "good"

CanRedirectToLogin(e, c) == e.browser /\ c.get

\* What the decision can be.
Decisions == {"allow", "policy_deny", "auth_stale", "unavailable"}

\* applyIdentityGate: who asks (none, a principal, or an answer), as a set of
\* [principal, status] pairs.
Principal(e, c) ==
  LET t == PresentedToken(e, c)
      status(n) == [who |-> FALSE, status |-> n]
  IN CASE c.path = "odd"   -> {status(400)}
       [] t = "good"       -> {[who |-> TRUE, status |-> 0], status(503)}
       [] t = "bad"        -> {status(401), status(503)}
       [] t = "foreign"    -> {status(404), status(503)}
       [] SessionPrincipal(e, c) -> {[who |-> TRUE, status |-> 0], status(503)}
       [] e.ident = "required" -> {status(IF CanRedirectToLogin(e, c) THEN 302 ELSE 401)}
       [] OTHER            -> {status(0)}

\* The answer to a decision, and the decision that is recorded.  A stale login is sent to
\* log in again unless it is recent, when that would only repeat.
Decided(e, c, who, d) ==
  LET browser == PresentedToken(e, c) = "none" /\ CanRedirectToLogin(e, c)
      answers(S) == {[status |-> n, d |-> d] : n \in S}
  IN CASE d = "unavailable" -> answers({503})
       [] d = "allow" -> answers({0}) \cup
            (IF e.cred THEN {[status |-> 502, d |-> "credential_unavailable"]} ELSE {})
       [] browser /\ ~who -> answers({302})
       [] browser /\ d = "auth_stale" -> answers({302, 403})
       [] ~who -> answers({401})
       [] OTHER -> answers({403})

ApplyIdentityGate(e, c) ==
  IF e.ident = "no" THEN {[status |-> 0, d |-> "none"]}
  ELSE UNION {IF p.status # 0 THEN {[status |-> p.status, d |-> "none"]}
              ELSE UNION {Decided(e, c, p.who, d) : d \in Decisions}
              : p \in Principal(e, c)}

\* handleEndpointCallback answers the request itself.
Callback(e) == IF e.ident = "no" \/ ~e.browser THEN {404} ELSE {302, 401, 503}

\* wakeService: running, waked, or a page that says it is being waked.
WakeService(e) ==
  IF e.service THEN {0, 503} ELSE {0}

\* proxyError: the body or the quota exceeded, no stream, the agent or the
\* service failing, a timeout.
ProxyError == {413, 429, 502, 503, 504}
ProxyHTTP == {200, 503} \cup ProxyError

\* The upgrade is made, refused by the service, or fails.
UpgradeHandshake == {101, 200, 502}

\* No hijacking, no stream, a session revoked or not readable, access changed
\* meanwhile; or the handshake.
ProxyUpgrade == {500, 503, 401, 403} \cup UpgradeHandshake

Exchange(c) == IF c.upgrade THEN ProxyUpgrade ELSE ProxyHTTP

\* statusReason.
StatusReason(status) ==
  CASE status = 401 -> "unauthenticated"
    [] status = 403 -> "forbidden"
    [] status = 404 -> "not_found"
    [] status = 429 -> "rate_limited"
    [] status = 503 -> "unavailable"
    [] status \in {302, 308} -> "redirect"
    [] OTHER -> "gate"

\* finishAccess: forwarded requests are allowed; of the others the decision, where
\* there was one, gives the reason.
FinishAccess(q, status, d, fwd) ==
  event' = [event EXCEPT ![q] =
    [decision |-> IF fwd THEN "allow" ELSE "deny",
     reason |-> IF fwd THEN "allow" ELSE IF d # "none" THEN d ELSE StatusReason(status)]]

\* serveEndpoint of what the client sent, and the event that is recorded when it returns.
Ends(q, c, status, d, fwd) ==
  /\ Set(q, [req[q] EXCEPT !.pc = "done", !.c = c, !.status = status, !.fwd = fwd])
  /\ FinishAccess(q, status, d, fwd)

ServeEndpoint(q, c) ==
  LET e == Versions[req[q].v] IN
  /\ req[q].pc = "found"
  /\ \/ e.kind # "http" /\ Ends(q, c, 404, "none", FALSE)
     \/ e.kind = "http" /\ Ends(q, c, 429, "none", FALSE)      \* bandwidthLimit
     \/ /\ e.kind = "http"
        /\ \E gate \in ApplyPolicyGate(e, c) :
             IF gate # 0 THEN Ends(q, c, gate, "none", FALSE)
             ELSE IF c.path = "callback" THEN \E s \in Callback(e) : Ends(q, c, s, "none", FALSE)
             ELSE \E g \in ApplyIdentityGate(e, c) :
                    IF g.status # 0 THEN Ends(q, c, g.status, g.d, FALSE)
                    ELSE \/ Ends(q, c, 503, g.d, FALSE)        \* no agent is connected
                         \/ \E w \in WakeService(e) :
                              IF w # 0 THEN Ends(q, c, w, g.d, FALSE)
                              ELSE \E s \in Exchange(c) : Ends(q, c, s, g.d, TRUE)
  /\ UNCHANGED <<now, ver, since, cache, miss>>

Done(q) ==
  /\ req[q].pc = "done" /\ Set(q, Idle)
  /\ event' = [event EXCEPT ![q] = NoEvent]
  /\ UNCHANGED <<now, ver, since, cache, miss>>

\* What a request does once it has its endpoint touches nothing that others read,
\* so it is done before anything else moves.
Serving == {q \in Reqs : req[q].pc \in {"found", "done"}}

Next ==
  \/ \E q \in Serving : Done(q) \/ \E c \in Clients : ServeEndpoint(q, c)
  \/ /\ Serving = {}
     /\ \/ Change \/ Tick \/ InvalidateCaches
        \/ \E q \in Reqs : Arrive(q) \/ Lookup(q) \/ Loaded(q)

Spec == Init /\ [][Next]_ingressVars
-----------------------------------------------------------------------------
TypeOK ==
  /\ \A c \in Clients : c \in ClientType
  /\ \A v \in Nums : Versions[v] \in VersionType
  /\ now \in 0 .. MaxNow /\ ver \in Nums /\ since \in [Nums -> 0 .. Forever]
  /\ cache \in [Keys -> [ver : 0 .. Len(Versions), exp : 0 .. Forever + TTL]]
  /\ miss \in [Keys -> 0 .. MaxNow + MissTTL]

\* The version was the store's within the time a query takes and an entry lives.
Recent(v, t) == since[v] = Forever \/ t < since[v] + LoadTime + TTL

\* A request is recorded as allowed exactly when it reached the agent, and it
\* reaches the agent only when it met every gate and the identity of an endpoint
\* that was the store's at most a cache's lifetime ago, whatever queries, changes
\* and clearings of the caches overlap it (cachedEndpoint, serveEndpoint).
AccessJustified ==
  \A q \in Reqs : req[q].pc = "done" =>
    LET e == Versions[req[q].v]  c == req[q].c IN
    /\ event[q].decision = "allow" <=> req[q].fwd
    /\ req[q].fwd =>
         /\ Recent(req[q].v, req[q].used)
         /\ e.gates \subseteq c.meets
         /\ e.ident = "required" => c.token \in {"good", "header"} \/ c.session = "good"
===============================================================================
