------------------------------ MODULE MCFlows ------------------------------
(***************************************************************************)
(* Traffic: the two halves of the tracker of flows, an HTTP request at the *)
(* ingress, a connection that leaves through the mesh, the flows of a UDP  *)
(* endpoint, what decisions depend on, the metering of what a stream       *)
(* moves, and the access log.                                              *)
(*                                                                         *)
(* The halves of the tracker share nothing but the flow a revoked flag     *)
(* stops, and the others nothing at all, so a behaviour is one of one      *)
(* component (part).                                                       *)
(***************************************************************************)
EXTENDS FlowTracker, TLC

CONSTANTS
  p1, p2, w1, f1, f2, f3, s1, s2, NoSession

\* The part that moves, and the variables the parts take turns to use.
VARIABLES part, x1, x2, x3, x4, x5, x6, x7, x8, x9, x10, x11, x12, x13, x14, x15, x16

FlowRequests == Flows \X {"handler", "loop"}
HomeOne == w1 :> p1
NoPods == {}
OnSecond == [f \in Flows |-> p2]

\* f1 hears of the end of s1 over the bus, f2 of the end of s2 on its own pod;
\* f3 is on a pod that may miss the event.
SessFlows == {f1, f2, f3}
SessPod == f1 :> p1 @@ f2 :> p1 @@ f3 :> p2
SessOf == f1 :> s1 @@ f2 :> s2 @@ f3 :> s2
SessHome == s1 :> p2 @@ s2 :> p1

AllGates == {"https", "deny", "allow", "rate", "basic", "mtls", "oidc"}

Plain == [binds |-> {"subdomain"}, kind |-> "http", gates |-> {}, ident |-> "no",
          browser |-> FALSE, bearer |-> FALSE, cred |-> FALSE, service |-> FALSE]

\* The endpoint is guarded by a password, then moved to a domain and closed to all but
\* known users, then made a port.
EndpointVersions == <<
  [Plain EXCEPT !.gates = {"basic", "rate"}, !.service = TRUE, !.ident = "optional"],
  [Plain EXCEPT !.binds = {"domain"}, !.gates = AllGates, !.ident = "required", !.browser = TRUE,
                !.bearer = TRUE, !.cred = TRUE],
  [Plain EXCEPT !.kind = "tcp"]>>

Visitor == [meets |-> AllGates, token |-> "none", session |-> "none", get |-> TRUE,
            upgrade |-> FALSE, path |-> "clean"]

HttpClients ==
  {Visitor, [Visitor EXCEPT !.meets = {}], [Visitor EXCEPT !.meets = AllGates \ {"oidc"}],
   [Visitor EXCEPT !.token = "header", !.upgrade = TRUE], [Visitor EXCEPT !.session = "good"],
   [Visitor EXCEPT !.token = "foreign"], [Visitor EXCEPT !.get = FALSE, !.path = "callback"]}

FineFacts == [subject |-> "ok", agent |-> "ok", exit |-> "ok", session |-> "ok", auth |-> "fresh"]

\* The expressions of policies: uses of the context, of attributes of it, and of
\* attributes with the same names of something else.
TheContext == [op |-> "Var", name |-> "context"]
Path(e) == [op |-> ".", left |-> e, attr |-> "path"]
Uses(e, value) == [op |-> "==", left |-> e, value |-> value]
Tests(attr) == [op |-> "has", left |-> TheContext, attr |-> attr]
Both(e, f) == [op |-> "&&", left |-> e, right |-> f]
Neither(e) == [op |-> "!", arg |-> e]

Conditions ==
  {[op |-> "Value"], Uses(Path(TheContext), "a"), Uses(TheContext, "b"), Neither(Tests("auth_time")),
   Uses(Path([op |-> "Var", name |-> "principal"]), "a"),
   Both(Tests("resolved_ip"), Uses([op |-> ".", left |-> TheContext, attr |-> "resolved_ip"], "i1")),
   Neither(Both(Uses(Path(TheContext), "a"), Uses([op |-> ".", left |-> TheContext, attr |-> "method"], "GET")))}

Policy(effect, actions, cond, cred) ==
  [effect |-> effect, all |-> actions = {}, actions |-> actions, cond |-> cond, cred |-> cred]

ScopedPolicies ==
  {{p, q} : p \in {Policy("permit", {}, e, "c1") : e \in Conditions},
            q \in {Policy(effect, acts, e, cred) : effect \in {"permit", "forbid"}, e \in Conditions,
                      acts \in {{"egress:request"}, {"egress:connect", "http:request"}}, cred \in {"none", "c2"}}}

Rev == INSTANCE FlowRevocation WITH
  Pods <- {p1, p2}, Flows <- SessFlows, Sessions <- {s1, s2}, flowPod <- SessPod,
  flowSess <- SessOf, home <- SessHome, Lossy <- {p2},
  live <- x1, revoking <- x2, inbox <- x3, flow <- x4, tracked <- x5, revoked <- x6, sweeping <- x7,
  loop <- x8, refs <- x9

Http == INSTANCE IngressRequest WITH
  Reqs <- {f1, f2}, Clients <- HttpClients, Versions <- EndpointVersions, TTL <- 2, MissTTL <- 1,
  LoadTime <- 1, MaxNow <- 4,
  now <- x1, ver <- x2, since <- x3, cache <- x4, miss <- x5, req <- x6, event <- x7

Meter == INSTANCE UsageMeter WITH
  Conns <- {f1, f2}, Pods <- {p1}, StreamPod <- [c \in {f1, f2} |-> p1], Limit <- 5, MinFlush <- 1,
  MaxFlush <- 2, MaxMoved <- 3, MaxFaults <- 1,
  stream <- x1, tracker <- x2, counter <- x3, moved <- x4, twice <- x5, gone <- x6, faults <- x7

Out == INSTANCE EgressFlow WITH
  Addrs <- {f1, f2, f3}, Blocked <- {f3}, ExitBlocked <- {f3}, RequireAuth <- TRUE, MaxTargets <- 2,
  MaxChanges <- 2,
  dns <- x1, policy <- x2, flow <- x3, exit <- x4, client <- x5, changes <- x6

Udp == INSTANCE Datagrams WITH
  Peers <- {f1, f2}, FlowIds <- {1, 2}, MaxFlows <- 1, QueueSize <- 1, MaxSent <- 2, MaxReplies <- 1,
  socket <- x1, flows <- x2, flow <- x3, sent <- x4, metered <- x5

Log == INSTANCE AccessLog WITH
  Keys <- {f1, f2}, Plain <- f3, QueueSize <- 2, BatchSize <- 2, Retention <- 1, FailureRate <- 1,
  FailureBurst <- 1, PerKeyWindow <- 2, MaxFailureKeys <- 1, MaxEvents <- 4, MaxNow <- 3,
  queue <- x1, batch <- x2, stored <- x3, gone <- x4, dropped <- x5, suppressed <- x6, failed <- x7,
  tokens <- x8, refillAt <- x9, lastSeen <- x10, purgedAt <- x11, mode <- x12, late <- x13,
  recorded <- x14, admitted <- x15, now <- x16

Scopes == INSTANCE PolicyScopes WITH
  PolicySets <- ScopedPolicies,
  FactSets <- {FineFacts, [FineFacts EXCEPT !.auth = "stale"], [FineFacts EXCEPT !.session = "revoked"]},
  Methods <- {"GET", "TRACE"}, Paths <- {"a", "b"}, Addresses <- {"i1", "i2"}, MaxCached <- 2,
  policies <- x1, facts <- x2, scopes <- x3, cache <- x4, last <- x5

\* A later start, which the tracker reaches: the policy has changed, and p2 is about to
\* ask again about the flow that is spliced.
Rechecking ==
  /\ policy = 1 /\ facts = 0 /\ authzGen = p1 :> 2 @@ p2 :> 1
  /\ authzCache = [p \in {p1, p2} |-> -1] /\ authzLoads = {}
  /\ pc = [x \in {p1, p2, w1} |-> "idle"] /\ inbox = [p \in {p1, p2} |-> 0]
  /\ reqSt = [r \in FlowRequests |-> "idle"] /\ reqGen = [r \in FlowRequests |-> 0]
  /\ reqPod = [r \in FlowRequests |-> IF r[2] = "loop" THEN p1 ELSE p2]
  /\ reqAz = [r \in FlowRequests |-> IF r[2] = "loop" THEN -1 ELSE 0] /\ reqFx = reqAz
  /\ flow = f1 :> "spliced" /\ tracked = {f1} /\ revoked = {} /\ flushed = {f1} /\ okNow = {}
  /\ reeval = p1 :> "idle" @@ p2 :> "check" /\ pending = {}
  /\ checks = p1 :> {} @@ p2 :> {f1} /\ tries = [r \in FlowRequests |-> 0]

all == <<part, vars, x1, x2, x3, x4, x5, x6, x7, x8, x9, x10, x11, x12, x13, x14, x15, x16>>

FlowsInit ==
  \/ /\ part = "policy" /\ (Init \/ Rechecking)
     /\ x1 = 0 /\ x2 = 0 /\ x3 = 0 /\ x4 = 0 /\ x5 = 0 /\ x6 = 0 /\ x7 = 0 /\ x8 = 0
     /\ x9 = 0 /\ x10 = 0 /\ x11 = 0 /\ x12 = 0 /\ x13 = 0 /\ x14 = 0 /\ x15 = 0 /\ x16 = 0
  \/ /\ part = "sessions" /\ Rev!Init /\ Init
     /\ x10 = 0 /\ x11 = 0 /\ x12 = 0 /\ x13 = 0 /\ x14 = 0 /\ x15 = 0 /\ x16 = 0
  \/ /\ part = "request" /\ Http!Init /\ Init
     /\ x8 = 0 /\ x9 = 0 /\ x10 = 0 /\ x11 = 0 /\ x12 = 0 /\ x13 = 0 /\ x14 = 0 /\ x15 = 0
     /\ x16 = 0
  \/ /\ part = "usage" /\ Meter!Init /\ Init
     /\ x8 = 0 /\ x9 = 0 /\ x10 = 0 /\ x11 = 0 /\ x12 = 0 /\ x13 = 0 /\ x14 = 0 /\ x15 = 0
     /\ x16 = 0
  \/ /\ part = "egress" /\ Out!Init /\ Init
     /\ x7 = 0 /\ x8 = 0 /\ x9 = 0 /\ x10 = 0 /\ x11 = 0 /\ x12 = 0 /\ x13 = 0 /\ x14 = 0
     /\ x15 = 0 /\ x16 = 0
  \/ /\ part = "datagrams" /\ Udp!Init /\ Init
     /\ x6 = 0 /\ x7 = 0 /\ x8 = 0 /\ x9 = 0 /\ x10 = 0 /\ x11 = 0 /\ x12 = 0 /\ x13 = 0
     /\ x14 = 0 /\ x15 = 0 /\ x16 = 0
  \/ /\ part = "log" /\ Log!Init /\ Init
  \/ /\ part = "scopes" /\ Scopes!Init /\ Init
     /\ x6 = 0 /\ x7 = 0 /\ x8 = 0 /\ x9 = 0 /\ x10 = 0 /\ x11 = 0 /\ x12 = 0 /\ x13 = 0
     /\ x14 = 0 /\ x15 = 0 /\ x16 = 0

FlowsNext ==
  \/ part = "policy" /\ Next /\ UNCHANGED <<part, x1, x2, x3, x4, x5, x6, x7, x8, x9, x10, x11, x12, x13, x14, x15, x16>>
  \/ part = "sessions" /\ Rev!Next /\ UNCHANGED <<part, vars, x10, x11, x12, x13, x14, x15, x16>>
  \/ part = "request" /\ Http!Next /\ UNCHANGED <<part, vars, x8, x9, x10, x11, x12, x13, x14, x15, x16>>
  \/ part = "usage" /\ Meter!Next /\ UNCHANGED <<part, vars, x8, x9, x10, x11, x12, x13, x14, x15, x16>>
  \/ part = "egress" /\ Out!Next /\ UNCHANGED <<part, vars, x7, x8, x9, x10, x11, x12, x13, x14, x15, x16>>
  \/ part = "datagrams" /\ Udp!Next /\ UNCHANGED <<part, vars, x6, x7, x8, x9, x10, x11, x12, x13, x14, x15, x16>>
  \/ part = "log" /\ Log!Next /\ UNCHANGED <<part, vars>>
  \/ part = "scopes" /\ Scopes!Next /\ UNCHANGED <<part, vars, x6, x7, x8, x9, x10, x11, x12, x13, x14, x15, x16>>

FlowsSpec == FlowsInit /\ [][FlowsNext]_all

\* Revoke sees a flow or the flow sees its session gone.
RevokedFlowNoticed == part = "sessions" => Rev!RevokedFlowNoticed

\* A request that reaches an agent was let in by an endpoint as it was stored, or had
\* been until shortly before: it met the gates and the decision of one version, and is
\* recorded so (serveEndpoint, the cache of endpoints). A connection that leaves is open
\* to an address that was resolved, guarded and decided on (HandleEgress,
\* dialApprovedExit), and a decision from the cache is the one that the policies give to
\* that very request (computeScopes).
AccessJustified ==
  /\ (part = "request" => Http!AccessJustified)
  /\ (part = "egress" => Out!EgressDecided)
  /\ (part = "scopes" => Scopes!ScopesSound)

\* Every byte of a stream is counted once: in the stream, in the tracker of its server or
\* in Redis, but for what a lost answer repeats and a crash takes (meteredConn,
\* usageTracker). The datagrams of a flow arrive in their order, and are counted when it
\* ends (DatagramListener). An access event that was recorded is stored, on its way or in
\* a counter (Record, Run and write of the access log).
UsageConserved ==
  /\ (part = "usage" => Meter!UsageConserved)
  /\ (part = "datagrams" => Udp!DatagramsCounted)
  /\ (part = "log" => Log!LogAccounted)
=============================================================================
