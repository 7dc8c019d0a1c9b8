------------------------------ MODULE EgressFlow ------------------------------
(***************************************************************************)
(* One connection that leaves through the mesh: a client of an agent's     *)
(* proxy asks for a name, the server decides and dials, itself or through  *)
(* an exit agent, while the name's addresses and the policy change.  Also  *)
(* the agent that dials a reach-in target by its allow list.               *)
(*                                                                         *)
(* A decision depends on the policy alone; how sessions and the policy     *)
(* reach the deciders is in DecisionCache, what a flush does to flows in   *)
(* FlowTracker.                                                            *)
(***************************************************************************)
EXTENDS Naturals, Sequences, SequencesExt

CONSTANTS
  Addrs,         \* addresses the name may have
  Blocked,       \* addresses the server's guard refuses
  ExitBlocked,   \* addresses the exit's guard refuses
  RequireAuth,   \* the agent's proxy asks for credentials
  MaxTargets,    \* maxResolvedAddrs, MaxExitTargets
  MaxChanges     \* bound: changes of the name and of the policy

None == "none"

VARIABLES
  dns,       \* the addresses of the name
  policy,    \* what the policy says of the name
  flow,      \* the handler at the server
  exit,      \* the handler at the exit agent
  client,    \* the proxy connection at the agent
  changes

egressVars == <<dns, policy, flow, exit, client, changes>>

Policies == [rule : {"allow", "deny", "byIP"}, ips : SUBSET Addrs]

NoFlow == [pc |-> "idle", via |-> None, targets |-> <<>>, left |-> <<>>, decided |-> {}, peer |-> None,
           tracked |-> FALSE, ended |-> FALSE, event |-> None, ok |-> FALSE]
NoExit == [pc |-> "idle", offered |-> <<>>, approved |-> <<>>, peer |-> None, reply |-> None]
NoClient == [kind |-> None, auth |-> None, answer |-> 0, gone |-> FALSE]

TypeOK ==
  /\ dns \subseteq Addrs /\ policy \in Policies /\ changes \in 0 .. MaxChanges
  /\ flow.peer \in Addrs \cup {None} /\ exit.peer \in Addrs \cup {None}
  /\ flow.event \in {None, "allow", "deny"}

Init ==
  /\ dns = Addrs \ (Blocked \cup ExitBlocked) /\ policy = [rule |-> "byIP", ips |-> dns]
  /\ flow = NoFlow /\ exit = NoExit /\ client = NoClient /\ changes = 0

Change ==
  /\ changes < MaxChanges /\ changes' = changes + 1
  /\ \/ dns' \in SUBSET Addrs \ {dns} /\ UNCHANGED policy
     \/ UNCHANGED dns /\ policy' \in {p \in Policies : (p.rule = "byIP" \/ p.ips = {}) /\ p # policy}
  /\ UNCHANGED <<flow, exit, client>>

-----------------------------------------------------------------------------
(* The agent's proxy.                                                      *)

\* proxyCredentials and socksHandshake: the credentials can be read, and there
\* are some where they are required.  A listener for one upstream has its own.
ProxyCredentials(kind, auth) == auth # "bad" /\ (RequireAuth /\ kind # "origin" => auth # "none")

\* isConnectUDP, and UDP associations of SOCKS.
IsConnectUDP(form) == form = "udp"

\* readSocksRequest, http.ReadRequest and the checks of the target.
Malformed(form) == form = "malformed"

\* classify of the destination: as it is, decrypted, or not known.
Verdicts == {"passthrough", "decrypt", "refuse"}

\* releaseCredential: there is a secret, for this agent and this host.
ReleaseCredential(q) == q.cred = "releasable"

\* DecideRequest: what the server answers for one request; egress:request is an
\* action of the policy of its own.
DecideRequest(q) ==
  CASE ~q.permitted -> "refused"
    [] q.cred = "none" -> "allowed"
    [] ~q.tls \/ q.trace \/ ~ReleaseCredential(q) -> "refused"
    [] OTHER -> "inject"

\* originator.serve: the path and the method, the decision, and no credential
\* into TRACE.
ServeRequest(q) ==
  CASE ~q.path -> 400
    [] DecideRequest(q) = "refused" -> 403
    [] DecideRequest(q) = "inject" /\ q.trace -> 403
    [] OTHER -> 200

Sent == [permitted : BOOLEAN, cred : {"none", "other", "releasable"}, tls : BOOLEAN, trace : BOOLEAN, path : BOOLEAN]

\* The answer of the proxy before the connection is tried, 200 when it is.
Admit(kind, auth, form, verdict, q) ==
  CASE Malformed(form) -> 400
    [] ~ProxyCredentials(kind, auth) -> 407
    [] IsConnectUDP(form) -> 403
    [] kind = "socks" /\ verdict # "passthrough" -> 403
    [] kind = "connect" /\ verdict = "refuse" -> 503
    [] kind = "connect" /\ verdict = "passthrough" -> 200
    [] kind = "socks" -> 200
    [] OTHER -> ServeRequest(q)

\* serveEgressClient, serveSocksClient and the handlers of requests, up to
\* openEgress; without a session there is none.
Accept(kind, auth, form) ==
  /\ client.kind = None
  /\ \E verdict \in Verdicts, q \in Sent, connected \in BOOLEAN :
       LET code == Admit(kind, auth, form, verdict, q) IN
       IF code = 200 /\ connected THEN
         /\ client' = [client EXCEPT !.kind = kind, !.auth = auth]
         /\ flow' = [flow EXCEPT !.pc = "begin"]
       ELSE
         /\ client' = [client EXCEPT !.kind = kind, !.answer = IF code = 200 THEN 503 ELSE code]
         /\ UNCHANGED flow
  /\ UNCHANGED <<dns, policy, exit, changes>>

\* The end of openEgress without a reply: the time is over or the client has left,
\* and the stream is closed.
GiveUp ==
  /\ flow.pc # "idle" /\ client.answer = 0
  /\ \E code \in {502, 503} : client' = [client EXCEPT !.answer = code, !.gone = TRUE]
  /\ UNCHANGED <<dns, policy, flow, exit, changes>>

\* egressStatusCodes.
StatusCode(status) ==
  CASE status = "ok" -> 200 [] status = "denied" -> 403 [] status = "unavailable" -> 503
    [] status = "invalid" -> 400 [] status = "auth_required" -> 407 [] OTHER -> 502

\* The client closes what it was given.
Hangup ==
  /\ client.answer = 200 /\ ~client.gone
  /\ client' = [client EXCEPT !.gone = TRUE]
  /\ UNCHANGED <<dns, policy, flow, exit, changes>>

-----------------------------------------------------------------------------
(* The server.                                                             *)

\* The reply reaches the agent unless it has given up.
Reply(status) ==
  IF client.gone THEN UNCHANGED client
  ELSE client' = [client EXCEPT !.answer = StatusCode(status)]

\* refuse, and the deferred closes.
Refuse(status) ==
  /\ flow' = [flow EXCEPT !.pc = "done", !.event = "deny", !.peer = None, !.tracked = FALSE]
  /\ Reply(status)

Go(f) == flow' = f /\ UNCHANGED client

\* decide of one target: a decision for the name alone may say that it needs the
\* address.
Decide(target) ==
  CASE policy.rule = "allow" -> "ok"
    [] policy.rule = "deny"  -> "denied"
    [] target \in Addrs      -> IF target \in policy.ips THEN "ok" ELSE "denied"
    [] OTHER                 -> "needs_ip"

\* principal: what the token in the stream's metadata may lead to.
Principal(auth) == IF auth = "none" THEN {"ok"} ELSE {"ok", "unavailable", "auth_required"}

\* resolveExit: an agent of the organization, and another one than this.
ResolveExit(via) ==
  CASE via = None   -> {"ok"}
    [] via = "self" -> {"invalid", "unavailable"}
    [] via = "gone" -> {"denied", "unavailable"}
    [] OTHER        -> {"ok", "unavailable"}

\* HandleEgress up to the first decision: the kind of the stream and the
\* destination, then who asks and through whom.
HandleEgress ==
  /\ flow.pc = "begin"
  /\ \E via \in {None, "self", "gone", "x"} :
       LET results == Principal(client.auth) \cup ResolveExit(via) IN
       \/ \E status \in {"invalid"} \cup (results \ {"ok"}) : Refuse(status)
       \/ "ok" \in Principal(client.auth) \cap ResolveExit(via) /\ Go([flow EXCEPT !.pc = "name", !.via = via])
  /\ UNCHANGED <<dns, policy, exit, changes>>

DecideName ==
  /\ flow.pc = "name"
  /\ \/ Refuse("unavailable")
     \/ Decide("name") = "denied" /\ Refuse("denied")
     \/ Decide("name") \in {"ok", "needs_ip"} /\ Go([flow EXCEPT !.pc = "resolve"])
  /\ UNCHANGED <<dns, policy, exit, changes>>

\* Guard.ResolveAll: every address must pass, however many are kept.
ResolveAll(blocked) ==
  IF dns = {} \/ dns \cap blocked # {} THEN {}
  ELSE {SubSeq(s, 1, IF Len(s) < MaxTargets THEN Len(s) ELSE MaxTargets) : s \in SetToSeqs(dns)}

\* resolve: the addresses of the name, blocked, or an error.
Resolve ==
  /\ flow.pc = "resolve" /\ flow.via = None
  /\ \/ \E s \in ResolveAll(Blocked) : Go([flow EXCEPT !.pc = "decide", !.targets = s, !.left = s, !.tracked = TRUE])
     \/ Refuse(IF dns \cap Blocked # {} THEN "denied" ELSE "dial_failed")
  /\ UNCHANGED <<dns, policy, exit, changes>>

\* openExit: a stream to the exit agent, which is connected or not.
OpenExit ==
  /\ flow.pc = "resolve" /\ flow.via # None
  /\ \/ Refuse("unavailable") /\ UNCHANGED exit
     \/ Go([flow EXCEPT !.pc = "offered"]) /\ exit' = [exit EXCEPT !.pc = "resolve"]
  /\ UNCHANGED <<dns, policy, changes>>

\* validExitTargets of what ReadExitTargets can read: one or more addresses.
ExitTargets(s) == Len(s) <= MaxTargets
ValidExitTargets(s) == s # <<>> /\ ExitTargets(s) /\ ToSet(s) \subseteq Addrs

\* The second half of openExit.  An exit of an older version has dialled already
\* and is refused.
ReadExitResolution ==
  /\ flow.pc = "offered"
  /\ \/ exit.pc = "wait" /\ ValidExitTargets(exit.offered)
        /\ Go([flow EXCEPT !.pc = "decide", !.targets = exit.offered, !.left = exit.offered, !.tracked = TRUE])
     \/ exit.pc = "done" /\ Refuse(IF exit.reply = None THEN "dial_failed" ELSE exit.reply)
     \/ \E status \in {"dial_failed", "unavailable"} : Refuse(status)
  /\ UNCHANGED <<dns, policy, exit, changes>>

\* A mutant: the first address stands for all of them.
BugDecideAll ==
  /\ flow.pc = "decide"
  /\ \/ Refuse("unavailable")
     \/ Decide(flow.targets[1]) # "ok" /\ Refuse("denied")
     \/ /\ Decide(flow.targets[1]) = "ok"
        /\ Go([flow EXCEPT !.pc = "dial", !.left = flow.targets, !.decided = {flow.targets[1]}])
  /\ UNCHANGED <<dns, policy, exit, changes>>

\* decideAll: one target after the other.
DecideAll ==
  /\ flow.pc = "decide"
  /\ \/ Refuse("unavailable")
     \/ flow.left = <<>> /\ Go([flow EXCEPT !.pc = "dial", !.left = flow.targets])
     \/ flow.left # <<>> /\ Decide(Head(flow.left)) # "ok" /\ Refuse("denied")
     \/ /\ flow.left # <<>> /\ Decide(Head(flow.left)) = "ok"
        /\ Go([flow EXCEPT !.left = Tail(@), !.decided = @ \cup {Head(flow.left)}])
  /\ UNCHANGED <<dns, policy, exit, changes>>

\* Guard.Dial and dialFirst of an address: it is checked again.
Reachable(blocked, target) == target \notin blocked

\* A mutant: the name is dialled, and so resolved once more.
BugDial ==
  /\ flow.pc = "dial" /\ flow.via = None
  /\ \/ \E a \in dns \ Blocked : Go([flow EXCEPT !.pc = "attach", !.peer = a])
     \/ Refuse("dial_failed")
  /\ UNCHANGED <<dns, policy, exit, changes>>

\* dial: the targets in their order, within the budget.
Dial ==
  /\ flow.pc = "dial" /\ flow.via = None
  /\ \/ /\ flow.left # <<>> /\ Reachable(Blocked, Head(flow.left))
        /\ Go([flow EXCEPT !.pc = "attach", !.peer = Head(flow.left)])
     \/ Len(flow.left) > 1 /\ Go([flow EXCEPT !.left = Tail(@)])
     \/ \E status \in {"denied", "dial_failed"} : Refuse(status)
  /\ UNCHANGED <<dns, policy, exit, changes>>

\* confirmExit: the targets that were decided go to the exit, which answers.
ConfirmExit ==
  /\ flow.pc = "dial" /\ flow.via # None
  /\ \/ /\ exit.pc = "wait"
        /\ exit' = [exit EXCEPT !.pc = "dial", !.approved = flow.targets]
        /\ Go([flow EXCEPT !.pc = "confirm"])
     \/ Refuse("unavailable") /\ UNCHANGED exit
  /\ UNCHANGED <<dns, policy, changes>>

Confirmed ==
  /\ flow.pc = "confirm"
  /\ \/ exit.reply = "ok" /\ Go([flow EXCEPT !.pc = "attach"])
     \/ exit.pc = "done" /\ exit.reply # None /\ Refuse(exit.reply)
     \/ Refuse("dial_failed")
  /\ UNCHANGED <<dns, policy, exit, changes>>

\* The tracker ends a flow that is no longer allowed, or whose session is gone,
\* and closes its stream.
Reevaluate ==
  /\ flow.tracked /\ ~flow.ended
  /\ client.auth = "user" \/ \E i \in 1 .. Len(flow.targets) : Decide(flow.targets[i]) # "ok"
  /\ flow' = [flow EXCEPT !.ended = TRUE]
  /\ client' = [client EXCEPT !.gone = TRUE, !.answer = IF @ = 0 THEN 502 ELSE @]
  /\ UNCHANGED <<dns, policy, exit, changes>>

\* Attach of the upstream, unless the flow has ended, and the reply; without an
\* agent to read it nothing is recorded.
Attach ==
  /\ flow.pc = "attach"
  /\ IF flow.ended THEN Refuse("denied")
     ELSE IF client.gone THEN Go([flow EXCEPT !.pc = "done", !.peer = None, !.tracked = FALSE])
     ELSE flow' = [flow EXCEPT !.pc = "splice", !.ok = TRUE] /\ Reply("ok")
  /\ UNCHANGED <<dns, policy, exit, changes>>

\* sniConn: what the client sends first, and whether it may go on.  A server name
\* other than the destination's ends the connection, and so does a broken hello.
Hellos == {"plain", "same", "other", "broken"}
Mismatch(hello) == hello = "other"
Inspect(hello) == hello \in {"plain", "same"}

\* The end of Splice, and the event.
Splice ==
  /\ flow.pc = "splice"
  /\ \E hello \in Hellos :
       /\ flow.ended \/ client.gone \/ ~Inspect(hello)
       /\ flow' = [flow EXCEPT !.pc = "done", !.peer = None, !.tracked = FALSE,
                               !.event = IF Mismatch(hello) THEN "deny" ELSE "allow"]
  /\ client' = [client EXCEPT !.gone = TRUE]
  /\ UNCHANGED <<dns, policy, exit, changes>>

-----------------------------------------------------------------------------
(* The exit agent.                                                         *)

ExitEnds(reply) == exit' = [exit EXCEPT !.pc = "done", !.reply = reply, !.peer = None]

\* serveExit and dialApprovedExit up to the offer; the exit may not serve at all.
ExitResolve ==
  /\ exit.pc = "resolve"
  /\ \/ ExitEnds("denied")
     \/ ExitEnds(IF dns \cap ExitBlocked # {} THEN "denied" ELSE "dial_failed")
     \/ \E s \in ResolveAll(ExitBlocked) : exit' = [exit EXCEPT !.pc = "wait", !.offered = s]
  /\ UNCHANGED <<dns, policy, flow, client, changes>>

\* The targets that come back: some, and each one that was offered.
Approved == exit.approved # <<>> /\ ExitTargets(exit.approved) /\ ToSet(exit.approved) \subseteq ToSet(exit.offered)

ExitDial ==
  /\ exit.pc = "dial"
  /\ \/ ExitEnds("dial_failed")
          \/ \E t \in ToSet(exit.approved) :
          /\ Approved /\ Reachable(ExitBlocked, t)
          /\ exit' = [exit EXCEPT !.pc = "open", !.peer = t, !.reply = "ok"]
  /\ UNCHANGED <<dns, policy, flow, client, changes>>

\* The server's stream is closed, or the wait for the answer is over.
ExitCloses ==
  /\ \/ exit.pc = "open" /\ flow.pc = "done"
     \/ exit.pc = "wait" /\ flow.pc # "confirm"
  /\ ExitEnds(IF exit.pc = "open" THEN exit.reply ELSE None)
  /\ UNCHANGED <<dns, policy, flow, client, changes>>

-----------------------------------------------------------------------------
(* A reach-in stream at an agent: Allowlist.Resolve, then dialTarget.      *)

\* A rule for the name admits every address that is not denied outright, a rule
\* for a network the addresses in it.
AllowsIP(rule, a) == rule.rule = "allow" \/ (rule.rule = "byIP" /\ a \in rule.ips)

ReachIn ==
  /\ client.kind = None /\ client' = [client EXCEPT !.kind = "reachin"]
  /\ \/ /\ dns # {} /\ dns \cap ExitBlocked = {}
        /\ \E a \in dns : AllowsIP(policy, a) /\ exit' = [exit EXCEPT !.pc = "pinned", !.offered = <<a>>]
     \/ UNCHANGED exit
  /\ UNCHANGED <<dns, policy, flow, changes>>

DialTarget ==
  /\ exit.pc = "pinned"
  /\ \/ exit' = [exit EXCEPT !.pc = "local", !.peer = Head(exit.offered)]
     \/ ExitEnds("dial_failed")
  /\ UNCHANGED <<dns, policy, flow, client, changes>>

\* The connection is over and the next one begins.
Done ==
  /\ (client.kind = "reachin" /\ exit.pc \in {"idle", "done", "local"}) \/ (client.answer # 0 /\ flow.pc \in {"idle", "done"} /\ exit.pc \in {"idle", "done"})
  /\ flow' = NoFlow /\ exit' = NoExit /\ client' = NoClient
  /\ UNCHANGED <<dns, policy, changes>>

Next ==
  \/ Change \/ GiveUp \/ Hangup \/ Done
  \/ \E kind \in {"connect", "socks", "http", "origin"}, auth \in {"none", "bad", "user"},
        form \in {"ok", "udp", "malformed"} : Accept(kind, auth, form)
  \/ HandleEgress \/ DecideName \/ Resolve \/ OpenExit \/ ReadExitResolution \/ DecideAll \/ Dial
  \/ ConfirmExit \/ Confirmed \/ Reevaluate \/ Attach \/ Splice
  \/ ExitResolve \/ ExitDial \/ ExitCloses \/ ReachIn \/ DialTarget

Spec == Init /\ [][Next]_egressVars
-----------------------------------------------------------------------------
\* A connection is only ever open to an address that was resolved, passed the
\* guard of whoever dialled it and was decided on by itself, whatever the name
\* resolves to meanwhile (HandleEgress, dialApprovedExit); the client is told that
\* it is connected only when it was spliced, and a connection that was recorded
\* as allowed was.
EgressDecided ==
  /\ flow.peer # None => flow.peer \in flow.decided \ Blocked /\ flow.peer \in ToSet(flow.targets)
  /\ exit.peer # None =>
       /\ exit.peer \in ToSet(exit.offered) \ ExitBlocked
       /\ exit.pc = "open" => exit.peer \in flow.decided
  /\ client.answer = 200 => flow.ok
  /\ flow.event = "allow" => flow.ok
  /\ flow.pc = "done" => flow.peer = None
  /\ RequireAuth /\ flow.pc # "idle" /\ client.kind # "origin" => client.auth = "user"
===============================================================================
