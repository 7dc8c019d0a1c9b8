---------------------------- MODULE DecisionCache ----------------------------
(***************************************************************************)
(* The decisions an agent caches: remoteDecider of agent/decisions.go, the *)
(* request table of agent/rpc_table.go, and the gateway's side of the      *)
(* control stream (answerDecision, FlushOrg and track of gateway.go).      *)
(*                                                                         *)
(* One agent lives through a succession of tunnel sessions, numbered by    *)
(* the generation attach() returns, each on some pod.  A check looks in    *)
(* the cache, else asks the gateway of the current session and remembers   *)
(* the answer if neither the generation nor the epoch has moved.  A flush  *)
(* message moves the epoch and empties the cache.                          *)
(*                                                                         *)
(* The control stream is ordered; the model delivers what is on it in any  *)
(* order, so that what is shown does not rest on the order.  A check is    *)
(* for the agent's one connect reference or for a path of one destination: *)
(* the HTTP method is treated by the code exactly as the path is.          *)
(***************************************************************************)
EXTENDS PolicyCache

CONSTANTS
  Paths,       \* request paths of the one destination
  Connect,     \* the key of the connect check
  AnyPath,     \* the key of a decision that holds for every path
  PathScoped,  \* the policy versions whose rules look at the path
  MaxGen,      \* bound on the tunnel sessions
  Slots        \* maxPendingDecisions: decisions a session has in progress

ASSUME DecisionConstants ==
  /\ AnyPath \notin Paths /\ Connect \notin Paths /\ AnyPath # Connect
  /\ PathScoped \subseteq 0..MaxPolicy
  /\ MaxGen \in Nat
  /\ Slots \in Nat \ {0}

VARIABLES
  conn,       \* conn[g]: the gateway's end of session g
  sessPod,    \* sessPod[g]: the pod that serves it
  flushTo,    \* flushTo[x]: sessions FlushOrg has still to write a flush to
  flushMsgs,  \* flushMsgs[g]: flush messages on the control stream
  acks,       \* sessions with a registration ack on the control stream
  gen,        \* remoteDecider.gen
  attached,   \* remoteDecider.ctrl is set
  bound,      \* remoteDecider.binding is set
  sameEpoch,  \* the checks that noted the epoch remoteDecider still has
  scope,      \* remoteDecider.scopes for the destination
  cAz,        \* version of the policy behind a cached decision, or None
  cFx,        \* version of the facts behind it
  askSt,      \* stage of a check
  askFor,     \* what it checks
  askGen,     \* generation it asked in
  msgSt,      \* where its question or answer is
  cacheable   \* the checks whose answer carries a time to live

gateVars == <<conn, sessPod, flushTo, flushMsgs, acks>>
cacheVars == <<scope, cAz, cFx>>
decVars == <<gen, attached, bound, sameEpoch, cacheVars>>
askVars == <<askSt, askFor, askGen, msgSt, cacheable>>
vars == <<policyVars, reqVars, gateVars, decVars, askVars>>

Asks == Requests
Keys == Paths \cup {Connect, AnyPath}
Targets == Paths \cup {Connect}
Gens == 1..MaxGen

\* The keys of remoteDecider.cache.
Cached == {k \in Keys : cAz[k] # None}

TypeOK ==
  /\ PolicyTypeOK
  /\ conn \in [Gens -> {"none", "accepted", "tracked", "open", "gone"}]
  /\ sessPod \in [Gens -> Pods]
  /\ flushTo \in [Workers -> SUBSET Gens]
  /\ flushMsgs \in [Gens -> Nat]
  /\ acks \subseteq Gens
  /\ gen \in 0..MaxGen
  /\ attached \in BOOLEAN
  /\ bound \in BOOLEAN
  /\ sameEpoch \subseteq Asks
  /\ scope \in {"unknown", "path", "any"}
  /\ cAz \in [Keys -> (0..MaxPolicy) \cup {None}]
  /\ cFx \in [Keys -> (0..MaxFacts) \cup {None}]
  /\ askSt \in [Asks -> {"new", "miss", "wait", "got", "scoped", "done"}]
  /\ askFor \in [Asks -> Targets]
  /\ askGen \in [Asks -> 0..MaxGen]
  /\ msgSt \in [Asks -> {"none", "up", "deciding", "down", "over"}]
  /\ cacheable \subseteq Asks

Init ==
  /\ PolicyInit
  /\ conn = [g \in Gens |-> "none"]
  /\ sessPod = [g \in Gens |-> CHOOSE p \in Pods : TRUE]
  /\ flushTo = [x \in Workers |-> {}]
  /\ flushMsgs = [g \in Gens |-> 0]
  /\ acks = {}
  /\ gen = 0
  /\ attached = FALSE
  /\ bound = FALSE
  /\ sameEpoch = {}
  /\ scope = "unknown"
  /\ cAz = [k \in Keys |-> None]
  /\ cFx = [k \in Keys |-> None]
  /\ askSt = [a \in Asks |-> "new"]
  /\ askFor = [a \in Asks |-> Connect]
  /\ askGen = [a \in Asks |-> 0]
  /\ msgSt = [a \in Asks |-> "none"]
  /\ cacheable = {}

-----------------------------------------------------------------------------
(* The agent's session: attach, bind, detach, flush.                       *)

\* clear(d.cache) and clear(d.scopes).
ClearDecisions ==
  /\ scope' = "unknown"
  /\ cAz' = [k \in Keys |-> None]
  /\ cFx' = [k \in Keys |-> None]

\* resetLocked: whoever waits for an answer gets errDecisionLost.
ResetLocked ==
  /\ sameEpoch' = {}
  /\ ClearDecisions
  /\ askSt' = [a \in Asks |-> IF askSt[a] = "wait" THEN "done" ELSE askSt[a]]

\* connectOnce has dialled pod p and opened the control stream: attach.
Attach(p) ==
  /\ ~attached
  /\ gen < MaxGen
  /\ gen' = gen + 1
  /\ attached' = TRUE
  /\ bound' = FALSE
  /\ ResetLocked
  /\ conn' = [conn EXCEPT ![gen + 1] = "accepted"]
  /\ sessPod' = [sessPod EXCEPT ![gen + 1] = p]
  /\ UNCHANGED <<policyVars, reqVars, flushTo, flushMsgs, acks,
                 askFor, askGen, msgSt, cacheable>>

\* connectOnce returns: detach.
Detach ==
  /\ attached
  /\ attached' = FALSE
  /\ bound' = FALSE
  /\ ResetLocked
  /\ UNCHANGED <<policyVars, reqVars, gateVars, gen,
                 askFor, askGen, msgSt, cacheable>>

\* readControl of session g reads the registration ack: bind.
Bind(g) ==
  /\ g \in acks
  /\ acks' = acks \ {g}
  /\ bound' = (bound \/ gen = g)
  /\ UNCHANGED <<policyVars, reqVars, conn, sessPod, flushTo, flushMsgs, gen,
                 attached, sameEpoch, cacheVars, askVars>>

\* readControl of session g reads a flush: flush does not look at g.
Flush(g) ==
  /\ flushMsgs[g] > 0
  /\ flushMsgs' = [flushMsgs EXCEPT ![g] = @ - 1]
  /\ sameEpoch' = {}
  /\ ClearDecisions
  /\ UNCHANGED <<policyVars, reqVars, conn, sessPod, flushTo, acks, gen,
                 attached, bound, askVars>>

-----------------------------------------------------------------------------
(* A check in the agent: check, checkRequest, ask.                         *)

\* requestKeyLocked: an unknown scope is looked up by path.
LookupKey(t) == IF t # Connect /\ scope = "any" THEN AnyPath ELSE t

\* buildRequestKey with the scope of the answer; an answer that did not come
\* from the policy has no scope and counts as scoped to its path.
AnswerScope(a) ==
  IF a \in cacheable /\ reqAz[a] \notin PathScoped THEN "any" ELSE "path"

AnswerKey(a) ==
  IF askFor[a] # Connect /\ AnswerScope(a) = "any" THEN AnyPath ELSE askFor[a]

\* The lookup under the lock: a hit ends the check.
Check(a, t) ==
  /\ askSt[a] = "new"
  /\ askFor' = [askFor EXCEPT ![a] = t]
  /\ askSt' = [askSt EXCEPT ![a] = IF LookupKey(t) \in Cached THEN "done" ELSE "miss"]
  /\ UNCHANGED <<policyVars, reqVars, gateVars, decVars,
                 askGen, msgSt, cacheable>>

\* ask: the generation and the epoch are noted when the question is sent.
Ask(a) ==
  /\ askSt[a] = "miss"
  /\ IF attached /\ (askFor[a] = Connect \/ bound)
     THEN /\ askSt' = [askSt EXCEPT ![a] = "wait"]
          /\ askGen' = [askGen EXCEPT ![a] = gen]
          /\ sameEpoch' = sameEpoch \cup {a}
          /\ msgSt' = [msgSt EXCEPT ![a] = "up"]
     ELSE /\ askSt' = [askSt EXCEPT ![a] = "done"]
          /\ UNCHANGED <<sameEpoch, askGen, msgSt>>
  /\ UNCHANGED <<policyVars, reqVars, gateVars, gen, attached, bound,
                 cacheVars, askFor, cacheable>>

\* rpcAwait gives up after decisionTimeout, or the send failed: rpcForget.
AskFails(a) ==
  /\ askSt[a] = "wait"
  /\ askSt' = [askSt EXCEPT ![a] = "done"]
  /\ UNCHANGED <<policyVars, reqVars, gateVars, decVars,
                 askFor, askGen, msgSt, cacheable>>

\* readControl reads the answer: deliver, for the current generation only and
\* only if somebody still waits.
Deliver(a) ==
  /\ msgSt[a] = "down"
  /\ msgSt' = [msgSt EXCEPT ![a] = "over"]
  /\ askSt' = [askSt EXCEPT ![a] =
                 IF askSt[a] = "wait" /\ askGen[a] = gen THEN "got" ELSE askSt[a]]
  /\ UNCHANGED <<policyVars, reqVars, gateVars, decVars,
                 askFor, askGen, cacheable>>

Unmoved(a) == askGen[a] = gen /\ a \in sameEpoch

\* rememberRequest, its first critical section: the scope of the destination.
RememberScope(a) ==
  /\ askSt[a] = "got"
  /\ askFor[a] # Connect
  /\ askSt' = [askSt EXCEPT ![a] = "scoped"]
  /\ scope' = IF Unmoved(a) THEN AnswerScope(a) ELSE scope
  /\ UNCHANGED <<policyVars, reqVars, gateVars, gen, attached, bound, sameEpoch,
                 cAz, cFx,
                 askFor, askGen, msgSt, cacheable>>

\* remember: nothing is kept without a time to live.
Remember(a) ==
  /\ askSt[a] = IF askFor[a] = Connect THEN "got" ELSE "scoped"
  /\ askSt' = [askSt EXCEPT ![a] = "done"]
  /\ IF a \in cacheable /\ Unmoved(a)
     THEN LET k == AnswerKey(a)
          IN /\ cAz' = [cAz EXCEPT ![k] = reqAz[a]]
             /\ cFx' = [cFx EXCEPT ![k] = reqFx[a]]
     ELSE UNCHANGED <<cAz, cFx>>
  /\ UNCHANGED <<policyVars, reqVars, gateVars, gen, attached, bound, sameEpoch,
                 scope, askFor, askGen, msgSt, cacheable>>

\* checkRequest cannot open the answer's credential: open finds the session
\* changed, or the credential is malformed or needs TLS.
CredentialRefused(a) ==
  /\ askSt[a] = "got"
  /\ askFor[a] # Connect
  /\ askSt' = [askSt EXCEPT ![a] = "done"]
  /\ UNCHANGED <<policyVars, reqVars, gateVars, decVars,
                 askFor, askGen, msgSt, cacheable>>

\* lookupLocked finds an entry past its expiry, or pruneLocked makes room.
Evict(k) ==
  /\ k \in Cached
  /\ cAz' = [cAz EXCEPT ![k] = None]
  /\ cFx' = [cFx EXCEPT ![k] = None]
  /\ UNCHANGED <<policyVars, reqVars, gateVars, gen, attached, bound, sameEpoch,
                 scope, askVars>>

\* rememberRequest for another destination drops this one's scope.
EvictScope ==
  /\ scope # "unknown"
  /\ scope' = "unknown"
  /\ UNCHANGED <<policyVars, reqVars, gateVars, gen, attached, bound, sameEpoch,
                 cAz, cFx, askVars>>

-----------------------------------------------------------------------------
(* The gateway's end of a session.                                         *)

\* serve: track.
Track(g) ==
  /\ conn[g] = "accepted"
  /\ conn' = [conn EXCEPT ![g] = "tracked"]
  /\ UNCHANGED <<policyVars, reqVars, sessPod, flushTo, flushMsgs, acks,
                 decVars, askVars>>

\* serve: acceptControl, setControl, and the ack of the registration, which is
\* the first message an agent sends.
AcceptControl(g) ==
  /\ conn[g] = "tracked"
  /\ conn' = [conn EXCEPT ![g] = "open"]
  /\ acks' = acks \cup {g}
  /\ UNCHANGED <<policyVars, reqVars, sessPod, flushTo, flushMsgs,
                 decVars, askVars>>

\* serve returns: untrack, Close.
EndSession(g) ==
  /\ conn[g] \in {"accepted", "tracked", "open"}
  /\ conn' = [conn EXCEPT ![g] = "gone"]
  /\ UNCHANGED <<policyVars, reqVars, sessPod, flushTo, flushMsgs, acks,
                 decVars, askVars>>

InProgress(g) == {a \in Asks : msgSt[a] = "deciding" /\ askGen[a] = g}

\* answerDecision: without a free slot the answer is "busy", not cacheable.
AnswerDecision(a) ==
  /\ msgSt[a] = "up"
  /\ conn[askGen[a]] = "open"
  /\ IF Cardinality(InProgress(askGen[a])) < Slots
     THEN /\ OrgAuthorizer(a, sessPod[askGen[a]])
          /\ msgSt' = [msgSt EXCEPT ![a] = "deciding"]
     ELSE /\ msgSt' = [msgSt EXCEPT ![a] = "down"]
          /\ UNCHANGED <<policyVars, reqVars>>
  /\ UNCHANGED <<gateVars, decVars, askSt, askFor, askGen, cacheable>>

\* answerDecision's goroutine sends what it decided.  Outcomes of the policy
\* carry a time to live, refusals for other reasons do not.
SendAnswer(a) ==
  /\ msgSt[a] = "deciding"
  /\ Consume(a)
  /\ msgSt' = [msgSt EXCEPT ![a] =
                 IF conn[askGen[a]] = "open" THEN "down" ELSE "over"]
  /\ \/ reqSt[a] = "decided" /\ cacheable' = cacheable \cup {a}
     \/ UNCHANGED cacheable
  /\ UNCHANGED <<gateVars, decVars, askSt, askFor, askGen>>

BugFlushOpenOnly(x) ==
  /\ StartHooks(x)
  /\ flushTo' = [flushTo EXCEPT ![x] = {}]
  /\ UNCHANGED <<reqVars, conn, sessPod, flushMsgs, acks, decVars, askVars>>

\* FlushOrg: the live sessions of the pod under liveMu.
FlushOrg(x) ==
  /\ StartHooks(x)
  /\ flushTo' = [flushTo EXCEPT ![x] =
       {g \in Gens : sessPod[g] = PodOf(x) /\ conn[g] \in {"tracked", "open"}}]
  /\ UNCHANGED <<reqVars, conn, sessPod, flushMsgs, acks, decVars, askVars>>

\* FlushOrg: agentConn.Flush, an error if the control stream is not open.  A
\* write may time out on a live session at a lossy pod; the error is logged.
FlushConn(x, g) ==
  /\ pc[x] = "hooks"
  /\ g \in flushTo[x]
  /\ flushTo' = [flushTo EXCEPT ![x] = @ \ {g}]
  /\ \/ /\ conn[g] = "open"
        /\ flushMsgs' = [flushMsgs EXCEPT ![g] = @ + 1]
     \/ /\ conn[g] # "open" \/ sessPod[g] \in Lossy
        /\ UNCHANGED flushMsgs
  /\ UNCHANGED <<policyVars, reqVars, conn, sessPod, acks, decVars, askVars>>

FlushOrgDone(x) ==
  /\ HooksDone(x)
  /\ flushTo[x] = {}
  /\ UNCHANGED <<reqVars, gateVars, decVars, askVars>>

-----------------------------------------------------------------------------

Next ==
  \/ PolicyStep /\ UNCHANGED <<gateVars, decVars, askVars>>
  \/ \E p \in Pods : Attach(p)
  \/ Detach
  \/ \E g \in Gens : \/ Bind(g) \/ Flush(g)
                     \/ Track(g) \/ AcceptControl(g) \/ EndSession(g)
  \/ \E a \in Asks : \/ \E t \in Targets : Check(a, t)
                     \/ Ask(a) \/ AskFails(a) \/ Deliver(a)
                     \/ RememberScope(a) \/ Remember(a) \/ CredentialRefused(a)
                     \/ AnswerDecision(a) \/ SendAnswer(a)
  \/ \E k \in Keys : Evict(k)
  \/ EvictScope
  \/ \E x \in Workers : FlushOrg(x) \/ FlushOrgDone(x)
  \/ \E x \in Workers, g \in Gens : FlushConn(x, g)

Spec == Init /\ [][Next]_vars

-----------------------------------------------------------------------------

\* A flush will empty the agent's cache: it is on its way to the agent's pod,
\* or on the control stream, or the gateway has ended the session and the
\* agent drops the cache when it notices.
FlushComing ==
  \/ NotifyComing(sessPod[gen])
  \/ \E x \in Workers : gen \in flushTo[x]
  \/ flushMsgs[gen] > 0
  \/ conn[gen] = "gone"

\* A decision in the agent's cache that no longer follows from the stored
\* policy and facts is about to be flushed: no interleaving of a check, the
\* answer, a policy load, a reconnect and a flush leaves an outdated decision
\* behind the last flush (the epoch and generation checks of remember, and
\* the order of the hooks in flushLocal).
CachedDecisionCurrent ==
  attached /\ sessPod[gen] \notin Lossy =>
    \A k \in Cached : (cAz[k] = policy /\ cFx[k] = facts) \/ FlushComing

-----------------------------------------------------------------------------
\* A value of home for TLC: every writer has a pod of its own.
OwnPods == CHOOSE h \in [Writers -> Pods] : \A v, w \in Writers : v # w => h[v] # h[w]
=============================================================================
