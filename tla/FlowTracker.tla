----------------------------- MODULE FlowTracker -----------------------------
(***************************************************************************)
(* Long-lived flows under changing policy: Tracker of connect/flows and    *)
(* its callers, HandleConnect of connect/bridge and HandleEgress of        *)
(* connect/egress (which track a flow, then decide), and proxyUpgrade of   *)
(* ingress (which decides, then tracks the flow and confirms it).          *)
(*                                                                         *)
(* The flush hook of a pod's tracker starts a re-evaluation of the tracked *)
(* flows, or leaves a note for the one that is running.  Whether a flow is *)
(* allowed is left open at every decision; what matters is which version   *)
(* of the policy and the facts the decision rests on.  Sessions and their  *)
(* revocation are in FlowRevocation.                                       *)
(***************************************************************************)
EXTENDS PolicyCache

CONSTANTS
  Flows,           \* flows
  flowPod,         \* flowPod[f]: the pod that carries f
  recheckAttempts  \* tries of a re-evaluation that is unavailable

\* A flow's handler and the re-evaluation loop may decide about it at once.
ASSUME FlowConstants ==
  /\ Requests = Flows \X {"handler", "loop"}
  /\ flowPod \in [Flows -> Pods]
  /\ recheckAttempts \in Nat \ {0}

VARIABLES
  flow,      \* where the handler of a flow stands
  tracked,   \* Tracker.flows
  revoked,   \* the flows whose revoked flag is set
  flushed,   \* the upgrades flushed since they noted Tracker.epoch
  okNow,     \* the flows a decision on the current policy and facts allows
  reeval,    \* reeval[p]: where the re-evaluation loop of pod p stands
  pending,   \* the pods whose loop has to run once more
  checks,    \* checks[p]: flows the loop has still to re-evaluate
  tries      \* tries[r]: unavailable answers to a re-evaluation

flowVars == <<flow, tracked, revoked, flushed, okNow>>
loopVars == <<reeval, pending, checks>>
vars == <<policyVars, reqVars, flowVars, loopVars, tries>>

Handler(f) == <<f, "handler">>
Loop(f) == <<f, "loop">>
Stages == {"new", "begun", "deciding", "allowed", "tracked", "confirming",
           "ready", "spliced", "closed"}

TypeOK ==
  /\ PolicyTypeOK
  /\ flow \in [Flows -> Stages]
  /\ tracked \subseteq Flows
  /\ revoked \subseteq Flows
  /\ flushed \subseteq Flows
  /\ okNow \subseteq Flows
  /\ reeval \in [Pods -> {"idle", "collect", "check"}]
  /\ pending \subseteq Pods
  /\ checks \in [Pods -> SUBSET Flows]
  /\ tries \in [Requests -> 0..(recheckAttempts - 1)]

Init ==
  /\ PolicyInit
  /\ flow = [f \in Flows |-> "new"]
  /\ tracked = {}
  /\ revoked = {}
  /\ flushed = {}
  /\ okNow = {}
  /\ reeval = [p \in Pods |-> "idle"]
  /\ pending = {}
  /\ checks = [p \in Pods |-> {}]
  /\ tries = [r \in Requests |-> 0]

\* A decision made for request r: allowed by what is stored now.
Confirms(r) == reqAz[r] = policy /\ reqFx[r] = facts

-----------------------------------------------------------------------------
(* The handler of a flow.                                                  *)

\* HandleConnect, HandleEgress: Track comes before the decision.  An upgrade,
\* which comes through the ingress, notes the epoch before anything else and is
\* not tracked yet.
Begin(f) ==
  /\ flow[f] = "new"
  /\ flow' = [flow EXCEPT ![f] = "begun"]
  /\ \E upgrade \in BOOLEAN :
       tracked' = IF upgrade THEN tracked ELSE tracked \cup {f}
  /\ UNCHANGED <<policyVars, reqVars, revoked, flushed, okNow, loopVars, tries>>

\* authorize, decideAll, applyIdentityGate.
Decide(f) ==
  /\ flow[f] = "begun"
  /\ OrgAuthorizer(Handler(f), flowPod[f])
  /\ flow' = [flow EXCEPT ![f] = "deciding"]
  /\ UNCHANGED <<tracked, revoked, flushed, okNow, loopVars, tries>>

\* The handler returns: the flow is untracked and its connections closed.
Leave(f) ==
  /\ flow' = [flow EXCEPT ![f] = "closed"]
  /\ tracked' = tracked \ {f}
  /\ okNow' = okNow \ {f}

\* The decision: allowed, else refused or unavailable.
Decided(f) ==
  /\ flow[f] = "deciding"
  /\ Consume(Handler(f))
  /\ \/ /\ reqSt[Handler(f)] = "decided"
        /\ flow' = [flow EXCEPT ![f] = IF f \in tracked THEN "ready" ELSE "allowed"]
        /\ okNow' = IF Confirms(Handler(f)) THEN okNow \cup {f} ELSE okNow
        /\ UNCHANGED tracked
     \/ Leave(f)
  /\ UNCHANGED <<revoked, flushed, loopVars, tries>>

\* trackUpgrade: the stream to the agent is open.
TrackUpgrade(f) ==
  /\ flow[f] = "allowed"
  /\ flow' = [flow EXCEPT ![f] = "tracked"]
  /\ tracked' = tracked \cup {f}
  /\ UNCHANGED <<policyVars, reqVars, revoked, flushed, okNow, loopVars, tries>>

\* Confirm: flushed since the epoch was noted, so decide again ...
Confirm(f) ==
  /\ flow[f] = "tracked"
  /\ IF f \in flushed
     THEN /\ OrgAuthorizer(Handler(f), flowPod[f])
          /\ flow' = [flow EXCEPT ![f] = "confirming"]
     ELSE /\ flow' = [flow EXCEPT ![f] = "ready"]
          /\ UNCHANGED <<policyVars, reqVars>>
  /\ UNCHANGED <<tracked, revoked, flushed, okNow, loopVars, tries>>

\* recheckFlow and recheckWithRetry when the decision is there: an unavailable
\* answer is tried again (the flag again), anything but a yes revokes.
RecheckDone(r, again) ==
  LET f == r[1] IN
  /\ Consume(r)
  /\ \/ /\ reqSt[r] = "decided" /\ ~again
        /\ okNow' = IF Confirms(r) THEN okNow \cup {f} ELSE okNow
        /\ tries' = [tries EXCEPT ![r] = 0]
        /\ UNCHANGED revoked
     \/ /\ reqSt[r] = "unavailable" /\ again
        /\ tries[r] + 1 < recheckAttempts
        /\ tries' = [tries EXCEPT ![r] = @ + 1]
        /\ UNCHANGED <<okNow, revoked>>
     \/ /\ reqSt[r] = "decided" \/ tries[r] + 1 = recheckAttempts
        /\ ~again
        /\ revoked' = revoked \cup {f}
        /\ tries' = [tries EXCEPT ![r] = 0]
        /\ UNCHANGED okNow

\* ... and go on unless the flow was revoked meanwhile.
Confirmed(f) ==
  /\ flow[f] = "confirming"
  /\ \E again \in BOOLEAN :
       /\ RecheckDone(Handler(f), again)
       /\ flow' = [flow EXCEPT ![f] = IF again THEN "tracked" ELSE "ready"]
  /\ UNCHANGED <<tracked, flushed, loopVars>>

\* Confirm's result, the dial or the handshake, and Attach.
Attach(f) ==
  /\ flow[f] = "ready"
  /\ f \notin revoked
  /\ flow' = [flow EXCEPT ![f] = "spliced"]
  /\ UNCHANGED <<policyVars, reqVars, tracked, revoked, flushed, okNow, loopVars, tries>>

\* A refused Attach, a failed dial or session check, the end of the splice.
Close(f) ==
  /\ flow[f] \in {"allowed", "tracked", "ready", "spliced"}
  /\ Leave(f)
  /\ UNCHANGED <<policyVars, reqVars, revoked, flushed, loopVars, tries>>

-----------------------------------------------------------------------------
(* Re-evaluation.                                                          *)

BugDropWhileBusy(x) ==
  LET p == PodOf(x) IN
  /\ StartHooks(x)
  /\ flushed' = flushed \cup {f \in Flows : flowPod[f] = p /\ flow[f] # "new"}
  /\ reeval' = [reeval EXCEPT ![p] = IF @ = "idle" THEN "collect" ELSE @]
  /\ UNCHANGED <<reqVars, flow, tracked, revoked, okNow, pending, checks, tries>>

\* The flush hook: Reevaluate.
Reevaluate(x) ==
  LET p == PodOf(x) IN
  /\ StartHooks(x)
  /\ flushed' = flushed \cup {f \in Flows : flowPod[f] = p /\ flow[f] # "new"}
  /\ IF reeval[p] = "idle"
     THEN reeval' = [reeval EXCEPT ![p] = "collect"] /\ UNCHANGED pending
     ELSE pending' = pending \cup {p} /\ UNCHANGED reeval
  /\ UNCHANGED <<reqVars, flow, tracked, revoked, okNow, checks, tries>>

ReevaluateReturns(x) ==
  /\ HooksDone(x)
  /\ UNCHANGED <<reqVars, flowVars, loopVars, tries>>

\* reevaluateOnce: the flows to look at, under the lock.
Collect(p) ==
  /\ reeval[p] = "collect"
  /\ reeval' = [reeval EXCEPT ![p] = "check"]
  /\ checks' = [checks EXCEPT ![p] =
                  {f \in tracked \ revoked : flowPod[f] = p}]
  /\ UNCHANGED <<policyVars, reqVars, flowVars, pending, tries>>

Recheck(f) ==
  /\ f \in checks[flowPod[f]]
  /\ OrgAuthorizer(Loop(f), flowPod[f])
  /\ UNCHANGED <<flowVars, loopVars, tries>>

BugGiveUpQuietly(f) ==
  /\ f \in checks[flowPod[f]]
  /\ Consume(Loop(f))
  /\ okNow' = IF reqSt[Loop(f)] = "decided" /\ Confirms(Loop(f)) THEN okNow \cup {f} ELSE okNow
  /\ checks' = [checks EXCEPT ![flowPod[f]] = @ \ {f}]
  /\ UNCHANGED <<flow, tracked, revoked, flushed, reeval, pending, tries>>

Rechecked(f) ==
  /\ f \in checks[flowPod[f]]
  /\ \E again \in BOOLEAN :
       /\ RecheckDone(Loop(f), again)
       /\ checks' = IF again THEN checks
                    ELSE [checks EXCEPT ![flowPod[f]] = @ \ {f}]
  /\ UNCHANGED <<flow, tracked, flushed, reeval, pending>>

\* reevaluateLoop: once more if a flush came meanwhile.
LoopDone(p) ==
  /\ reeval[p] = "check"
  /\ checks[p] = {}
  /\ reeval' = [reeval EXCEPT ![p] = IF p \in pending THEN "collect" ELSE "idle"]
  /\ pending' = pending \ {p}
  /\ UNCHANGED <<policyVars, reqVars, flowVars, checks, tries>>

-----------------------------------------------------------------------------

\* A change of the policy or the facts: no flow has been decided under it.
Background ==
  /\ PolicyStep
  /\ okNow' = IF policy' = policy /\ facts' = facts THEN okNow ELSE {}
  /\ UNCHANGED <<flow, tracked, revoked, flushed, loopVars, tries>>

Next ==
  \/ Background
  \/ \E f \in Flows : \/ Begin(f) \/ Decide(f) \/ Decided(f) \/ TrackUpgrade(f)
                      \/ Confirm(f) \/ Confirmed(f) \/ Attach(f) \/ Close(f)
                      \/ Recheck(f) \/ Rechecked(f)
  \/ \E x \in Workers : Reevaluate(x) \/ ReevaluateReturns(x)
  \/ \E p \in Pods : Collect(p) \/ LoopDone(p)

Spec == Init /\ [][Next]_vars

WriterStep(w) ==
  \/ (InvalidateAuthz(w) \/ Broadcast(w) \/ FlushLocal(w)) /\ Background
  \/ Reevaluate(w) \/ ReevaluateReturns(w)

BusStep(p) ==
  \/ (HandleRemoteFlush(p) \/ FlushLocal(p)) /\ Background
  \/ Reevaluate(p) \/ ReevaluateReturns(p)

RecheckStep(f) ==
  \/ Recheck(f) \/ Rechecked(f)
  \/ (ReadFacts(Loop(f)) \/ DecideFails(Loop(f))) /\ Background

-----------------------------------------------------------------------------

\* Every spliced flow is allowed by the stored policy and facts, or revoked
\* and being closed, or its re-evaluation is on the way: no order of a flush,
\* a re-evaluation that is already running, a decision under way and a splice
\* leaves a flow that was only allowed by what is no longer stored (Track
\* before authorize, Confirm after trackUpgrade, pending in Reevaluate).
SplicedFlowCurrent ==
  \A f \in Flows :
    flow[f] = "spliced" /\ f \notin revoked \cup okNow /\ flowPod[f] \notin Lossy =>
      \/ NotifyComing(flowPod[f])
      \/ flowPod[f] \in pending \/ reeval[flowPod[f]] = "collect"
      \/ f \in checks[flowPod[f]]

\* A flow that was allowed only by an earlier policy is confirmed or revoked
\* in the end, however many flushes are coalesced.
FlowSettles ==
  \A f \in Flows :
    (flow[f] = "spliced" /\ f \notin okNow) ~>
      (flow[f] # "spliced" \/ f \in revoked \cup okNow)
=============================================================================
