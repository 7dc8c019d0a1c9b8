-------------------------- MODULE FlowTrackerProofs --------------------------
(***************************************************************************)
(* Proofs about FlowTracker, for any number of pods, writers and flows: a  *)
(* spliced flow is allowed by what is stored, or revoked, or about to be   *)
(* re-evaluated.                                                           *)
(*                                                                         *)
(* The inductive invariant follows what a flow rests on from its decision  *)
(* to its splice: a handler that decided on what is no longer stored has   *)
(* had, or will have, its flow flushed (an upgrade that is not tracked     *)
(* yet), or re-evaluated (a tracked flow), and a re-evaluation that itself *)
(* rests on something old is going to be repeated.                         *)
(***************************************************************************)
EXTENDS FlowTracker, PolicyCacheProofs

\* Where a flow is tracked, whose requests are under way at which pod, and what
\* the loop of a pod works on.
FlowShape(f) ==
  /\ f \in tracked => flow[f] \notin {"new", "allowed", "closed"}
  /\ f \notin tracked => flow[f] \in {"new", "begun", "deciding", "allowed", "closed"}
  /\ reqSt[Handler(f)] # "idle" <=> flow[f] \in {"deciding", "confirming"}
  /\ reqSt[Handler(f)] # "idle" => reqPod[Handler(f)] = flowPod[f]
  /\ reqSt[Loop(f)] # "idle" => f \in checks[flowPod[f]] /\ reqPod[Loop(f)] = flowPod[f]
  /\ f \in checks[flowPod[f]] => reeval[flowPod[f]] = "check"
  /\ flow[f] = "confirming" => f \in flushed

Shape == TypeOK /\ \A f \in Flows : FlowShape(f)

\* The re-evaluation of a tracked flow is on the way.
Due(f) ==
  \/ NotifyComing(flowPod[f])
  \/ flowPod[f] \in pending \/ reeval[flowPod[f]] = "collect"
  \/ f \in checks[flowPod[f]]

\* The handler of f has decided, or is deciding, on what is no longer stored.
Outdated(f) ==
  \/ flow[f] \in {"deciding", "confirming"} /\ ReqStale(Handler(f))
  \/ flow[f] \in {"allowed", "tracked", "ready", "spliced"}

\* A tracked flow, past the point where only Confirm looks at the epoch.
TrackedCurrent(f) ==
  f \in tracked \ (revoked \cup okNow) /\ flow[f] # "tracked" /\ Outdated(f) => Due(f)

\* An upgrade, before Confirm.
UpgradeCurrent(f) ==
  (f \notin tracked \/ flow[f] = "tracked") /\ f \notin okNow /\ Outdated(f) =>
    f \in flushed \/ NotifyComing(flowPod[f])

\* A re-evaluation of f that rests on something old.
LoopCurrent(f) ==
  ReqStale(Loop(f)) => NotifyComing(flowPod[f]) \/ flowPod[f] \in pending

FlowInv ==
  /\ Shape /\ PolicyInv
  /\ \A f \in Flows : flowPod[f] \notin Lossy =>
       TrackedCurrent(f) /\ UpgradeCurrent(f) /\ LoopCurrent(f)

-----------------------------------------------------------------------------
\* The two requests of a flow are its own.
LEMMA RequestNames ==
  ASSUME NEW f \in Flows
  PROVE  /\ Handler(f) \in Requests /\ Loop(f) \in Requests
         /\ Handler(f)[1] = f /\ Loop(f)[1] = f
         /\ \A g \in Flows : /\ Handler(f) # Loop(g)
                             /\ Handler(f) = Handler(g) => f = g
                             /\ Loop(f) = Loop(g) => f = g
BY FlowConstants DEF Handler, Loop

\* A step of a flow's handler.
HandlerStep(f) ==
  \/ Begin(f) \/ Decide(f) \/ Decided(f) \/ TrackUpgrade(f)
  \/ Confirm(f) \/ Confirmed(f) \/ Attach(f) \/ Close(f)

\* Every step is one of these.
LEMMA NextCases ==
  ASSUME [Next]_vars
  PROVE  \/ Background
         \/ \E f \in Flows : HandlerStep(f) \/ Recheck(f) \/ Rechecked(f)
         \/ \E x \in Workers : Reevaluate(x) \/ ReevaluateReturns(x)
         \/ \E p \in Pods : Collect(p) \/ LoopDone(p)
         \/ UNCHANGED vars
BY Zenon DEF Next, HandlerStep

\* What the handler of a flow does to the policy part.
LEMMA HandlerBase ==
  ASSUME NEW f \in Flows, HandlerStep(f)
  PROVE  \/ OrgAuthorizer(Handler(f), flowPod[f])
         \/ Consume(Handler(f))
         \/ UNCHANGED <<policyVars, reqVars>>
BY Zenon DEF HandlerStep, Begin, Decide, Decided, TrackUpgrade, Confirm, Confirmed, Attach,
   Close, RecheckDone

\* Every step is one of PolicyCache, so what PolicyCacheProofs proves holds here.
LEMMA NextIsBase == ASSUME [Next]_vars PROVE BaseStep
<1>0. \A f \in Flows : Handler(f) \in Requests /\ Loop(f) \in Requests /\ flowPod[f] \in Pods
  BY Zenon, RequestNames, FlowConstants
<1>1. CASE Background
  BY Zenon, <1>1 DEF Background, BaseStep
<1>2. ASSUME NEW f \in Flows, HandlerStep(f) PROVE BaseStep
  BY Zenon, <1>0, <1>2, HandlerBase DEF BaseStep
<1>3. ASSUME NEW f \in Flows, Recheck(f) \/ Rechecked(f) PROVE BaseStep
  BY Zenon, <1>0, <1>3 DEF BaseStep, Recheck, Rechecked, RecheckDone
<1>4. ASSUME NEW x \in Workers, Reevaluate(x) \/ ReevaluateReturns(x) PROVE BaseStep
  BY Zenon, <1>4 DEF BaseStep, Reevaluate, ReevaluateReturns
<1>5. ASSUME NEW p \in Pods, Collect(p) \/ LoopDone(p) PROVE BaseStep
  BY Zenon, <1>5 DEF BaseStep, Collect, LoopDone
<1>6. CASE UNCHANGED vars
  BY Zenon, <1>6 DEF BaseStep, vars
<1> QED BY Zenon, <1>1, <1>2, <1>3, <1>4, <1>5, <1>6, NextCases

\* Every action keeps the variables in their types.
LEMMA TypeStep == ASSUME TypeOK, [Next]_vars PROVE TypeOK'
<1>0. PolicyTypeOK' /\ flowPod \in [Flows -> Pods] /\ recheckAttempts \in Nat \ {0}
  BY Zenon, NextIsBase, PolicyTypeStep, FlowConstants DEF TypeOK
<1>a. \A f \in Flows : Handler(f) \in Requests /\ Loop(f) \in Requests
                       /\ Handler(f)[1] = f /\ Loop(f)[1] = f
  BY Zenon, RequestNames
<1> USE DEF TypeOK, flowVars, loopVars
<1>1. CASE Background
  BY Zenon, <1>0, <1>1 DEF Background
<1>r. ASSUME NEW f \in Flows, NEW r \in Requests, r[1] = f, NEW again \in BOOLEAN,
             RecheckDone(r, again)
      PROVE  /\ okNow' \subseteq Flows /\ revoked' \subseteq Flows
             /\ tries' \in [Requests -> 0..(recheckAttempts - 1)]
  <2>1. okNow' \subseteq okNow \cup {f} /\ revoked' \subseteq revoked \cup {f}
    BY Zenon, <1>r DEF RecheckDone
  <2>2. \/ tries' = [tries EXCEPT ![r] = 0]
        \/ tries' = [tries EXCEPT ![r] = @ + 1] /\ tries[r] + 1 < recheckAttempts
    BY Zenon, <1>r DEF RecheckDone
  <2>3. tries' \in [Requests -> 0..(recheckAttempts - 1)]
    BY SMT, <1>0, <2>2
  <2> QED BY Zenon, <2>1, <2>3
<1>2. ASSUME NEW f \in Flows, HandlerStep(f) PROVE TypeOK'
  <2>1. CASE Confirmed(f)
    <3>1. PICK again \in BOOLEAN :
             /\ RecheckDone(Handler(f), again)
             /\ flow' = [flow EXCEPT ![f] = IF again THEN "tracked" ELSE "ready"]
      BY Zenon, <2>1 DEF Confirmed
    <3>2. Handler(f) \in Requests /\ Handler(f)[1] = f
      BY Zenon, <1>a
    <3>3. /\ okNow' \subseteq Flows /\ revoked' \subseteq Flows
          /\ tries' \in [Requests -> 0..(recheckAttempts - 1)]
      BY Zenon, <1>r, <3>1, <3>2
    <3>4. flow' \in [Flows -> Stages]
      BY Zenon, <3>1 DEF Stages
    <3>5. UNCHANGED <<tracked, flushed, reeval, pending, checks>>
      BY Zenon, <2>1 DEF Confirmed
    <3> QED BY Zenon, <1>0, <3>3, <3>4, <3>5
  <2>2. CASE HandlerStep(f) /\ ~Confirmed(f)
    <3>1. /\ flow' \in [Flows -> Stages] /\ tracked' \subseteq Flows /\ okNow' \subseteq Flows
      <4>1. /\ tracked' \subseteq tracked \cup {f} /\ okNow' \subseteq okNow \cup {f}
            /\ \E s \in Stages : flow' = [flow EXCEPT ![f] = s]
        BY Zenon, <2>2 DEF HandlerStep, Begin, Decide, Decided, TrackUpgrade, Confirm, Attach,
           Close, Leave, Stages
      <4> QED BY Zenon, <4>1
    <3>2. UNCHANGED <<revoked, flushed, reeval, pending, checks, tries>>
      BY Zenon, <2>2 DEF HandlerStep, Begin, Decide, Decided, TrackUpgrade, Confirm, Attach, Close
    <3> QED BY Zenon, <1>0, <3>1, <3>2
  <2> QED BY Zenon, <1>2, <2>1, <2>2
<1>3. ASSUME NEW f \in Flows, Recheck(f) \/ Rechecked(f) PROVE TypeOK'
  <2>1. CASE Recheck(f)
    BY Zenon, <1>0, <2>1 DEF Recheck
  <2>2. CASE Rechecked(f)
    <3>1. PICK again \in BOOLEAN :
             /\ RecheckDone(Loop(f), again)
             /\ checks' = IF again THEN checks ELSE [checks EXCEPT ![flowPod[f]] = @ \ {f}]
      BY Zenon, <2>2 DEF Rechecked
    <3>2. checks' \in [Pods -> SUBSET Flows]
      BY Zenon, <1>0, <3>1
    <3>3. Loop(f) \in Requests /\ Loop(f)[1] = f
      BY Zenon, <1>a
    <3>4. /\ okNow' \subseteq Flows /\ revoked' \subseteq Flows
          /\ tries' \in [Requests -> 0..(recheckAttempts - 1)]
      BY Zenon, <1>r, <3>1, <3>3
    <3>5. UNCHANGED <<flow, tracked, flushed, reeval, pending>>
      BY Zenon, <2>2 DEF Rechecked
    <3> QED BY Zenon, <1>0, <3>2, <3>4, <3>5
  <2> QED BY Zenon, <1>3, <2>1, <2>2
<1>4. ASSUME NEW x \in Workers, Reevaluate(x) \/ ReevaluateReturns(x) PROVE TypeOK'
  <2>1. PodOf(x) \in Pods
    BY Zenon, PodOfType
  <2> QED BY <1>0, <1>4, <2>1 DEF Reevaluate, ReevaluateReturns
<1>5. ASSUME NEW p \in Pods, Collect(p) \/ LoopDone(p) PROVE TypeOK'
  BY <1>0, <1>5 DEF Collect, LoopDone
<1>6. CASE UNCHANGED vars
  BY Zenon, <1>0, <1>6 DEF vars
<1> HIDE DEF TypeOK
<1> QED BY Zenon, <1>1, <1>2, <1>3, <1>4, <1>5, <1>6, NextCases


\* A request is begun and consumed alone.
LEMMA RequestStep ==
  ASSUME PolicyTypeOK, NEW r \in Requests, NEW p \in Pods, OrgAuthorizer(r, p) \/ Consume(r)
  PROVE  /\ \A q \in Requests \ {r} : reqSt'[q] = reqSt[q] /\ reqPod'[q] = reqPod[q]
         /\ OrgAuthorizer(r, p) =>
              reqSt[r] = "idle" /\ reqSt'[r] # "idle" /\ reqPod'[r] = p
         /\ Consume(r) => reqSt[r] # "idle" /\ reqSt'[r] = "idle"
         /\ UNCHANGED pc
<1>1. reqSt \in [Requests -> {"idle", "load", "facts", "decided", "unavailable"}]
      /\ reqPod \in [Requests -> Pods]
  BY Zenon DEF PolicyTypeOK
<1> QED BY SMT, <1>1 DEF OrgAuthorizer, Consume, policyVars

\* A handler's step is about its own flow and its own request.
LEMMA HandlerAlone ==
  ASSUME TypeOK, NEW g \in Flows, HandlerStep(g)
  PROVE  /\ \A f \in Flows \ {g} :
              /\ flow'[f] = flow[f] /\ (f \in tracked' <=> f \in tracked)
              /\ (f \in okNow' <=> f \in okNow) /\ (f \in revoked' <=> f \in revoked)
         /\ \A q \in Requests \ {Handler(g)} : reqSt'[q] = reqSt[q] /\ reqPod'[q] = reqPod[q]
         /\ revoked \subseteq revoked'
         /\ UNCHANGED <<flushed, reeval, pending, checks, pc>>
<1>0. Handler(g) \in Requests /\ Handler(g)[1] = g /\ flowPod[g] \in Pods /\ PolicyTypeOK
  BY Zenon, RequestNames, FlowConstants DEF TypeOK
<1>1. \/ \A q \in Requests \ {Handler(g)} : reqSt'[q] = reqSt[q] /\ reqPod'[q] = reqPod[q]
      \/ UNCHANGED reqVars
  BY Zenon, <1>0, HandlerBase, RequestStep
<1>2. UNCHANGED pc
  BY Zenon, <1>0, HandlerBase, RequestStep DEF policyVars
<1>3. UNCHANGED <<flushed, reeval, pending, checks>>
  BY Zenon DEF HandlerStep, Begin, Decide, Decided, TrackUpgrade, Confirm, Confirmed, Attach,
     Close, loopVars
<1>4. \E s \in Stages : flow' = [flow EXCEPT ![g] = s]
  BY Zenon DEF HandlerStep, Begin, Decide, Decided, TrackUpgrade, Confirm, Confirmed, Attach,
     Close, Leave, Stages
<1>5. tracked' \in {tracked, tracked \cup {g}, tracked \ {g}}
  BY Zenon DEF HandlerStep, Begin, Decide, Decided, TrackUpgrade, Confirm, Confirmed, Attach,
     Close, Leave
<1>6. /\ okNow' \in {okNow, okNow \cup {g}, okNow \ {g}}
      /\ revoked' \in {revoked, revoked \cup {g}}
  <2>1. CASE Confirmed(g)
    <3>1. \E again \in BOOLEAN : RecheckDone(Handler(g), again)
      BY Zenon, <2>1 DEF Confirmed
    <3> QED BY Zenon, <1>0, <3>1 DEF RecheckDone
  <2>2. CASE HandlerStep(g) /\ ~Confirmed(g)
    BY Zenon, <2>2 DEF HandlerStep, Begin, Decide, Decided, TrackUpgrade, Confirm, Attach,
       Close, Leave
  <2> QED BY Zenon, <2>1, <2>2
<1>7. \A f \in Flows \ {g} : flow'[f] = flow[f]
  BY Zenon, <1>4 DEF TypeOK
<1>8. \A f \in Flows \ {g} :
         /\ (f \in tracked' <=> f \in tracked)
         /\ (f \in okNow' <=> f \in okNow) /\ (f \in revoked' <=> f \in revoked)
  BY SMT, <1>5, <1>6
<1>9. revoked \subseteq revoked'
  BY Zenon, <1>6
<1> QED BY Zenon, <1>1, <1>2, <1>3, <1>7, <1>8, <1>9 DEF reqVars

\* Only its handler moves a flow, and its stages follow each other like this.
LEMMA FlowMoves ==
  ASSUME TypeOK, [Next]_vars, NEW f \in Flows
  PROVE  \/ flow'[f] = flow[f] /\ (f \in tracked' <=> f \in tracked)
         \/ HandlerStep(f)
<1>1. CASE Background
  BY Zenon, <1>1 DEF Background
<1>2. ASSUME NEW g \in Flows, HandlerStep(g), g # f
      PROVE  flow'[f] = flow[f] /\ (f \in tracked' <=> f \in tracked)
  BY Zenon, <1>2, HandlerAlone
<1>3. ASSUME NEW g \in Flows, Recheck(g) \/ Rechecked(g)
      PROVE  flow' = flow /\ tracked' = tracked
  BY Zenon, <1>3 DEF Recheck, Rechecked, flowVars
<1>4. ASSUME NEW x \in Workers, Reevaluate(x) \/ ReevaluateReturns(x)
      PROVE  flow' = flow /\ tracked' = tracked
  BY Zenon, <1>4 DEF Reevaluate, ReevaluateReturns, flowVars
<1>5. ASSUME NEW p \in Pods, Collect(p) \/ LoopDone(p)
      PROVE  flow' = flow /\ tracked' = tracked
  BY Zenon, <1>5 DEF Collect, LoopDone, flowVars
<1>6. CASE UNCHANGED vars
  BY Zenon, <1>6 DEF vars, flowVars
<1> QED BY Zenon, <1>1, <1>2, <1>3, <1>4, <1>5, <1>6, NextCases

\* What each step of its handler does to a flow.
LEMMA OwnStep ==
  ASSUME Shape, NEW f \in Flows, HandlerStep(f)
  PROVE  \/ flow[f] = "new" /\ flow'[f] = "begun" /\ Begin(f)
         \/ /\ flow[f] = "begun" /\ flow'[f] = "deciding"
            /\ (f \in tracked' <=> f \in tracked)
            /\ OrgAuthorizer(Handler(f), flowPod[f])
         \/ /\ flow[f] = "deciding" /\ Consume(Handler(f))
            /\ flow'[f] = IF f \in tracked THEN "ready" ELSE "allowed"
            /\ reqSt[Handler(f)] = "decided"
            /\ (Confirms(Handler(f)) => f \in okNow')
            /\ (f \in tracked' <=> f \in tracked)
         \/ /\ flow[f] = "deciding" /\ flow'[f] = "closed" /\ f \notin tracked'
            /\ Consume(Handler(f))
         \/ flow[f] = "allowed" /\ flow'[f] = "tracked" /\ f \in tracked' /\ UNCHANGED reqVars
         \/ /\ flow[f] = "tracked" /\ f \in flushed /\ flow'[f] = "confirming"
            /\ (f \in tracked' <=> f \in tracked)
            /\ OrgAuthorizer(Handler(f), flowPod[f])
         \/ /\ flow[f] = "tracked" /\ f \notin flushed /\ flow'[f] = "ready"
            /\ (f \in tracked' <=> f \in tracked) /\ UNCHANGED reqVars
         \/ /\ flow[f] = "confirming" /\ flow'[f] = "tracked" /\ Consume(Handler(f))
            /\ (f \in tracked' <=> f \in tracked)
         \/ /\ flow[f] = "confirming" /\ flow'[f] = "ready" /\ Consume(Handler(f))
            /\ (f \in tracked' <=> f \in tracked)
            /\ \/ f \in revoked'
               \/ reqSt[Handler(f)] = "decided" /\ (Confirms(Handler(f)) => f \in okNow')
         \/ /\ flow[f] = "ready" /\ flow'[f] = "spliced" /\ UNCHANGED reqVars
            /\ (f \in tracked' <=> f \in tracked)
         \/ /\ flow[f] \in {"allowed", "tracked", "ready", "spliced"}
            /\ flow'[f] = "closed" /\ f \notin tracked' /\ UNCHANGED reqVars
<1>0. f \in DOMAIN flow /\ Handler(f)[1] = f
  BY Zenon, RequestNames DEF Shape, TypeOK
<1>1. CASE Begin(f)
  BY Zenon, <1>0, <1>1 DEF Begin
<1>2. CASE Decide(f)
  BY Zenon, <1>0, <1>2 DEF Decide
<1>3. CASE Decided(f)
  BY Zenon, <1>0, <1>3 DEF Decided, Leave
<1>4. CASE TrackUpgrade(f)
  BY Zenon, <1>0, <1>4 DEF TrackUpgrade
<1>5. CASE Confirm(f)
  BY Zenon, <1>0, <1>5 DEF Confirm
<1>6. CASE Confirmed(f)
  BY Zenon, <1>0, <1>6 DEF Confirmed, RecheckDone
<1>7. CASE Attach(f)
  BY Zenon, <1>0, <1>7 DEF Attach
<1>8. CASE Close(f)
  BY Zenon, <1>0, <1>8 DEF Close, Leave
<1> QED BY Zenon, <1>1, <1>2, <1>3, <1>4, <1>5, <1>6, <1>7, <1>8 DEF HandlerStep


\* The loop of a pod takes flows off its list one at a time, refills it only at
\* Collect and ends only when it is empty.
LEMMA LoopMoves ==
  ASSUME Shape, [Next]_vars, NEW f \in Flows
  PROVE  LET p == flowPod[f] IN
         /\ f \in checks[p] => \/ f \in checks'[p] /\ reeval'[p] = reeval[p]
                               \/ Rechecked(f)
         /\ f \notin checks[p] /\ f \in checks'[p] => Collect(p)
         /\ reeval[p] = "collect" => reeval'[p] = "collect" \/ Collect(p)
         /\ p \in pending => p \in pending' \/ (LoopDone(p) /\ reeval'[p] = "collect")
         /\ f \in checks[p] /\ p \in pending => p \in pending'
<1> DEFINE p == flowPod[f]
<1>0. /\ p \in Pods /\ TypeOK /\ checks \in [Pods -> SUBSET Flows]
      /\ reeval \in [Pods -> {"idle", "collect", "check"}]
      /\ f \in checks[p] => reeval[p] = "check"
      /\ \A g \in Flows : flowPod[g] \in Pods
  BY Zenon, FlowConstants DEF Shape, FlowShape, TypeOK
<1> DEFINE Goal == /\ f \in checks[p] => \/ f \in checks'[p] /\ reeval'[p] = reeval[p]
                                         \/ Rechecked(f)
                   /\ f \notin checks[p] /\ f \in checks'[p] => Collect(p)
                   /\ reeval[p] = "collect" => reeval'[p] = "collect" \/ Collect(p)
                   /\ p \in pending => p \in pending' \/ (LoopDone(p) /\ reeval'[p] = "collect")
                   /\ f \in checks[p] /\ p \in pending => p \in pending'
<1>1. ASSUME UNCHANGED loopVars PROVE Goal
  BY Zenon, <1>1 DEF loopVars
<1>2. ASSUME Background PROVE Goal
  BY Zenon, <1>1, <1>2 DEF Background
<1>3. ASSUME NEW g \in Flows, HandlerStep(g) PROVE Goal
  BY Zenon, <1>0, <1>1, <1>3, HandlerAlone DEF loopVars
<1>4. ASSUME NEW g \in Flows, Recheck(g) PROVE Goal
  BY Zenon, <1>1, <1>4 DEF Recheck
<1>5. ASSUME NEW g \in Flows, Rechecked(g) PROVE Goal
  <2>1. checks' = checks \/ checks' = [checks EXCEPT ![flowPod[g]] = @ \ {g}]
    BY Zenon, <1>5 DEF Rechecked
  <2>2. UNCHANGED <<reeval, pending>>
    BY Zenon, <1>5 DEF Rechecked
  <2>3. f # g \/ checks' = checks => (f \in checks'[p] <=> f \in checks[p])
    BY SMT, <1>0, <2>1
  <2>4. f \in checks'[p] => f \in checks[p]
    BY SMT, <1>0, <2>1
  <2> QED BY Zenon, <1>0, <1>5, <2>2, <2>3, <2>4
<1>6. ASSUME NEW x \in Workers, Reevaluate(x) PROVE Goal
  BY Zenon, <1>0, <1>6 DEF Reevaluate
<1>7. ASSUME NEW x \in Workers, ReevaluateReturns(x) PROVE Goal
  BY Zenon, <1>1, <1>7 DEF ReevaluateReturns
<1>8. ASSUME NEW q \in Pods, Collect(q) PROVE Goal
  <2>1. reeval[q] = "collect" /\ UNCHANGED pending
        /\ reeval' = [reeval EXCEPT ![q] = "check"]
        /\ checks' = [checks EXCEPT ![q] = {g \in tracked \ revoked : flowPod[g] = q}]
    BY Zenon, <1>8 DEF Collect
  <2>2. CASE q = p
    BY Zenon, <1>0, <1>8, <2>1, <2>2
  <2>3. CASE q # p
    <3>1. checks'[p] = checks[p] /\ reeval'[p] = reeval[p]
      BY Zenon, <1>0, <2>1, <2>3
    <3> QED BY Zenon, <2>1, <3>1
  <2> QED BY Zenon, <2>2, <2>3
<1>9. ASSUME NEW q \in Pods, LoopDone(q) PROVE Goal
  <2>1. /\ reeval[q] = "check" /\ checks[q] = {} /\ UNCHANGED checks
        /\ reeval' = [reeval EXCEPT ![q] = IF q \in pending THEN "collect" ELSE "idle"]
        /\ pending' = pending \ {q}
    BY Zenon, <1>9 DEF LoopDone
  <2> QED BY Zenon, <1>0, <1>9, <2>1
<1>10. ASSUME UNCHANGED vars PROVE Goal
  BY Zenon, <1>1, <1>10 DEF vars
<1> HIDE DEF Goal, p
<1>11. Goal
  BY Zenon, <1>2, <1>3, <1>4, <1>5, <1>6, <1>7, <1>8, <1>9, <1>10, NextCases
<1> QED BY Zenon, <1>11 DEF Goal, p

\* Marks are not taken away, and a verdict only by a change of what is stored
\* or by the end of the flow.
LEMMA MarksKept ==
  ASSUME TypeOK, [Next]_vars, NEW f \in Flows
  PROVE  /\ f \in revoked => f \in revoked'
         /\ f \in flushed => f \in flushed'
         /\ f \in okNow => \/ f \in okNow' \/ policy' # policy \/ facts' # facts
                           \/ flow'[f] = "closed"
<1>1. CASE Background
  <2>1. UNCHANGED <<revoked, flushed>>
    BY Zenon, <1>1 DEF Background
  <2>2. okNow' = okNow \/ policy' # policy \/ facts' # facts
    BY SMT, <1>1 DEF Background
  <2> QED BY Zenon, <2>1, <2>2
<1>2. ASSUME NEW g \in Flows, HandlerStep(g)
      PROVE  /\ f \in revoked => f \in revoked'
             /\ f \in flushed => f \in flushed'
             /\ f \in okNow => f \in okNow' \/ flow'[f] = "closed"
  <2>1. revoked \subseteq revoked' /\ flushed' = flushed
    BY Zenon, <1>2, HandlerAlone
  <2>2. CASE f # g
    BY Zenon, <1>2, <2>1, <2>2, HandlerAlone
  <2>3. CASE f = g
    <3>1. Leave(g) \/ okNow \subseteq okNow'
      BY Zenon, <1>2 DEF HandlerStep, Begin, Decide, Decided, TrackUpgrade, Confirm, Confirmed,
         RecheckDone, Attach, Close
    <3>2. Leave(g) => flow'[g] = "closed"
      BY Zenon DEF Leave, TypeOK
    <3> QED BY Zenon, <2>1, <2>3, <3>1, <3>2
  <2> QED BY Zenon, <2>2, <2>3
<1>3. ASSUME NEW g \in Flows, Recheck(g) \/ Rechecked(g)
      PROVE  revoked \subseteq revoked' /\ flushed' = flushed /\ okNow \subseteq okNow'
  BY Zenon, <1>3 DEF Recheck, Rechecked, RecheckDone, flowVars
<1>4. ASSUME NEW x \in Workers, Reevaluate(x) \/ ReevaluateReturns(x)
      PROVE  revoked \subseteq revoked' /\ flushed \subseteq flushed' /\ okNow' = okNow
  BY Zenon, <1>4 DEF Reevaluate, ReevaluateReturns, flowVars
<1>5. ASSUME NEW p \in Pods, Collect(p) \/ LoopDone(p)
      PROVE  revoked' = revoked /\ flushed' = flushed /\ okNow' = okNow
  BY Zenon, <1>5 DEF Collect, LoopDone, flowVars
<1>6. CASE UNCHANGED vars
  BY Zenon, <1>6 DEF vars, flowVars
<1> QED BY Zenon, <1>1, <1>2, <1>3, <1>4, <1>5, <1>6, NextCases


\* The shape of a flow is kept.
LEMMA ShapeStep == ASSUME Shape, [Next]_vars PROVE Shape'
<1>1. TypeOK /\ TypeOK' /\ PolicyTypeOK
  BY Zenon, TypeStep DEF Shape, TypeOK
<1> SUFFICES ASSUME NEW f \in Flows PROVE FlowShape(f)'
  BY Zenon, <1>1 DEF Shape
<1>2. FlowShape(f) /\ flowPod[f] \in Pods /\ Handler(f) \in Requests /\ Loop(f) \in Requests
      /\ \A g \in Flows : flowPod[g] \in Pods /\ Handler(g) \in Requests /\ Loop(g) \in Requests
  BY Zenon, RequestNames, FlowConstants DEF Shape
<1>3. /\ \A g \in Flows : Handler(f) # Loop(g) /\ (Handler(f) = Handler(g) => f = g)
      /\ \A g \in Flows : Handler(g) # Loop(f) /\ (Loop(f) = Loop(g) => f = g)
  BY Zenon, RequestNames
\* The requests of f when another flow moves, or none.
<1>4. ASSUME ~HandlerStep(f)
      PROVE  /\ reqSt'[Handler(f)] # "idle" <=> reqSt[Handler(f)] # "idle"
             /\ reqPod'[Handler(f)] = reqPod[Handler(f)]
  <2>1. CASE Background
    BY Zenon, <1>1, <1>2, <2>1, PolicyStepReq DEF Background
  <2>2. ASSUME NEW g \in Flows, HandlerStep(g)
        PROVE  reqSt'[Handler(f)] = reqSt[Handler(f)] /\ reqPod'[Handler(f)] = reqPod[Handler(f)]
    BY Zenon, <1>1, <1>2, <1>3, <1>4, <2>2, HandlerAlone
  <2>3. ASSUME NEW g \in Flows, Recheck(g) \/ Rechecked(g)
        PROVE  reqSt'[Handler(f)] = reqSt[Handler(f)] /\ reqPod'[Handler(f)] = reqPod[Handler(f)]
    <3>1. OrgAuthorizer(Loop(g), flowPod[g]) \/ Consume(Loop(g))
      BY Zenon, <2>3 DEF Recheck, Rechecked, RecheckDone
    <3> QED BY Zenon, <1>1, <1>2, <1>3, <2>3, <3>1, RequestStep
  <2>4. CASE UNCHANGED reqVars
    BY Zenon, <2>4 DEF reqVars
  <2> QED BY Zenon, <2>1, <2>2, <2>3, <2>4, NextCases
          DEF Reevaluate, ReevaluateReturns, Collect, LoopDone, vars
<1>5. ASSUME ~Recheck(f), ~Rechecked(f)
      PROVE  /\ reqSt'[Loop(f)] # "idle" <=> reqSt[Loop(f)] # "idle"
             /\ reqPod'[Loop(f)] = reqPod[Loop(f)]
  <2>1. CASE Background
    BY Zenon, <1>1, <1>2, <2>1, PolicyStepReq DEF Background
  <2>2. ASSUME NEW g \in Flows, HandlerStep(g)
        PROVE  reqSt'[Loop(f)] = reqSt[Loop(f)] /\ reqPod'[Loop(f)] = reqPod[Loop(f)]
    BY Zenon, <1>1, <1>2, <1>3, <2>2, HandlerAlone
  <2>3. ASSUME NEW g \in Flows, Recheck(g) \/ Rechecked(g)
        PROVE  reqSt'[Loop(f)] = reqSt[Loop(f)] /\ reqPod'[Loop(f)] = reqPod[Loop(f)]
    <3>1. OrgAuthorizer(Loop(g), flowPod[g]) \/ Consume(Loop(g))
      BY Zenon, <2>3 DEF Recheck, Rechecked, RecheckDone
    <3>2. Loop(f) # Loop(g)
      BY Zenon, <1>3, <1>5, <2>3
    <3> QED BY Zenon, <1>1, <1>2, <2>3, <3>1, <3>2, RequestStep
  <2>4. CASE UNCHANGED reqVars
    BY Zenon, <2>4 DEF reqVars
  <2> QED BY Zenon, <2>1, <2>2, <2>3, <2>4, NextCases
          DEF Reevaluate, ReevaluateReturns, Collect, LoopDone, vars
\* The handler's part of the shape.
<1>6. /\ f \in tracked' => flow'[f] \notin {"new", "allowed", "closed"}
      /\ f \notin tracked' => flow'[f] \in {"new", "begun", "deciding", "allowed", "closed"}
      /\ reqSt'[Handler(f)] # "idle" <=> flow'[f] \in {"deciding", "confirming"}
      /\ reqSt'[Handler(f)] # "idle" => reqPod'[Handler(f)] = flowPod[f]
      /\ flow'[f] = "confirming" => f \in flushed'
  <2>1. CASE ~HandlerStep(f)
    BY Zenon, <1>1, <1>2, <1>4, <2>1, FlowMoves, MarksKept DEF FlowShape
  <2>2. CASE HandlerStep(f)
    <3>1. OrgAuthorizer(Handler(f), flowPod[f]) =>
            reqSt'[Handler(f)] # "idle" /\ reqPod'[Handler(f)] = flowPod[f]
      BY Zenon, <1>1, <1>2, RequestStep
    <3>2. Consume(Handler(f)) => reqSt'[Handler(f)] = "idle"
      BY Zenon, <1>1, <1>2, RequestStep
    <3>3. UNCHANGED reqVars => reqSt' = reqSt /\ reqPod' = reqPod
      BY Zenon DEF reqVars
    <3>4. Begin(f) => UNCHANGED reqVars
      BY Zenon DEF Begin
    <3>5. f \in flushed => f \in flushed'
      BY Zenon, <1>1, MarksKept
    <3> QED BY Zenon, <1>2, <2>2, <3>1, <3>2, <3>3, <3>4, <3>5, OwnStep DEF FlowShape
  <2> QED BY Zenon, <2>1, <2>2
\* The loop's part.
<1>7. reqSt'[Loop(f)] # "idle" => f \in checks'[flowPod[f]] /\ reqPod'[Loop(f)] = flowPod[f]
  <2>1. CASE ~Recheck(f) /\ ~Rechecked(f)
    BY Zenon, <1>2, <1>5, <2>1, LoopMoves DEF FlowShape
  <2>2. CASE Recheck(f)
    <3>1. OrgAuthorizer(Loop(f), flowPod[f]) /\ f \in checks[flowPod[f]] /\ checks' = checks
      BY Zenon, <2>2 DEF Recheck, loopVars
    <3> QED BY Zenon, <1>1, <1>2, <3>1, RequestStep
  <2>3. CASE Rechecked(f)
    <3>1. Consume(Loop(f))
      BY Zenon, <2>3 DEF Rechecked, RecheckDone
    <3> QED BY Zenon, <1>1, <1>2, <3>1, RequestStep
  <2> QED BY Zenon, <2>1, <2>2, <2>3
<1>8. f \in checks'[flowPod[f]] => reeval'[flowPod[f]] = "check"
  <2>1. CASE Collect(flowPod[f])
    BY Zenon, <1>1, <1>2, <2>1 DEF Collect, TypeOK
  <2>2. CASE Rechecked(f)
    <3>1. reeval' = reeval /\ f \in checks[flowPod[f]]
      BY Zenon, <2>2 DEF Rechecked
    <3> QED BY Zenon, <1>2, <3>1 DEF FlowShape
  <2>3. CASE ~Collect(flowPod[f]) /\ ~Rechecked(f)
    BY Zenon, <1>2, <2>3, LoopMoves DEF FlowShape
  <2> QED BY Zenon, <2>1, <2>2, <2>3
<1> QED BY Zenon, <1>6, <1>7, <1>8 DEF FlowShape


\* The consumers' hooks of a pod are the tracker's.
LEMMA HooksByReevaluate ==
  ASSUME TypeOK, [Next]_vars, NEW x \in Workers, StartHooks(x)
  PROVE  Reevaluate(x)
<1>0. PolicyTypeOK /\ x \in DOMAIN pc /\ pc[x] = "notify" /\ pc'[x] = "hooks"
  BY Zenon DEF StartHooks, TypeOK, PolicyTypeOK
<1>1. ~Background
  BY Zenon, <1>0, PolicyStepHooks DEF Background
<1>2. ASSUME NEW f \in Flows, HandlerStep(f) PROVE pc' = pc
  BY Zenon, <1>2, HandlerAlone
<1>3. ASSUME NEW f \in Flows, Recheck(f) \/ Rechecked(f) PROVE pc' = pc
  BY Zenon, <1>3 DEF Recheck, Rechecked, RecheckDone, OrgAuthorizer, Consume, policyVars
<1>4. ASSUME NEW y \in Workers, ReevaluateReturns(y) PROVE FALSE
  BY Zenon, <1>0, <1>4 DEF ReevaluateReturns, HooksDone
<1>5. ASSUME NEW y \in Workers, Reevaluate(y) PROVE Reevaluate(x)
  BY Zenon, <1>0, <1>5 DEF Reevaluate, StartHooks
<1>6. ASSUME NEW p \in Pods, Collect(p) \/ LoopDone(p) PROVE pc' = pc
  BY Zenon, <1>6 DEF Collect, LoopDone, policyVars
<1>7. UNCHANGED vars => pc' = pc
  BY Zenon DEF vars, policyVars
<1> QED BY Zenon, <1>0, <1>1, <1>2, <1>3, <1>4, <1>5, <1>6, <1>7, NextCases

\* A notification that is coming to the pod of f keeps coming until it is made,
\* which notes the flush and sees to it that the loop collects f.
LEMMA NotifyMade ==
  ASSUME Shape, [Next]_vars, NEW f \in Flows, flowPod[f] \notin Lossy, NotifyComing(flowPod[f])
  PROVE  \/ NotifyComing(flowPod[f])'
         \/ /\ flow[f] # "new" => f \in flushed'
            /\ flowPod[f] \in pending' \/ reeval'[flowPod[f]] = "collect"
            /\ f \in checks[flowPod[f]] => flowPod[f] \in pending'
<1>0. /\ flowPod[f] \in Pods \ Lossy /\ PolicyTypeOK /\ TypeOK
      /\ reeval \in [Pods -> {"idle", "collect", "check"}]
      /\ f \in checks[flowPod[f]] => reeval[flowPod[f]] = "check"
  BY Zenon, FlowConstants DEF Shape, FlowShape, TypeOK
<1>1. SUFFICES ASSUME NEW x \in Workers, StartHooks(x), PodOf(x) = flowPod[f]
               PROVE  /\ flow[f] # "new" => f \in flushed'
                      /\ flowPod[f] \in pending' \/ reeval'[flowPod[f]] = "collect"
                      /\ f \in checks[flowPod[f]] => flowPod[f] \in pending'
  BY Zenon, <1>0, NextIsBase, NotifyComingKept
<1>2. Reevaluate(x)
  BY Zenon, <1>0, <1>1, HooksByReevaluate
<1> QED BY Zenon, <1>0, <1>1, <1>2 DEF Reevaluate

\* A decision for a flow gets old only when a notification is coming.
LEMMA Outdates ==
  ASSUME FlowInv, [Next]_vars, NEW f \in Flows, flowPod[f] \notin Lossy,
         NEW r \in {Handler(f), Loop(f)}, ReqStale(r)', ~ReqStale(r)
  PROVE  NotifyComing(flowPod[f])'
<1>1. Shape' /\ PolicyInv /\ BaseStep /\ flowPod[f] \in Pods \ Lossy /\ r \in Requests
  BY Zenon, ShapeStep, NextIsBase, RequestNames, FlowConstants DEF FlowInv
<1>2. reqSt'[r] # "idle"
  BY Zenon DEF ReqStale
<1>3. reqPod'[r] = flowPod[f]
  BY Zenon, <1>1, <1>2 DEF Shape, FlowShape
<1> QED BY Zenon, <1>1, <1>3, ReqStaleComing

\* What is stored changes only when a notification is coming.
LEMMA VerdictLost ==
  ASSUME Shape, [Next]_vars, NEW f \in Flows, f \in okNow, f \notin okNow',
         flow'[f] # "closed"
  PROVE  NotifyComing(flowPod[f])'
<1>1. policy' # policy \/ facts' # facts
  BY Zenon, MarksKept DEF Shape
<1>2. ClearComing(flowPod[f])'
  BY Zenon, <1>1, NextIsBase, ChangeComing, FlowConstants DEF Shape, TypeOK
<1> QED BY Zenon, <1>2 DEF NotifyComing

\* A request that rests on what is stored now confirms it.
LEMMA FreshConfirms ==
  ASSUME NEW r \in Requests, reqSt[r] = "decided", ~ReqStale(r)
  PROVE  Confirms(r)
BY Zenon DEF ReqStale, Confirms

\* A re-evaluation that rests on something old is going to be repeated: while it
\* runs the loop cannot end, so a flush leaves its note in pending.
LEMMA LoopCurrentStep ==
  ASSUME FlowInv, [Next]_vars, NEW f \in Flows, flowPod[f] \notin Lossy
  PROVE  LoopCurrent(f)'
<1> SUFFICES ASSUME ReqStale(Loop(f))'
             PROVE  NotifyComing(flowPod[f])' \/ flowPod[f] \in pending'
  BY Zenon DEF LoopCurrent
<1>1. CASE ~ReqStale(Loop(f))
  BY Zenon, <1>1, Outdates
<1>2. CASE ReqStale(Loop(f))
  <2>1. reqSt[Loop(f)] # "idle"
    BY Zenon, <1>2 DEF ReqStale
  <2>2. Shape /\ f \in checks[flowPod[f]] /\ LoopCurrent(f)
    BY Zenon, <2>1 DEF FlowInv, Shape, FlowShape
  <2>3. CASE NotifyComing(flowPod[f])
    BY Zenon, <2>2, <2>3, NotifyMade
  <2>4. CASE flowPod[f] \in pending
    BY Zenon, <2>2, <2>4, LoopMoves
  <2> QED BY Zenon, <1>2, <2>2, <2>3, <2>4 DEF LoopCurrent
<1> QED BY Zenon, <1>1, <1>2

\* A re-evaluation that is on the way to a tracked flow stays so until it has
\* confirmed the flow or revoked it.
LEMMA DueKept ==
  ASSUME FlowInv, [Next]_vars, NEW f \in Flows, flowPod[f] \notin Lossy,
         f \in tracked \ revoked, Due(f)
  PROVE  Due(f)' \/ f \in okNow' \/ f \in revoked'
<1>0. /\ Shape /\ LoopCurrent(f) /\ flowPod[f] \in Pods /\ Loop(f) \in Requests
      /\ Loop(f)[1] = f /\ checks \in [Pods -> SUBSET Flows]
  BY Zenon, FlowConstants, RequestNames DEF FlowInv, Shape, TypeOK
<1>1. CASE NotifyComing(flowPod[f])
  BY Zenon, <1>0, <1>1, NotifyMade DEF Due
<1>2. CASE flowPod[f] \in pending
  BY Zenon, <1>0, <1>2, LoopMoves DEF Due
<1>3. CASE reeval[flowPod[f]] = "collect"
  <2>1. Collect(flowPod[f]) => f \in checks'[flowPod[f]]
    BY Zenon, <1>0 DEF Collect
  <2> QED BY Zenon, <1>0, <1>3, <2>1, LoopMoves DEF Due
<1>4. CASE f \in checks[flowPod[f]]
  <2>1. CASE ~Rechecked(f)
    BY Zenon, <1>0, <1>4, <2>1, LoopMoves DEF Due
  <2>2. CASE Rechecked(f)
    <3>1. \/ checks' = checks
          \/ reqSt[Loop(f)] = "decided" /\ (Confirms(Loop(f)) => f \in okNow')
          \/ f \in revoked'
      BY Zenon, <1>0, <2>2 DEF Rechecked, RecheckDone
    <3>2. CASE ReqStale(Loop(f))
      BY Zenon, <1>0, <1>1, <1>2, <3>2 DEF LoopCurrent
    <3> QED BY Zenon, <1>0, <1>4, <3>1, <3>2, FreshConfirms DEF Due
  <2> QED BY Zenon, <2>1, <2>2
<1> QED BY Zenon, <1>1, <1>2, <1>3, <1>4 DEF Due


\* A tracked flow whose handler rests on something old stays due.
LEMMA TrackedStep ==
  ASSUME FlowInv, [Next]_vars, NEW f \in Flows, flowPod[f] \notin Lossy
  PROVE  TrackedCurrent(f)'
<1> SUFFICES ASSUME f \in tracked', f \notin revoked', f \notin okNow', flow'[f] # "tracked",
                    Outdated(f)'
             PROVE  Due(f)'
  BY Zenon DEF TrackedCurrent
<1>0. /\ Shape /\ Shape' /\ TypeOK /\ FlowShape(f) /\ FlowShape(f)'
      /\ TrackedCurrent(f) /\ UpgradeCurrent(f) /\ Handler(f) \in Requests
  BY Zenon, ShapeStep, RequestNames DEF FlowInv, Shape
<1>1. f \notin revoked /\ flow'[f] # "closed"
  BY Zenon, <1>0, MarksKept DEF FlowShape
<1>2. CASE f \in okNow
  BY Zenon, <1>0, <1>1, <1>2, VerdictLost DEF Due
<1>3. CASE NotifyComing(flowPod[f])' \/ (f \in tracked /\ Due(f))
  BY Zenon, <1>1, <1>3, DueKept DEF Due
<1>4. ASSUME f \notin okNow, f \notin tracked PROVE FALSE
  BY Zenon, <1>0, <1>4, FlowMoves, OwnStep DEF FlowShape, Outdated
<1>5. ASSUME f \in tracked, flow[f] = "tracked", f \notin okNow
      PROVE  NotifyComing(flowPod[f])' \/ Due(f)
  <2>1. HandlerStep(f)
    BY Zenon, <1>0, <1>5, FlowMoves
  <2>2. CASE f \in flushed
    <3>1. flow'[f] = "confirming"
      BY Zenon, <1>0, <1>1, <1>5, <2>1, <2>2, OwnStep
    <3>2. ReqStale(Handler(f))'
      BY Zenon, <3>1 DEF Outdated
    <3>3. ~ReqStale(Handler(f))
      BY Zenon, <1>0, <1>5 DEF FlowShape, ReqStale
    <3> QED BY Zenon, <3>2, <3>3, Outdates
  <2>3. CASE f \notin flushed
    BY Zenon, <1>0, <1>5, <2>3 DEF UpgradeCurrent, Outdated, Due
  <2> QED BY Zenon, <2>2, <2>3
<1>6. ASSUME f \in tracked, flow[f] # "tracked", f \notin okNow, Outdated(f)
      PROVE  Due(f)
  BY Zenon, <1>0, <1>1, <1>6 DEF TrackedCurrent
<1>7. ASSUME f \in tracked, flow[f] # "tracked", f \notin okNow, ~Outdated(f)
      PROVE  NotifyComing(flowPod[f])'
  <2>1. ~ReqStale(Handler(f))
    BY Zenon, <1>0, <1>7 DEF FlowShape, Outdated, ReqStale
  <2>2. reqSt[Handler(f)] = "decided" => Confirms(Handler(f))
    BY Zenon, <1>0, <2>1, FreshConfirms
  <2>3. flow'[f] \in {"deciding", "confirming"}
    BY Zenon, <1>0, <1>1, <1>7, <2>2, FlowMoves, OwnStep DEF FlowShape, Outdated
  <2>4. ReqStale(Handler(f))'
    BY Zenon, <2>3 DEF Outdated
  <2> QED BY Zenon, <2>1, <2>4, Outdates
<1> QED BY Zenon, <1>2, <1>3, <1>4, <1>5, <1>6, <1>7

\* An upgrade that rests on something old has been flushed, or will be.
LEMMA UpgradeStep ==
  ASSUME FlowInv, [Next]_vars, NEW f \in Flows, flowPod[f] \notin Lossy
  PROVE  UpgradeCurrent(f)'
<1> SUFFICES ASSUME f \notin tracked' \/ flow'[f] = "tracked", f \notin okNow', Outdated(f)'
             PROVE  f \in flushed' \/ NotifyComing(flowPod[f])'
  BY Zenon DEF UpgradeCurrent
<1>0. /\ Shape /\ Shape' /\ TypeOK /\ FlowShape(f) /\ FlowShape(f)'
      /\ UpgradeCurrent(f) /\ Handler(f) \in Requests
      /\ (f \in flushed => f \in flushed')
  BY Zenon, ShapeStep, RequestNames, MarksKept DEF FlowInv, Shape
<1>1. flow'[f] \in {"deciding", "allowed", "tracked"}
  BY Zenon, <1>0 DEF FlowShape, Outdated
<1>2. CASE f \in okNow
  BY Zenon, <1>0, <1>1, <1>2, VerdictLost
<1>3. ASSUME f \notin okNow, Outdated(f), f \notin tracked \/ flow[f] = "tracked"
      PROVE  f \in flushed' \/ NotifyComing(flowPod[f])'
  <2>1. f \in flushed \/ NotifyComing(flowPod[f])
    BY Zenon, <1>0, <1>3 DEF UpgradeCurrent
  <2>2. flow[f] # "new"
    BY Zenon, <1>3 DEF Outdated
  <2> QED BY Zenon, <1>0, <2>1, <2>2, NotifyMade
<1>4. ASSUME f \in tracked, flow[f] # "tracked" PROVE f \in flushed
  BY Zenon, <1>0, <1>1, <1>4, FlowMoves, OwnStep DEF FlowShape
<1>5. ASSUME f \notin okNow, ~Outdated(f), f \notin tracked \/ flow[f] = "tracked"
      PROVE  NotifyComing(flowPod[f])'
  <2>1. ~ReqStale(Handler(f)) /\ flow[f] # "tracked"
    BY Zenon, <1>0, <1>5 DEF FlowShape, Outdated, ReqStale
  <2>2. reqSt[Handler(f)] = "decided" => Confirms(Handler(f))
    BY Zenon, <1>0, <2>1, FreshConfirms
  <2>3. flow'[f] = "deciding"
    BY Zenon, <1>0, <1>1, <1>5, <2>1, <2>2, FlowMoves, OwnStep DEF FlowShape, Outdated
  <2>4. ReqStale(Handler(f))'
    BY Zenon, <2>3 DEF Outdated
  <2> QED BY Zenon, <2>1, <2>4, Outdates
<1> QED BY Zenon, <1>0, <1>2, <1>3, <1>4, <1>5

\* At first there are no flows.
LEMMA FlowInit == Init => FlowInv
<1> SUFFICES ASSUME Init PROVE FlowInv
  OBVIOUS
<1>1. PolicyInv
  BY Zenon, PolicyInvInit, PolicyConstants DEF Init
<1>2. TypeOK
  <2>1. PolicyTypeOK
    BY Zenon, <1>1 DEF PolicyInv
  <2>2. tries \in [Requests -> 0..(recheckAttempts - 1)]
    BY SMT, FlowConstants DEF Init
  <2> QED BY Zenon, <2>1, <2>2 DEF Init, TypeOK, Stages
<1>3. ASSUME NEW f \in Flows
      PROVE  /\ flow[f] = "new" /\ f \notin tracked /\ checks[flowPod[f]] = {}
             /\ reqSt[Handler(f)] = "idle" /\ reqSt[Loop(f)] = "idle"
  BY Zenon, RequestNames, FlowConstants DEF Init, PolicyInit
<1> QED BY Zenon, <1>1, <1>2, <1>3 DEF FlowInv, Shape, FlowShape, TrackedCurrent, UpgradeCurrent,
           LoopCurrent, Outdated, ReqStale

\* The inductive invariant of the tracker, its callers and the policy caches.
THEOREM FlowInvariant == Spec => []FlowInv
<1>1. FlowInv /\ [Next]_vars => FlowInv'
  <2> SUFFICES ASSUME FlowInv, [Next]_vars PROVE FlowInv'
    OBVIOUS
  <2>1. Shape' /\ PolicyInv'
    BY Zenon, ShapeStep, NextIsBase, PolicyInvStep DEF FlowInv
  <2> QED BY Zenon, <2>1, TrackedStep, UpgradeStep, LoopCurrentStep DEF FlowInv
<1> QED BY <1>1, FlowInit, PTL DEF Spec

\* For any pods, writers and flows: at a pod whose subscription works, a spliced
\* flow is allowed by the stored policy and facts, or revoked, or its
\* re-evaluation is on the way, in whatever order Track, the decision, Confirm,
\* Reevaluate and the loop run.
THEOREM SplicedFlowSafe == Spec => []SplicedFlowCurrent
<1>1. FlowInv => SplicedFlowCurrent
  <2> SUFFICES ASSUME FlowInv, NEW f \in Flows, flow[f] = "spliced",
                      f \notin revoked, f \notin okNow, flowPod[f] \notin Lossy
               PROVE  Due(f)
    BY Zenon DEF SplicedFlowCurrent, Due
  <2>1. f \in tracked
    BY Zenon DEF FlowInv, Shape, FlowShape
  <2> QED BY Zenon, <2>1 DEF FlowInv, TrackedCurrent, Outdated
<1> QED BY <1>1, FlowInvariant, PTL

=============================================================================
