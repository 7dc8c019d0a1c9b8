-------------------------- MODULE PolicyCacheProofs --------------------------
(***************************************************************************)
(* What every consumer of decisions may rely on, whatever it does with the *)
(* flush hooks: the cached policy of a pod, the loads in flight and the    *)
(* decisions in progress are either up to date or about to be told.        *)
(***************************************************************************)
EXTENDS PolicyCache, TLAPS

\* A step of the part modelled in PolicyCache, taken alone or together with
\* the consumer of decisions.
BaseStep ==
  \/ PolicyStep
  \/ \E x \in Workers : (StartHooks(x) \/ HooksDone(x)) /\ UNCHANGED reqVars
  \/ \E r \in Requests, p \in Pods : OrgAuthorizer(r, p)
  \/ \E r \in Requests : Consume(r)
  \/ UNCHANGED <<policyVars, reqVars>>

\* A load of the current generation that read an old policy will be outdated
\* by a coming clear; no load is ahead of its pod's generation.
LoadsCurrent ==
  \A l \in authzLoads :
    /\ l.gen <= authzGen[l.pod]
    /\ l.pod \notin Lossy /\ l.gen = authzGen[l.pod] /\ l.az \notin {None, policy}
         => ClearComing(l.pod)

ReqGens == \A r \in Requests : reqSt[r] = "load" => reqGen[r] <= authzGen[reqPod[r]]

PolicyInv == PolicyTypeOK /\ AuthzCacheCurrent /\ LoadsCurrent /\ ReqGens

\* What decision r rests on, or will rest on, is not what is stored now.
ReqStale(r) ==
  \/ reqSt[r] = "load" /\ reqGen[r] # authzGen[reqPod[r]]
  \/ reqSt[r] \in {"load", "facts", "decided"} /\ reqFx[r] # facts
  \/ reqSt[r] \in {"facts", "decided"} /\ reqAz[r] # policy

-----------------------------------------------------------------------------

\* Every worker runs at a pod.
LEMMA PodOfType == \A x \in Workers : PodOf(x) \in Pods
BY PolicyConstants DEF PodOf, Workers

\* The subscriber of a pod runs at that pod.
LEMMA PodOfPod == \A p \in Pods : PodOf(p) = p
BY PolicyConstants DEF PodOf

\* A writer runs at its home.
LEMMA PodOfWriter == \A w \in Writers : PodOf(w) = home[w] /\ home[w] \in Pods
BY PolicyConstants DEF PodOf

\* The types hold at the start.
LEMMA PolicyTypeInit == ASSUME Pods # {} PROVE PolicyInit => PolicyTypeOK
<1>. SUFFICES ASSUME PolicyInit PROVE PolicyTypeOK
  OBVIOUS
<1>1. (CHOOSE p \in Pods : TRUE) \in Pods
  OBVIOUS
<1>. QED  BY <1>1, PolicyConstants DEF PolicyInit, PolicyTypeOK, None, Load, Workers

\* Steps keep the types.
LEMMA PolicyTypeStep == PolicyTypeOK /\ BaseStep => PolicyTypeOK'
<1>. SUFFICES ASSUME PolicyTypeOK, BaseStep PROVE PolicyTypeOK'
  OBVIOUS
<1>. USE DEF PolicyTypeOK, policyVars, reqVars
<1>0. Writers \subseteq Workers /\ Pods \subseteq Workers
  BY DEF Workers
<1>1. ASSUME NEW w \in Writers, SetOrgPolicy(w) PROVE PolicyTypeOK'
  BY <1>0, <1>1, PolicyConstants DEF SetOrgPolicy
<1>2. ASSUME NEW w \in Writers, SetFacts(w) PROVE PolicyTypeOK'
  BY <1>0, <1>2, PolicyConstants DEF SetFacts
<1>3. ASSUME NEW w \in Writers, InvalidateAuthz(w) PROVE PolicyTypeOK'
  BY <1>0, <1>3, PolicyConstants DEF InvalidateAuthz, ClearAuthzCache
<1>4. ASSUME NEW w \in Writers, Broadcast(w) PROVE PolicyTypeOK'
  BY <1>0, <1>4, PolicyConstants DEF Broadcast
<1>5. ASSUME NEW x \in Workers, FlushLocal(x) PROVE PolicyTypeOK'
  BY <1>0, <1>5, PodOfType DEF FlushLocal, ClearAuthzCache
<1>6. ASSUME NEW p \in Pods, HandleRemoteFlush(p) PROVE PolicyTypeOK'
  BY <1>0, <1>6 DEF HandleRemoteFlush
<1>7. ASSUME NEW p \in Pods, ExpireAuthz(p) PROVE PolicyTypeOK'
  BY <1>7 DEF ExpireAuthz
<1>8. ASSUME NEW l \in authzLoads, LoadOrgAuthorizer(l) PROVE PolicyTypeOK'
  <2>1. l \in Load /\ [l EXCEPT !.az = policy] \in Load
    BY DEF Load
  <2>. QED  BY <1>8, <2>1 DEF LoadOrgAuthorizer
<1>9. ASSUME NEW l \in authzLoads, FinishAuthzLoad(l) PROVE PolicyTypeOK'
  <2>1. l.pod \in Pods /\ l.az \in (0..MaxPolicy) \cup {None}
    BY DEF Load
  <2>. QED  BY <1>9, <2>1 DEF FinishAuthzLoad
<1>10. ASSUME NEW l \in authzLoads, FailAuthzLoad(l) PROVE PolicyTypeOK'
  BY <1>10 DEF FailAuthzLoad
<1>11. ASSUME NEW r \in Requests, ReadFacts(r) PROVE PolicyTypeOK'
  BY <1>11 DEF ReadFacts
<1>12. ASSUME NEW r \in Requests, DecideFails(r) PROVE PolicyTypeOK'
  BY <1>12 DEF DecideFails
<1>13. ASSUME NEW x \in Workers, StartHooks(x), UNCHANGED reqVars PROVE PolicyTypeOK'
  BY <1>13 DEF StartHooks
<1>14. ASSUME NEW x \in Workers, HooksDone(x), UNCHANGED reqVars PROVE PolicyTypeOK'
  BY <1>14 DEF HooksDone
<1>15. ASSUME NEW r \in Requests, NEW p \in Pods, OrgAuthorizer(r, p) PROVE PolicyTypeOK'
  <2>1. [pod |-> p, gen |-> authzGen[p], az |-> None] \in Load
    BY DEF Load
  <2>. QED  BY <1>15, <2>1 DEF OrgAuthorizer
<1>16. ASSUME NEW r \in Requests, Consume(r) PROVE PolicyTypeOK'
  BY <1>16 DEF Consume
<1>17. CASE UNCHANGED <<policyVars, reqVars>>
  BY <1>17
<1>. HIDE DEF PolicyTypeOK, policyVars
<1>. QED
  BY <1>1, <1>2, <1>3, <1>4, <1>5, <1>6, <1>7, <1>8, <1>9, <1>10, <1>11, <1>12,
     <1>13, <1>14, <1>15, <1>16, <1>17 DEF BaseStep, PolicyStep

-----------------------------------------------------------------------------
(* What a step does to each variable.                                      *)

\* The stages of a writer: it invalidates, clears, tells the hooks, publishes.
LEMMA WriterMoves ==
  ASSUME PolicyTypeOK, BaseStep, NEW w \in Writers
  PROVE  \/ pc'[w] = pc[w]
         \/ pc[w] = "idle" /\ pc'[w] \in {"invalidate", "clear"}
         \/ pc[w] = "invalidate" /\ pc'[w] = "clear"
         \/ pc[w] = "clear" /\ pc'[w] = "notify" /\ FlushLocal(w)
         \/ pc[w] = "notify" /\ pc'[w] = "hooks" /\ StartHooks(w)
         \/ pc[w] = "hooks" /\ pc'[w] = "publish"
         \/ Broadcast(w)
<1>. DEFINE Goal == \/ pc'[w] = pc[w]
                    \/ pc[w] = "idle" /\ pc'[w] \in {"invalidate", "clear"}
                    \/ pc[w] = "invalidate" /\ pc'[w] = "clear"
                    \/ pc[w] = "clear" /\ pc'[w] = "notify" /\ FlushLocal(w)
                    \/ pc[w] = "notify" /\ pc'[w] = "hooks" /\ StartHooks(w)
                    \/ pc[w] = "hooks" /\ pc'[w] = "publish"
                    \/ Broadcast(w)
<1>0. w \in Workers /\ w \in DOMAIN pc
  BY DEF PolicyTypeOK, Workers
<1>1. ASSUME NEW v \in Writers, SetOrgPolicy(v) \/ SetFacts(v) \/ InvalidateAuthz(v)
      PROVE  Goal
  BY <1>0, <1>1 DEF SetOrgPolicy, SetFacts, InvalidateAuthz
<1>2. ASSUME NEW v \in Writers, Broadcast(v) PROVE Goal
  <2>1. CASE v = w
    BY <1>2, <2>1
  <2>2. CASE v # w
    BY <1>0, <1>2, <2>2 DEF Broadcast
  <2>. QED  BY <2>1, <2>2
<1>3. ASSUME NEW x \in Workers, FlushLocal(x) PROVE Goal
  <2>1. CASE x = w
    BY <1>0, <1>3, <2>1 DEF FlushLocal
  <2>2. CASE x # w
    BY <1>0, <1>3, <2>2 DEF FlushLocal
  <2>. QED  BY <2>1, <2>2
<1>4. ASSUME NEW x \in Workers, StartHooks(x) PROVE Goal
  <2>1. CASE x = w
    BY <1>0, <1>4, <2>1 DEF StartHooks
  <2>2. CASE x # w
    BY <1>0, <1>4, <2>2 DEF StartHooks
  <2>. QED  BY <2>1, <2>2
<1>5. ASSUME NEW x \in Workers, HooksDone(x) PROVE Goal
  BY <1>0, <1>5 DEF HooksDone
<1>6. ASSUME NEW p \in Pods, HandleRemoteFlush(p) PROVE Goal
  <2>1. p # w
    BY PolicyConstants
  <2>. QED  BY <1>0, <1>6, <2>1 DEF HandleRemoteFlush
<1>7. ASSUME pc' = pc PROVE Goal
  BY <1>7
<1>. HIDE DEF Goal
<1>8. Goal
  BY <1>1, <1>2, <1>3, <1>4, <1>5, <1>6, <1>7
     DEF BaseStep, PolicyStep, ExpireAuthz, LoadOrgAuthorizer, FinishAuthzLoad,
         FailAuthzLoad, ReadFacts, DecideFails, OrgAuthorizer, Consume, policyVars
<1>. QED  BY <1>8 DEF Goal

\* The stages of a subscriber; a message leaves the inbox only to be acted on.
LEMMA PodMoves ==
  ASSUME PolicyTypeOK, BaseStep, NEW p \in Pods
  PROVE  /\ \/ pc'[p] = pc[p]
            \/ pc[p] = "idle" /\ pc'[p] = "clear"
            \/ pc[p] = "clear" /\ pc'[p] = "notify" /\ FlushLocal(p)
            \/ pc[p] = "notify" /\ pc'[p] = "hooks" /\ StartHooks(p)
            \/ pc[p] = "hooks" /\ pc'[p] = "idle"
         /\ inbox'[p] >= inbox[p] \/ pc'[p] = "clear"
<1>. DEFINE Pc == \/ pc'[p] = pc[p]
                  \/ pc[p] = "idle" /\ pc'[p] = "clear"
                  \/ pc[p] = "clear" /\ pc'[p] = "notify" /\ FlushLocal(p)
                  \/ pc[p] = "notify" /\ pc'[p] = "hooks" /\ StartHooks(p)
                  \/ pc[p] = "hooks" /\ pc'[p] = "idle"
            Inbox == inbox'[p] >= inbox[p] \/ pc'[p] = "clear"
<1>0. p \in Workers /\ p \in DOMAIN pc /\ p \notin Writers /\ inbox[p] \in Nat
  BY PolicyConstants DEF PolicyTypeOK, Workers
<1>1. ASSUME NEW v \in Writers, SetOrgPolicy(v) \/ SetFacts(v) \/ InvalidateAuthz(v)
      PROVE  Pc /\ Inbox
  BY <1>0, <1>1 DEF SetOrgPolicy, SetFacts, InvalidateAuthz
<1>2. ASSUME NEW v \in Writers, Broadcast(v) PROVE Pc /\ Inbox
  BY <1>0, <1>2 DEF Broadcast
<1>3. ASSUME NEW x \in Workers, FlushLocal(x) PROVE Pc /\ Inbox
  <2>1. CASE x = p
    BY <1>0, <1>3, <2>1 DEF FlushLocal
  <2>2. CASE x # p
    BY <1>0, <1>3, <2>2 DEF FlushLocal
  <2>. QED  BY <2>1, <2>2
<1>4. ASSUME NEW x \in Workers, StartHooks(x) PROVE Pc /\ Inbox
  <2>1. CASE x = p
    BY <1>0, <1>4, <2>1 DEF StartHooks
  <2>2. CASE x # p
    BY <1>0, <1>4, <2>2 DEF StartHooks
  <2>. QED  BY <2>1, <2>2
<1>5. ASSUME NEW x \in Workers, HooksDone(x) PROVE Pc /\ Inbox
  BY <1>0, <1>5 DEF HooksDone
<1>6. ASSUME NEW q \in Pods, HandleRemoteFlush(q) PROVE Pc /\ Inbox
  BY <1>0, <1>6 DEF HandleRemoteFlush, PolicyTypeOK
<1>7. ASSUME pc' = pc, inbox' = inbox PROVE Pc /\ Inbox
  BY <1>0, <1>7
<1>. HIDE DEF Pc, Inbox
<1>8. Pc /\ Inbox
  BY <1>1, <1>2, <1>3, <1>4, <1>5, <1>6, <1>7
     DEF BaseStep, PolicyStep, ExpireAuthz, LoadOrgAuthorizer, FinishAuthzLoad,
         FailAuthzLoad, ReadFacts, DecideFails, OrgAuthorizer, Consume, policyVars
<1>. QED  BY <1>8 DEF Pc, Inbox

\* Generations grow, and only with a clear of the cache.
LEMMA GenStep ==
  ASSUME PolicyTypeOK, BaseStep, NEW p \in Pods
  PROVE  /\ authzGen'[p] >= authzGen[p]
         /\ authzGen'[p] # authzGen[p] =>
              \/ \E w \in Writers : InvalidateAuthz(w) /\ home[w] = p
              \/ \E x \in Workers : FlushLocal(x) /\ PodOf(x) = p
<1>. DEFINE Goal == /\ authzGen'[p] >= authzGen[p]
                    /\ authzGen'[p] # authzGen[p] =>
                         \/ \E w \in Writers : InvalidateAuthz(w) /\ home[w] = p
                         \/ \E x \in Workers : FlushLocal(x) /\ PodOf(x) = p
<1>0. authzGen \in [Pods -> Nat]
  BY DEF PolicyTypeOK
<1>1. ASSUME NEW w \in Writers, InvalidateAuthz(w) PROVE Goal
  <2>1. home[w] \in Pods
    BY PodOfWriter
  <2>2. authzGen' = [authzGen EXCEPT ![home[w]] = @ + 1]
    BY <1>1 DEF InvalidateAuthz, ClearAuthzCache
  <2>. QED  BY <1>0, <1>1, <2>1, <2>2
<1>2. ASSUME NEW x \in Workers, FlushLocal(x) PROVE Goal
  <2>1. PodOf(x) \in Pods
    BY PodOfType
  <2>2. authzGen' = [authzGen EXCEPT ![PodOf(x)] = @ + 1]
    BY <1>2 DEF FlushLocal, ClearAuthzCache
  <2>. QED  BY <1>0, <1>2, <2>1, <2>2
<1>3. ASSUME authzGen' = authzGen PROVE Goal
  BY <1>0, <1>3
<1>. HIDE DEF Goal
<1>4. Goal
  BY <1>1, <1>2, <1>3
     DEF BaseStep, PolicyStep, SetOrgPolicy, SetFacts, Broadcast, HandleRemoteFlush,
         ExpireAuthz, LoadOrgAuthorizer, FinishAuthzLoad, FailAuthzLoad, ReadFacts,
         DecideFails, StartHooks, HooksDone, OrgAuthorizer, Consume, policyVars
<1>. QED  BY <1>4 DEF Goal

\* A cache is filled only by a load of the generation it is at.
LEMMA CacheStep ==
  ASSUME PolicyTypeOK, BaseStep, NEW p \in Pods
  PROVE  /\ \/ authzCache'[p] = authzCache[p]
            \/ authzCache'[p] = None
            \/ \E l \in authzLoads : /\ FinishAuthzLoad(l) /\ Keeps(l)
                                     /\ l.pod = p /\ authzCache'[p] = l.az
         /\ \A x \in Workers : FlushLocal(x) /\ PodOf(x) = p => authzCache'[p] = None
<1>. DEFINE Goal == \/ authzCache'[p] = authzCache[p]
                    \/ authzCache'[p] = None
                    \/ \E l \in authzLoads : /\ FinishAuthzLoad(l) /\ Keeps(l)
                                             /\ l.pod = p /\ authzCache'[p] = l.az
<1>0. p \in DOMAIN authzCache
  BY DEF PolicyTypeOK
<1>1. ASSUME NEW w \in Writers, InvalidateAuthz(w) PROVE Goal
  BY <1>0, <1>1 DEF InvalidateAuthz, ClearAuthzCache
<1>2. ASSUME NEW x \in Workers, FlushLocal(x) PROVE Goal
  BY <1>0, <1>2 DEF FlushLocal, ClearAuthzCache
<1>3. ASSUME NEW q \in Pods, ExpireAuthz(q) PROVE Goal
  BY <1>0, <1>3 DEF ExpireAuthz
<1>4. ASSUME NEW l \in authzLoads, FinishAuthzLoad(l) PROVE Goal
  BY <1>0, <1>4 DEF FinishAuthzLoad
<1>5. ASSUME authzCache' = authzCache PROVE Goal
  BY <1>5
<1>. HIDE DEF Goal
<1>6. Goal
  BY <1>1, <1>2, <1>3, <1>4, <1>5
     DEF BaseStep, PolicyStep, SetOrgPolicy, SetFacts, Broadcast, HandleRemoteFlush,
         LoadOrgAuthorizer, FailAuthzLoad, ReadFacts,
         DecideFails, StartHooks, HooksDone, OrgAuthorizer, Consume, policyVars
<1>7. ASSUME NEW x \in Workers, FlushLocal(x), PodOf(x) = p PROVE authzCache'[p] = None
  BY <1>0, <1>7 DEF FlushLocal, ClearAuthzCache
<1>. QED  BY <1>6, <1>7 DEF Goal

\* What a step may do to the loads in flight.
LEMMA LoadStep ==
  ASSUME PolicyTypeOK, BaseStep, NEW k \in authzLoads'
  PROVE  /\ k \in Load
         /\ \/ k \in authzLoads
            \/ k.az = None /\ k.gen = authzGen[k.pod] /\ authzGen' = authzGen
            \/ /\ k.az = policy /\ policy' = policy /\ authzGen' = authzGen
               /\ \E l \in authzLoads : l.pod = k.pod /\ l.gen = k.gen
<1>. DEFINE Goal == \/ k \in authzLoads
                    \/ k.az = None /\ k.gen = authzGen[k.pod] /\ authzGen' = authzGen
                    \/ /\ k.az = policy /\ policy' = policy /\ authzGen' = authzGen
                       /\ \E l \in authzLoads : l.pod = k.pod /\ l.gen = k.gen
<1>0. k \in Load
  BY PolicyTypeStep DEF PolicyTypeOK
<1>1. ASSUME NEW l \in authzLoads, LoadOrgAuthorizer(l) PROVE Goal
  <2>1. l \in Load
    BY DEF PolicyTypeOK
  <2>2. k \in authzLoads \/ k = [l EXCEPT !.az = policy]
    BY <1>1 DEF LoadOrgAuthorizer
  <2>3. policy' = policy /\ authzGen' = authzGen
    BY <1>1 DEF LoadOrgAuthorizer
  <2>. QED  BY <2>1, <2>2, <2>3 DEF Load
<1>2. ASSUME NEW l \in authzLoads, FinishAuthzLoad(l) \/ FailAuthzLoad(l) PROVE Goal
  BY <1>2 DEF FinishAuthzLoad, FailAuthzLoad
<1>3. ASSUME NEW r \in Requests, NEW p \in Pods, OrgAuthorizer(r, p) PROVE Goal
  <2>1. k \in authzLoads \/ k = [pod |-> p, gen |-> authzGen[p], az |-> None]
    BY <1>3 DEF OrgAuthorizer
  <2>2. authzGen' = authzGen
    BY <1>3 DEF OrgAuthorizer
  <2>. QED  BY <2>1, <2>2
<1>4. ASSUME authzLoads' = authzLoads PROVE Goal
  BY <1>4
<1>. HIDE DEF Goal
<1>5. Goal
  BY <1>1, <1>2, <1>3, <1>4
     DEF BaseStep, PolicyStep, SetOrgPolicy, SetFacts, InvalidateAuthz, FlushLocal,
         Broadcast, HandleRemoteFlush, ExpireAuthz, ReadFacts,
         DecideFails, StartHooks, HooksDone, Consume, policyVars
<1>. QED  BY <1>0, <1>5 DEF Goal

\* What a step may do to a decision in progress.
LEMMA ReqStep ==
  ASSUME PolicyTypeOK, BaseStep, NEW r \in Requests
  PROVE  \/ /\ reqSt'[r] = reqSt[r] /\ reqPod'[r] = reqPod[r] /\ reqGen'[r] = reqGen[r]
            /\ reqAz'[r] = reqAz[r] /\ reqFx'[r] = reqFx[r]
         \/ \E p \in Pods : OrgAuthorizer(r, p)
         \/ /\ \E l \in authzLoads : /\ FinishAuthzLoad(l) /\ WaitsFor(r, l)
                                     /\ reqAz'[r] = l.az
            /\ reqSt'[r] = "facts" /\ reqPod'[r] = reqPod[r] /\ reqFx'[r] = reqFx[r]
         \/ /\ reqSt[r] = "facts" /\ reqSt'[r] = "decided" /\ reqPod'[r] = reqPod[r]
            /\ reqAz'[r] = reqAz[r] /\ reqFx'[r] \in {reqFx[r], facts}
            /\ policy' = policy /\ facts' = facts /\ authzGen' = authzGen
         \/ /\ reqSt'[r] \in {"unavailable", "idle"} /\ reqPod'[r] = reqPod[r]
            /\ reqAz'[r] = reqAz[r] /\ reqFx'[r] = reqFx[r]
<1>. DEFINE Same == /\ reqSt'[r] = reqSt[r] /\ reqPod'[r] = reqPod[r]
                    /\ reqGen'[r] = reqGen[r]
                    /\ reqAz'[r] = reqAz[r] /\ reqFx'[r] = reqFx[r]
            Begin == \E p \in Pods : OrgAuthorizer(r, p)
            Loaded == /\ \E l \in authzLoads : /\ FinishAuthzLoad(l) /\ WaitsFor(r, l)
                                               /\ reqAz'[r] = l.az
                      /\ reqSt'[r] = "facts" /\ reqPod'[r] = reqPod[r]
                      /\ reqFx'[r] = reqFx[r]
            Decided == /\ reqSt[r] = "facts" /\ reqSt'[r] = "decided"
                       /\ reqPod'[r] = reqPod[r] /\ reqAz'[r] = reqAz[r]
                       /\ reqFx'[r] \in {reqFx[r], facts}
                       /\ policy' = policy /\ facts' = facts /\ authzGen' = authzGen
            Ended == /\ reqSt'[r] \in {"unavailable", "idle"} /\ reqPod'[r] = reqPod[r]
                     /\ reqAz'[r] = reqAz[r] /\ reqFx'[r] = reqFx[r]
            Goal == Same \/ Begin \/ Loaded \/ Decided \/ Ended
<1>0. /\ r \in DOMAIN reqSt /\ r \in DOMAIN reqPod /\ r \in DOMAIN reqGen
      /\ r \in DOMAIN reqAz /\ r \in DOMAIN reqFx
  BY DEF PolicyTypeOK
<1>1. ASSUME NEW q \in Requests, NEW p \in Pods, OrgAuthorizer(q, p) PROVE Goal
  <2>1. CASE q = r
    BY <1>1, <2>1
  <2>2. CASE q # r
    BY <1>0, <1>1, <2>2 DEF OrgAuthorizer
  <2>. QED  BY <2>1, <2>2
<1>2. ASSUME NEW l \in authzLoads, FinishAuthzLoad(l) PROVE Goal
  BY <1>0, <1>2 DEF FinishAuthzLoad
<1>3. ASSUME NEW l \in authzLoads, FailAuthzLoad(l) PROVE Goal
  BY <1>0, <1>3 DEF FailAuthzLoad
<1>4. ASSUME NEW q \in Requests, ReadFacts(q) PROVE Goal
  <2>1. CASE q = r
    BY <1>0, <1>4, <2>1 DEF ReadFacts, policyVars
  <2>2. CASE q # r
    BY <1>0, <1>4, <2>2 DEF ReadFacts
  <2>. QED  BY <2>1, <2>2
<1>5. ASSUME NEW q \in Requests, DecideFails(q) \/ Consume(q) PROVE Goal
  BY <1>0, <1>5 DEF DecideFails, Consume
<1>6. ASSUME UNCHANGED reqVars PROVE Goal
  BY <1>6 DEF reqVars
<1>. HIDE DEF Goal
<1>7. Goal
  BY <1>1, <1>2, <1>3, <1>4, <1>5, <1>6
     DEF BaseStep, PolicyStep, SetOrgPolicy, SetFacts, InvalidateAuthz, FlushLocal,
         Broadcast, HandleRemoteFlush, ExpireAuthz, LoadOrgAuthorizer
<1>. QED  BY <1>7 DEF Goal

\* Without the consumer nobody starts a decision or moves it to another pod.
LEMMA PolicyStepReq ==
  ASSUME PolicyTypeOK, PolicyStep, NEW r \in Requests
  PROVE  /\ reqPod'[r] = reqPod[r]
         /\ reqSt[r] \in {"idle", "decided", "unavailable"} => reqSt'[r] = reqSt[r]
         /\ reqSt'[r] = "idle" => reqSt[r] = "idle"
<1>. DEFINE Goal == /\ reqPod'[r] = reqPod[r]
                    /\ reqSt[r] \in {"idle", "decided", "unavailable"} => reqSt'[r] = reqSt[r]
                    /\ reqSt'[r] = "idle" => reqSt[r] = "idle"
<1>0. r \in DOMAIN reqSt /\ r \in DOMAIN reqPod
  BY DEF PolicyTypeOK
<1>1. ASSUME NEW l \in authzLoads, FinishAuthzLoad(l) \/ FailAuthzLoad(l) PROVE Goal
  BY <1>0, <1>1 DEF FinishAuthzLoad, FailAuthzLoad, WaitsFor
<1>2. ASSUME NEW q \in Requests, ReadFacts(q) \/ DecideFails(q) PROVE Goal
  BY <1>0, <1>2 DEF ReadFacts, DecideFails
<1>3. ASSUME UNCHANGED reqVars PROVE Goal
  BY <1>3 DEF reqVars
<1>. HIDE DEF Goal
<1>4. Goal
  BY <1>1, <1>2, <1>3
     DEF PolicyStep, SetOrgPolicy, SetFacts, InvalidateAuthz, FlushLocal,
         Broadcast, HandleRemoteFlush, ExpireAuthz, LoadOrgAuthorizer
<1>. QED  BY <1>4 DEF Goal

\* Only the consumer starts hooks and waits for their end.
LEMMA PolicyStepHooks ==
  ASSUME PolicyTypeOK, PolicyStep, NEW x \in Workers, pc[x] \in {"notify", "hooks"}
  PROVE  pc'[x] = pc[x]
<1>0. x \in DOMAIN pc
  BY DEF PolicyTypeOK
<1>1. ASSUME NEW w \in Writers,
             SetOrgPolicy(w) \/ SetFacts(w) \/ InvalidateAuthz(w) \/ Broadcast(w)
      PROVE  pc'[x] = pc[x]
  BY <1>0, <1>1 DEF SetOrgPolicy, SetFacts, InvalidateAuthz, Broadcast
<1>2. ASSUME NEW y \in Workers, FlushLocal(y) PROVE pc'[x] = pc[x]
  BY <1>0, <1>2 DEF FlushLocal
<1>3. ASSUME NEW p \in Pods, HandleRemoteFlush(p) PROVE pc'[x] = pc[x]
  BY <1>0, <1>3 DEF HandleRemoteFlush
<1>4. ASSUME pc' = pc PROVE pc'[x] = pc[x]
  BY <1>4
<1>. QED
  BY <1>1, <1>2, <1>3, <1>4
     DEF PolicyStep, ExpireAuthz, LoadOrgAuthorizer, FinishAuthzLoad, FailAuthzLoad,
         ReadFacts, DecideFails, policyVars

-----------------------------------------------------------------------------
(* A coming clear, or a coming notification, is not lost on the way.       *)

\* A pending clear of a pod that misses no event stays pending until one of
\* the pod's workers performs it.
LEMMA ClearComingKept ==
  ASSUME PolicyTypeOK, BaseStep, NEW p \in Pods \ Lossy, ClearComing(p)
  PROVE  ClearComing(p)' \/ \E x \in Workers : FlushLocal(x) /\ PodOf(x) = p
<1>0. p \in Workers /\ PodOf(p) = p /\ inbox[p] \in Nat /\ inbox'[p] \in Nat
  BY PodOfPod, PolicyTypeStep DEF PolicyTypeOK, Workers
<1>1. ASSUME NEW w \in Writers, home[w] = p, pc[w] \in {"invalidate", "clear"}
      PROVE  ClearComing(p)' \/ \E x \in Workers : FlushLocal(x) /\ PodOf(x) = p
  <2>1. pc'[w] \in {"invalidate", "clear"} \/ FlushLocal(w)
    BY <1>1, WriterMoves DEF Broadcast
  <2>2. w \in Workers /\ PodOf(w) = p
    BY <1>1, PodOfWriter DEF Workers
  <2>. QED  BY <1>1, <2>1, <2>2 DEF ClearComing
<1>2. ASSUME NEW w \in Writers, home[w] # p, pc[w] # "idle"
      PROVE  ClearComing(p)'
  <2>1. CASE Broadcast(w)
    <3>1. inbox'[p] = inbox[p] + 1
      BY <1>2, <2>1 DEF Broadcast
    <3>. QED  BY <1>0, <3>1 DEF ClearComing
  <2>2. CASE ~Broadcast(w)
    <3>1. pc'[w] # "idle"
      BY <1>2, <2>2, WriterMoves
    <3>. QED  BY <1>2, <3>1 DEF ClearComing
  <2>. QED  BY <2>1, <2>2
<1>3. ASSUME inbox[p] > 0 PROVE ClearComing(p)'
  BY <1>0, <1>3, PodMoves DEF ClearComing
<1>4. ASSUME pc[p] = "clear"
      PROVE  ClearComing(p)' \/ \E x \in Workers : FlushLocal(x) /\ PodOf(x) = p
  BY <1>0, <1>4, PodMoves DEF ClearComing
<1>. QED  BY <1>1, <1>2, <1>3, <1>4 DEF ClearComing

\* A pending notification stays pending until the pod's hooks are started.
LEMMA NotifyComingKept ==
  ASSUME PolicyTypeOK, BaseStep, NEW p \in Pods \ Lossy, NotifyComing(p)
  PROVE  NotifyComing(p)' \/ \E x \in Workers : StartHooks(x) /\ PodOf(x) = p
<1>1. ASSUME NEW x \in Workers, FlushLocal(x), PodOf(x) = p PROVE NotifyComing(p)'
  <2>1. pc'[x] = "notify"
    BY <1>1 DEF FlushLocal, PolicyTypeOK
  <2>. QED  BY <1>1, <2>1 DEF NotifyComing, PodOf
<1>2. CASE ClearComing(p)
  BY <1>1, <1>2, ClearComingKept DEF NotifyComing
<1>3. ASSUME NEW x \in Workers, PodOf(x) = p, pc[x] = "notify"
      PROVE  NotifyComing(p)' \/ StartHooks(x)
  <2>1. pc'[x] = "notify" \/ StartHooks(x)
    BY <1>3, WriterMoves, PodMoves DEF Workers, Broadcast
  <2>. QED  BY <1>3, <2>1 DEF NotifyComing, PodOf
<1>. QED  BY <1>2, <1>3 DEF NotifyComing

\* Whoever changes the policy or the facts has every pod told.
LEMMA ChangeComing ==
  ASSUME PolicyTypeOK, BaseStep, NEW p \in Pods, policy' # policy \/ facts' # facts
  PROVE  ClearComing(p)'
<1>1. PICK w \in Writers : SetOrgPolicy(w) \/ SetFacts(w)
  BY DEF BaseStep, PolicyStep, InvalidateAuthz, FlushLocal,
         Broadcast, HandleRemoteFlush, ExpireAuthz, LoadOrgAuthorizer, FinishAuthzLoad,
         FailAuthzLoad, ReadFacts, DecideFails, StartHooks, HooksDone, OrgAuthorizer,
         Consume, policyVars
<1>2. pc'[w] \in {"invalidate", "clear"}
  BY <1>1 DEF SetOrgPolicy, SetFacts, PolicyTypeOK, Workers
<1>. QED  BY <1>2 DEF ClearComing

\* A pod whose generation moves is about to run its hooks.
LEMMA GenComing ==
  ASSUME PolicyTypeOK, BaseStep, NEW p \in Pods, authzGen'[p] # authzGen[p]
  PROVE  NotifyComing(p)'
<1>1. ASSUME NEW w \in Writers, InvalidateAuthz(w), home[w] = p PROVE NotifyComing(p)'
  <2>1. pc'[w] = "clear"
    BY <1>1 DEF InvalidateAuthz, PolicyTypeOK, Workers
  <2>. QED  BY <1>1, <2>1 DEF NotifyComing, ClearComing
<1>2. ASSUME NEW x \in Workers, FlushLocal(x), PodOf(x) = p PROVE NotifyComing(p)'
  <2>1. pc'[x] = "notify"
    BY <1>2 DEF FlushLocal, PolicyTypeOK
  <2>. QED  BY <1>2, <2>1 DEF NotifyComing, PodOf
<1>. QED  BY <1>1, <1>2, GenStep

-----------------------------------------------------------------------------
(* The invariant of a pod's policy cache.                                  *)

\* The invariant holds at the start.
LEMMA PolicyInvInit == ASSUME Pods # {} PROVE PolicyInit => PolicyInv
<1>. SUFFICES ASSUME PolicyInit PROVE PolicyInv
  OBVIOUS
<1>1. PolicyTypeOK
  BY PolicyTypeInit
<1>2. AuthzCacheCurrent /\ LoadsCurrent /\ ReqGens
  BY DEF PolicyInit, AuthzCacheCurrent, LoadsCurrent, ReqGens
<1>. QED  BY <1>1, <1>2 DEF PolicyInv

\* Every step keeps the cached policy, the loads and the waiting decisions in
\* line with what is stored or about to be told otherwise.
LEMMA PolicyInvStep == PolicyInv /\ BaseStep => PolicyInv'
<1>. SUFFICES ASSUME PolicyInv, BaseStep PROVE PolicyInv'
  OBVIOUS
<1>0. PolicyTypeOK /\ PolicyTypeOK'
  BY PolicyTypeStep DEF PolicyInv
<1>1. AuthzCacheCurrent'
  <2>. SUFFICES ASSUME NEW p \in Pods \ Lossy, authzCache'[p] # None, authzCache'[p] # policy'
                PROVE  ClearComing(p)'
    BY DEF AuthzCacheCurrent
  <2>1. CASE policy' # policy
    BY <1>0, <2>1, ChangeComing
  <2>2. ASSUME policy' = policy, authzCache'[p] = authzCache[p] PROVE ClearComing(p)'
    <3>1. ClearComing(p)
      BY <2>2 DEF PolicyInv, AuthzCacheCurrent
    <3>. QED  BY <1>0, <3>1, ClearComingKept, CacheStep
  <2>3. ASSUME NEW l \in authzLoads, policy' = policy, FinishAuthzLoad(l), Keeps(l),
               l.pod = p, authzCache'[p] = l.az
        PROVE  ClearComing(p)'
    <3>1. ClearComing(p)
      BY <2>3 DEF PolicyInv, LoadsCurrent, Keeps
    <3>2. pc' = pc /\ inbox' = inbox
      BY <2>3 DEF FinishAuthzLoad
    <3>. QED  BY <3>1, <3>2 DEF ClearComing
  <2>. QED  BY <1>0, <2>1, <2>2, <2>3, CacheStep
<1>2. LoadsCurrent'
  <2>. SUFFICES ASSUME NEW k \in authzLoads'
                PROVE  /\ k.gen <= authzGen'[k.pod]
                       /\ k.pod \notin Lossy /\ k.gen = authzGen'[k.pod]
                            /\ k.az \notin {None, policy'} => ClearComing(k.pod)'
    BY DEF LoadsCurrent
  <2>0. /\ k \in Load /\ k.pod \in Pods /\ k.gen \in Nat
        /\ authzGen[k.pod] \in Nat /\ authzGen'[k.pod] \in Nat
    BY <1>0, LoadStep DEF Load, PolicyTypeOK
  <2>1. k.gen <= authzGen[k.pod]
    BY <1>0, <2>0, LoadStep DEF PolicyInv, LoadsCurrent
  <2>2. k.gen <= authzGen'[k.pod]
    BY <1>0, <2>0, <2>1, GenStep
  <2>3. ASSUME k.pod \notin Lossy, k.gen = authzGen'[k.pod], k.az # None, k.az # policy'
        PROVE  ClearComing(k.pod)'
    <3>1. CASE policy' # policy
      BY <1>0, <2>0, <3>1, ChangeComing
    <3>2. CASE policy' = policy
      <4>1. k \in authzLoads
        BY <1>0, <2>3, <3>2, LoadStep
      <4>2. authzGen'[k.pod] = authzGen[k.pod]
        BY <1>0, <2>0, <2>1, <2>3, GenStep
      <4>3. ClearComing(k.pod)
        BY <2>3, <3>2, <4>1, <4>2 DEF PolicyInv, LoadsCurrent
      <4>4. ASSUME NEW x \in Workers, FlushLocal(x), PodOf(x) = k.pod PROVE FALSE
        BY <1>0, <2>0, <4>2, <4>4 DEF FlushLocal, ClearAuthzCache, PolicyTypeOK
      <4>. QED  BY <1>0, <2>0, <2>3, <4>3, <4>4, ClearComingKept
    <3>. QED  BY <3>1, <3>2
  <2>. QED  BY <2>2, <2>3
<1>3. ReqGens'
  <2>. SUFFICES ASSUME NEW r \in Requests, reqSt'[r] = "load"
                PROVE  reqGen'[r] <= authzGen'[reqPod'[r]]
    BY DEF ReqGens
  <2>1. /\ reqPod[r] \in Pods /\ reqPod'[r] \in Pods /\ reqGen[r] \in Nat
        /\ reqGen'[r] \in Nat /\ authzGen \in [Pods -> Nat] /\ authzGen' \in [Pods -> Nat]
    BY <1>0 DEF PolicyTypeOK
  <2>2. ASSUME NEW p \in Pods, OrgAuthorizer(r, p) PROVE reqGen'[r] <= authzGen'[reqPod'[r]]
    <3>1. reqGen'[r] = authzGen[p] /\ reqPod'[r] = p /\ authzGen' = authzGen
      BY <1>0, <2>2 DEF OrgAuthorizer, PolicyTypeOK
    <3>. QED  BY <2>1, <3>1
  <2>3. ASSUME reqSt[r] = "load", reqPod'[r] = reqPod[r], reqGen'[r] = reqGen[r]
        PROVE  reqGen'[r] <= authzGen'[reqPod'[r]]
    <3>1. reqGen[r] <= authzGen[reqPod[r]]
      BY <2>3 DEF PolicyInv, ReqGens
    <3>2. authzGen'[reqPod[r]] >= authzGen[reqPod[r]]
      BY <1>0, <2>1, GenStep
    <3>. QED  BY <2>1, <2>3, <3>1, <3>2
  <2>. QED  BY <1>0, <2>2, <2>3, ReqStep
<1>. QED  BY <1>0, <1>1, <1>2, <1>3 DEF PolicyInv

\* A decision that becomes outdated, or starts outdated, on a pod that misses
\* no event belongs to a pod whose hooks are yet to run.
LEMMA ReqStaleComing ==
  ASSUME PolicyInv, BaseStep, NEW r \in Requests, NEW p \in Pods \ Lossy,
         reqPod'[r] = p, ReqStale(r)', ~ReqStale(r)
  PROVE  NotifyComing(p)'
<1>0. PolicyTypeOK /\ PolicyTypeOK'
  BY PolicyTypeStep DEF PolicyInv
<1>1. CASE policy' # policy \/ facts' # facts
  BY <1>0, <1>1, ChangeComing DEF NotifyComing
<1>2. CASE authzGen'[p] # authzGen[p]
  BY <1>0, <1>2, GenComing
<1>3. ASSUME policy' = policy, facts' = facts, authzGen'[p] = authzGen[p]
      PROVE  NotifyComing(p)'
  <2>1. ASSUME NEW q \in Pods, OrgAuthorizer(r, q) PROVE ClearComing(p)'
    <3>1. p = q /\ reqGen'[r] = authzGen[p] /\ reqAz'[r] = authzCache[p] /\ reqFx'[r] = facts
      BY <1>0, <2>1 DEF OrgAuthorizer, PolicyTypeOK
    <3>2. reqSt'[r] = IF authzCache[p] # None THEN "facts" ELSE "load"
      BY <1>0, <2>1, <3>1 DEF OrgAuthorizer, PolicyTypeOK
    <3>3. authzCache[p] # None /\ authzCache[p] # policy
      BY <1>3, <3>1, <3>2 DEF ReqStale
    <3>4. ClearComing(p)
      BY <1>0, <3>3 DEF PolicyInv, AuthzCacheCurrent
    <3>5. pc' = pc /\ inbox' = inbox
      BY <2>1 DEF OrgAuthorizer
    <3>. QED  BY <3>4, <3>5 DEF ClearComing
  <2>2. ASSUME NEW l \in authzLoads, FinishAuthzLoad(l), WaitsFor(r, l), reqAz'[r] = l.az,
               reqSt'[r] = "facts", reqPod'[r] = reqPod[r], reqFx'[r] = reqFx[r]
        PROVE  ClearComing(p)'
    <3>1. l.pod = p /\ l.gen = authzGen[p]
      BY <1>3, <2>2 DEF WaitsFor, ReqStale
    <3>2. l.az # None /\ l.az # policy
      BY <1>3, <2>2 DEF WaitsFor, ReqStale, FinishAuthzLoad
    <3>3. ClearComing(p)
      BY <1>0, <3>1, <3>2 DEF PolicyInv, LoadsCurrent
    <3>4. pc' = pc /\ inbox' = inbox
      BY <2>2 DEF FinishAuthzLoad
    <3>. QED  BY <3>3, <3>4 DEF ClearComing
  <2>3. ASSUME reqSt'[r] = reqSt[r], reqPod'[r] = reqPod[r], reqGen'[r] = reqGen[r],
               reqAz'[r] = reqAz[r], reqFx'[r] = reqFx[r]
        PROVE  FALSE
    BY <1>3, <2>3 DEF ReqStale
  <2>4. ASSUME reqSt[r] = "facts", reqSt'[r] = "decided", reqPod'[r] = reqPod[r],
               reqAz'[r] = reqAz[r], reqFx'[r] \in {reqFx[r], facts}
        PROVE  FALSE
    BY <1>3, <2>4 DEF ReqStale
  <2>5. ASSUME reqSt'[r] \in {"unavailable", "idle"} PROVE FALSE
    BY <2>5 DEF ReqStale
  <2>. QED  BY <1>0, <2>1, <2>2, <2>3, <2>4, <2>5, ReqStep DEF NotifyComing
<1>. QED  BY <1>1, <1>2, <1>3
=============================================================================
