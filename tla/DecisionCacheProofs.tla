------------------------- MODULE DecisionCacheProofs -------------------------
(***************************************************************************)
(* The agent's cached decisions are current or about to be flushed, for    *)
(* every set of pods, writers and checks.                                  *)
(*                                                                         *)
(* A flush message is on its way, or the session is over, whenever a check *)
(* that could still be remembered rests on something outdated: this is the *)
(* strengthening that makes the invariant inductive (AskCurrent).          *)
(***************************************************************************)
EXTENDS DecisionCache, PolicyCacheProofs

\* How sessions, checks and their messages hang together.
SessionShape ==
  /\ attached => gen \in Gens
  /\ \A x \in Workers : flushTo[x] # {} => pc[x] = "hooks"
  /\ Cached # {} => attached /\ conn[gen] \in {"open", "gone"}

AskShape(a) ==
  /\ askGen[a] <= gen
  /\ a \in sameEpoch => attached /\ askGen[a] = gen
  /\ msgSt[a] # "none" => askGen[a] \in Gens
  /\ msgSt[a] \in {"deciding", "down", "over"} => conn[askGen[a]] \in {"open", "gone"}
  /\ msgSt[a] = "deciding" => reqPod[a] = sessPod[askGen[a]]
  /\ reqSt[a] # "idle" => msgSt[a] = "deciding"
  /\ a \in cacheable => msgSt[a] \in {"down", "over"}
  /\ askSt[a] \in {"new", "miss"} => msgSt[a] = "none" /\ a \notin sameEpoch
  /\ askSt[a] \in {"got", "scoped"} => msgSt[a] = "over"

Shape == TypeOK /\ SessionShape /\ \A a \in Asks : AskShape(a)

\* What check a was told, or will be told, is not what is stored now.
AskStale(a) ==
  \/ msgSt[a] = "deciding" /\ ReqStale(a)
  \/ a \in cacheable /\ (reqAz[a] # policy \/ reqFx[a] # facts)

\* A check that may still be remembered is current or a flush is coming.
AskCurrent ==
  attached /\ sessPod[gen] \notin Lossy =>
    \A a \in sameEpoch : AskStale(a) => FlushComing

DecisionInv == PolicyInv /\ Shape /\ AskCurrent /\ CachedDecisionCurrent

-----------------------------------------------------------------------------

\* Every step is, for the policy caches, one of theirs.
LEMMA NextIsBase == ASSUME Shape, [Next]_vars PROVE BaseStep
<1>. USE DEF BaseStep
<1>1. ASSUME NEW a \in Asks, AnswerDecision(a) PROVE BaseStep
  <2>1. CASE OrgAuthorizer(a, sessPod[askGen[a]])
    <3>1. askGen[a] \in Gens
      BY Zenon, <1>1 DEF AnswerDecision, Shape, AskShape
    <3>2. sessPod[askGen[a]] \in Pods
      BY Zenon, <3>1 DEF Shape, TypeOK
    <3>. QED  BY Zenon, <2>1, <3>2 DEF Asks
  <2>2. CASE UNCHANGED <<policyVars, reqVars>>
    BY Zenon, <2>2
  <2>. QED  BY Zenon, <1>1, <2>1, <2>2 DEF AnswerDecision
<1>2. ASSUME NEW a \in Asks, SendAnswer(a) PROVE BaseStep
  BY Zenon, <1>2 DEF SendAnswer, Asks
<1>3. ASSUME NEW x \in Workers, FlushOrg(x) \/ FlushOrgDone(x) PROVE BaseStep
  BY Zenon, <1>3 DEF FlushOrg, FlushOrgDone
<1>4. ASSUME UNCHANGED <<policyVars, reqVars>> PROVE BaseStep
  BY Zenon, <1>4
<1>5. CASE PolicyStep
  BY Zenon, <1>5
<1>6. UNCHANGED vars => UNCHANGED <<policyVars, reqVars>>
  BY Zenon DEF vars
<1>. HIDE DEF BaseStep
<1>. QED
  BY Zenon, <1>1, <1>2, <1>3, <1>4, <1>5, <1>6
     DEF Next, Attach, Detach, Bind, Flush, Track, AcceptControl, EndSession, Check, Ask,
         AskFails, Deliver, RememberScope, Remember, CredentialRefused, Evict, EvictScope,
         FlushConn

\* Steps keep the types.
LEMMA TypeStep == ASSUME Shape, [Next]_vars PROVE TypeOK'
<1>0. TypeOK /\ PolicyTypeOK'
  BY Zenon, NextIsBase, PolicyTypeStep DEF Shape, TypeOK
<1>. USE DEF TypeOK, gateVars, decVars, cacheVars, askVars
<1>1. ASSUME PolicyStep, UNCHANGED <<gateVars, decVars, askVars>> PROVE TypeOK'
  BY Zenon, <1>0, <1>1
<1>2. ASSUME NEW p \in Pods, Attach(p) PROVE TypeOK'
  <2>1. gen + 1 \in 0..MaxGen
    BY <1>0, <1>2, DecisionConstants DEF Attach
  <2>. QED  BY Zenon, <1>0, <1>2, <2>1 DEF Attach, ResetLocked, ClearDecisions
<1>3. ASSUME Detach PROVE TypeOK'
  BY Zenon, <1>0, <1>3 DEF Detach, ResetLocked, ClearDecisions
<1>4. ASSUME NEW g \in Gens, Bind(g) PROVE TypeOK'
  BY Zenon, <1>0, <1>4 DEF Bind
<1>5. ASSUME NEW g \in Gens, Flush(g) PROVE TypeOK'
  BY <1>0, <1>5 DEF Flush, ClearDecisions
<1>6. ASSUME NEW g \in Gens, Track(g) PROVE TypeOK'
  BY Zenon, <1>0, <1>6 DEF Track
<1>7. ASSUME NEW g \in Gens, AcceptControl(g) PROVE TypeOK'
  BY Zenon, <1>0, <1>7 DEF AcceptControl
<1>8. ASSUME NEW g \in Gens, EndSession(g) PROVE TypeOK'
  BY Zenon, <1>0, <1>8 DEF EndSession
<1>9. ASSUME NEW a \in Asks, NEW t \in Targets, Check(a, t) PROVE TypeOK'
  BY Zenon, <1>0, <1>9 DEF Check
<1>10. ASSUME NEW a \in Asks, Ask(a) PROVE TypeOK'
  BY <1>0, <1>10 DEF Ask
<1>11. ASSUME NEW a \in Asks, AskFails(a) PROVE TypeOK'
  BY Zenon, <1>0, <1>11 DEF AskFails
<1>12. ASSUME NEW a \in Asks, Deliver(a) PROVE TypeOK'
  BY Zenon, <1>0, <1>12 DEF Deliver
<1>13. ASSUME NEW a \in Asks, RememberScope(a) PROVE TypeOK'
  BY Zenon, <1>0, <1>13 DEF RememberScope, AnswerScope
<1>14. ASSUME NEW a \in Asks, Remember(a) PROVE TypeOK'
  <2>1. reqAz[a] \in (0..MaxPolicy) \cup {None} /\ reqFx[a] \in (0..MaxFacts) \cup {None}
    BY Zenon, <1>0 DEF PolicyTypeOK, Asks
  <2>. QED  BY Zenon, <1>0, <1>14, <2>1 DEF Remember
<1>15. ASSUME NEW a \in Asks, CredentialRefused(a) PROVE TypeOK'
  BY Zenon, <1>0, <1>15 DEF CredentialRefused
<1>16. ASSUME NEW a \in Asks, AnswerDecision(a) PROVE TypeOK'
  BY Zenon, <1>0, <1>16 DEF AnswerDecision
<1>17. ASSUME NEW a \in Asks, SendAnswer(a) PROVE TypeOK'
  BY Zenon, <1>0, <1>17 DEF SendAnswer
<1>18. ASSUME NEW k \in Keys, Evict(k) PROVE TypeOK'
  BY Zenon, <1>0, <1>18 DEF Evict
<1>19. ASSUME EvictScope PROVE TypeOK'
  BY Zenon, <1>0, <1>19 DEF EvictScope
<1>20. ASSUME NEW x \in Workers, FlushOrg(x) PROVE TypeOK'
  BY Zenon, <1>0, <1>20 DEF FlushOrg
<1>21. ASSUME NEW x \in Workers, FlushOrgDone(x) PROVE TypeOK'
  BY Zenon, <1>0, <1>21 DEF FlushOrgDone
<1>22. ASSUME NEW x \in Workers, NEW g \in Gens, FlushConn(x, g) PROVE TypeOK'
  BY <1>0, <1>22 DEF FlushConn
<1>23. ASSUME UNCHANGED vars PROVE TypeOK'
  BY Zenon, <1>0, <1>23 DEF vars
<1>. HIDE DEF TypeOK, gateVars, decVars, cacheVars, askVars
<1>. QED
  BY Zenon, <1>1, <1>2, <1>3, <1>4, <1>5, <1>6, <1>7, <1>8, <1>9, <1>10, <1>11, <1>12, <1>13, <1>14, <1>15, <1>16, <1>17, <1>18, <1>19, <1>20, <1>21, <1>22, <1>23 DEF Next

\* Steps keep what is said of sessions and hooks under way.
LEMMA SessionShapeStep == ASSUME Shape, [Next]_vars PROVE SessionShape'
<1>0. TypeOK /\ SessionShape /\ \A a \in Asks : AskShape(a)
  BY Zenon DEF Shape
<1>. USE DEF SessionShape, TypeOK, Cached, gateVars, decVars, cacheVars, askVars, policyVars
<1>1. ASSUME PolicyStep, UNCHANGED <<gateVars, decVars, askVars>> PROVE SessionShape'
  <2>1. ASSUME NEW x \in Workers, flushTo'[x] # {} PROVE pc'[x] = "hooks"
    BY Zenon, <1>0, <1>1, <2>1, PolicyStepHooks
  <2>. QED  BY Zenon, <1>0, <1>1, <2>1
<1>2. ASSUME NEW p \in Pods, Attach(p) PROVE SessionShape'
  <2>1. gen + 1 \in Gens
    BY <1>0, <1>2, DecisionConstants DEF Attach, Gens
  <2>. QED  BY Zenon, <1>0, <1>2, <2>1 DEF Attach, ResetLocked, ClearDecisions
<1>3. ASSUME Detach PROVE SessionShape'
  BY Zenon, <1>0, <1>3 DEF Detach, ResetLocked, ClearDecisions
<1>4. ASSUME NEW g \in Gens, Bind(g) PROVE SessionShape'
  BY Zenon, <1>0, <1>4 DEF Bind
<1>5. ASSUME NEW g \in Gens, Flush(g) PROVE SessionShape'
  BY Zenon, <1>0, <1>5 DEF Flush, ClearDecisions
<1>6. ASSUME NEW g \in Gens, Track(g) PROVE SessionShape'
  BY Zenon, <1>0, <1>6 DEF Track
<1>7. ASSUME NEW g \in Gens, AcceptControl(g) PROVE SessionShape'
  BY Zenon, <1>0, <1>7 DEF AcceptControl
<1>8. ASSUME NEW g \in Gens, EndSession(g) PROVE SessionShape'
  BY Zenon, <1>0, <1>8 DEF EndSession
<1>9. ASSUME NEW a \in Asks, NEW t \in Targets, Check(a, t) PROVE SessionShape'
  BY Zenon, <1>0, <1>9 DEF Check
<1>10. ASSUME NEW a \in Asks, Ask(a) PROVE SessionShape'
  BY Zenon, <1>0, <1>10 DEF Ask
<1>11. ASSUME NEW a \in Asks, AskFails(a) PROVE SessionShape'
  BY Zenon, <1>0, <1>11 DEF AskFails
<1>12. ASSUME NEW a \in Asks, Deliver(a) PROVE SessionShape'
  BY Zenon, <1>0, <1>12 DEF Deliver
<1>13. ASSUME NEW a \in Asks, RememberScope(a) PROVE SessionShape'
  BY Zenon, <1>0, <1>13 DEF RememberScope
<1>14. ASSUME NEW a \in Asks, Remember(a) PROVE SessionShape'
  <2>1. CASE a \in cacheable /\ Unmoved(a)
    <3>1. attached /\ conn[gen] \in {"open", "gone"}
      BY Zenon, <1>0, <1>14, <2>1 DEF Remember, AskShape, Unmoved
    <3>. QED  BY Zenon, <1>0, <1>14, <3>1 DEF Remember
  <2>2. CASE ~(a \in cacheable /\ Unmoved(a))
    BY Zenon, <1>0, <1>14, <2>2 DEF Remember
  <2>. QED  BY Zenon, <2>1, <2>2
<1>15. ASSUME NEW a \in Asks, CredentialRefused(a) PROVE SessionShape'
  BY Zenon, <1>0, <1>15 DEF CredentialRefused
<1>16. ASSUME NEW a \in Asks, AnswerDecision(a) PROVE SessionShape'
  <2>1. pc' = pc
    BY Zenon, <1>16 DEF AnswerDecision, OrgAuthorizer
  <2>. QED  BY Zenon, <1>0, <1>16, <2>1 DEF AnswerDecision
<1>17. ASSUME NEW a \in Asks, SendAnswer(a) PROVE SessionShape'
  <2>1. pc' = pc
    BY Zenon, <1>17 DEF SendAnswer, Consume
  <2>. QED  BY Zenon, <1>0, <1>17, <2>1 DEF SendAnswer
<1>18. ASSUME NEW k \in Keys, Evict(k) PROVE SessionShape'
  BY Zenon, <1>0, <1>18 DEF Evict
<1>19. ASSUME EvictScope PROVE SessionShape'
  BY Zenon, <1>0, <1>19 DEF EvictScope
<1>20. ASSUME NEW x \in Workers, FlushOrg(x) PROVE SessionShape'
  <2>1. pc' = [pc EXCEPT ![x] = "hooks"]
    BY Zenon, <1>20 DEF FlushOrg, StartHooks
  <2>2. pc \in [Workers -> {"idle", "invalidate", "clear", "notify", "hooks", "publish"}]
    BY Zenon, <1>0 DEF PolicyTypeOK
  <2>. QED  BY Zenon, <1>0, <1>20, <2>1, <2>2 DEF FlushOrg
<1>21. ASSUME NEW x \in Workers, FlushOrgDone(x) PROVE SessionShape'
  <2>1. pc' = [pc EXCEPT ![x] = IF x \in Writers THEN "publish" ELSE "idle"]
    BY Zenon, <1>21 DEF FlushOrgDone, HooksDone
  <2>2. pc \in [Workers -> {"idle", "invalidate", "clear", "notify", "hooks", "publish"}]
    BY Zenon, <1>0 DEF PolicyTypeOK
  <2>. QED  BY Zenon, <1>0, <1>21, <2>1, <2>2 DEF FlushOrgDone
<1>22. ASSUME NEW x \in Workers, NEW g \in Gens, FlushConn(x, g) PROVE SessionShape'
  BY Zenon, <1>0, <1>22 DEF FlushConn
<1>23. ASSUME UNCHANGED vars PROVE SessionShape'
  BY Zenon, <1>0, <1>23 DEF vars
<1>. HIDE DEF SessionShape, TypeOK, Cached, gateVars, decVars, cacheVars, askVars, policyVars
<1>. QED
  BY Zenon, <1>1, <1>2, <1>3, <1>4, <1>5, <1>6, <1>7, <1>8, <1>9, <1>10, <1>11, <1>12, <1>13, <1>14, <1>15, <1>16, <1>17, <1>18, <1>19, <1>20, <1>21, <1>22, <1>23 DEF Next

\* Steps keep what is said of a check under way.
LEMMA AskShapeStep == ASSUME Shape, [Next]_vars, NEW b \in Asks PROVE AskShape(b)'
<1>0. TypeOK /\ SessionShape /\ AskShape(b) /\ b \in Requests
  BY Zenon DEF Shape, Asks
<1>. USE DEF AskShape, TypeOK, gateVars, decVars, cacheVars, askVars, policyVars, reqVars
<1>1. ASSUME PolicyStep, UNCHANGED <<gateVars, decVars, askVars>> PROVE AskShape(b)'
  <2>1. reqPod'[b] = reqPod[b] /\ (reqSt[b] = "idle" => reqSt'[b] = "idle")
    BY Zenon, <1>0, <1>1, PolicyStepReq
  <2>. QED  BY Zenon, <1>0, <1>1, <2>1
<1>2. ASSUME NEW p \in Pods, Attach(p) PROVE AskShape(b)'
  BY <1>0, <1>2 DEF Attach, ResetLocked, ClearDecisions
<1>3. ASSUME Detach PROVE AskShape(b)'
  BY Zenon, <1>0, <1>3 DEF Detach, ResetLocked, ClearDecisions
<1>4. ASSUME NEW g \in Gens, Bind(g) PROVE AskShape(b)'
  BY Zenon, <1>0, <1>4 DEF Bind
<1>5. ASSUME NEW g \in Gens, Flush(g) PROVE AskShape(b)'
  BY Zenon, <1>0, <1>5 DEF Flush, ClearDecisions
<1>6. ASSUME NEW g \in Gens, Track(g) PROVE AskShape(b)'
  BY Zenon, <1>0, <1>6 DEF Track
<1>7. ASSUME NEW g \in Gens, AcceptControl(g) PROVE AskShape(b)'
  BY Zenon, <1>0, <1>7 DEF AcceptControl
<1>8. ASSUME NEW g \in Gens, EndSession(g) PROVE AskShape(b)'
  BY Zenon, <1>0, <1>8 DEF EndSession
<1>9. ASSUME NEW a \in Asks, NEW t \in Targets, Check(a, t) PROVE AskShape(b)'
  BY Zenon, <1>0, <1>9 DEF Check
<1>10. ASSUME NEW a \in Asks, Ask(a) PROVE AskShape(b)'
  <2>1. CASE a = b
    BY <1>0, <1>10, <2>1 DEF Ask, SessionShape
  <2>2. CASE a # b
    BY <1>0, <1>10, <2>2 DEF Ask
  <2>. QED  BY Zenon, <2>1, <2>2
<1>11. ASSUME NEW a \in Asks, AskFails(a) PROVE AskShape(b)'
  BY Zenon, <1>0, <1>11 DEF AskFails
<1>12. ASSUME NEW a \in Asks, Deliver(a) PROVE AskShape(b)'
  BY Zenon, <1>0, <1>12 DEF Deliver
<1>13. ASSUME NEW a \in Asks, RememberScope(a) PROVE AskShape(b)'
  BY Zenon, <1>0, <1>13 DEF RememberScope
<1>14. ASSUME NEW a \in Asks, Remember(a) PROVE AskShape(b)'
  BY Zenon, <1>0, <1>14 DEF Remember
<1>15. ASSUME NEW a \in Asks, CredentialRefused(a) PROVE AskShape(b)'
  BY Zenon, <1>0, <1>15 DEF CredentialRefused
<1>16. ASSUME NEW a \in Asks, AnswerDecision(a) PROVE AskShape(b)'
  <2>1. ASSUME OrgAuthorizer(a, sessPod[askGen[a]]), msgSt' = [msgSt EXCEPT ![a] = "deciding"], a = b
        PROVE  AskShape(b)'
    <3>1. reqPod'[b] = sessPod[askGen[b]]
      BY Zenon, <1>0, <2>1 DEF OrgAuthorizer, PolicyTypeOK
    <3>. QED  BY Zenon, <1>0, <1>16, <2>1, <3>1 DEF AnswerDecision
  <2>2. ASSUME OrgAuthorizer(a, sessPod[askGen[a]]), msgSt' = [msgSt EXCEPT ![a] = "deciding"], a # b
        PROVE  AskShape(b)'
    <3>1. reqPod'[b] = reqPod[b] /\ reqSt'[b] = reqSt[b]
      BY Zenon, <1>0, <2>2 DEF OrgAuthorizer, PolicyTypeOK
    <3>. QED  BY Zenon, <1>0, <1>16, <2>2, <3>1 DEF AnswerDecision
  <2>3. ASSUME UNCHANGED <<policyVars, reqVars>>, msgSt' = [msgSt EXCEPT ![a] = "down"]
        PROVE  AskShape(b)'
    BY Zenon, <1>0, <1>16, <2>3 DEF AnswerDecision
  <2>. QED  BY Zenon, <1>16, <2>1, <2>2, <2>3 DEF AnswerDecision
<1>17. ASSUME NEW a \in Asks, SendAnswer(a) PROVE AskShape(b)'
  <2>1. reqPod' = reqPod /\ reqSt' = [reqSt EXCEPT ![a] = "idle"] /\ reqSt[a] # "idle"
    BY Zenon, <1>17 DEF SendAnswer, Consume
  <2>2. b \in DOMAIN reqSt
    BY Zenon, <1>0 DEF PolicyTypeOK
  <2>3. CASE a = b
    BY Zenon, <1>0, <1>17, <2>1, <2>2, <2>3 DEF SendAnswer
  <2>4. CASE a # b
    BY Zenon, <1>0, <1>17, <2>1, <2>2, <2>4 DEF SendAnswer
  <2>. QED  BY Zenon, <2>3, <2>4
<1>18. ASSUME NEW k \in Keys, Evict(k) PROVE AskShape(b)'
  BY Zenon, <1>0, <1>18 DEF Evict
<1>19. ASSUME EvictScope PROVE AskShape(b)'
  BY Zenon, <1>0, <1>19 DEF EvictScope
<1>20. ASSUME NEW x \in Workers, FlushOrg(x) PROVE AskShape(b)'
  BY Zenon, <1>0, <1>20 DEF FlushOrg
<1>21. ASSUME NEW x \in Workers, FlushOrgDone(x) PROVE AskShape(b)'
  BY Zenon, <1>0, <1>21 DEF FlushOrgDone
<1>22. ASSUME NEW x \in Workers, NEW g \in Gens, FlushConn(x, g) PROVE AskShape(b)'
  BY Zenon, <1>0, <1>22 DEF FlushConn
<1>23. ASSUME UNCHANGED vars PROVE AskShape(b)'
  BY Zenon, <1>0, <1>23 DEF vars
<1>. HIDE DEF AskShape, TypeOK, gateVars, decVars, cacheVars, askVars, policyVars, reqVars
<1>. QED
  BY Zenon, <1>1, <1>2, <1>3, <1>4, <1>5, <1>6, <1>7, <1>8, <1>9, <1>10, <1>11, <1>12, <1>13, <1>14, <1>15, <1>16, <1>17, <1>18, <1>19, <1>20, <1>21, <1>22, <1>23 DEF Next

\* The session of an agent stays at its pod, and its flush stays pending until
\* it is consumed.
LEMMA SessionStep == ASSUME Shape, [Next]_vars, attached, gen' = gen PROVE 
      /\ sessPod'[gen] = sessPod[gen]
      /\ conn[gen] \in {"open", "gone"} => conn'[gen] \in {"open", "gone"}
      /\ conn[gen] = "gone" => conn'[gen] = "gone" 
<1>. DEFINE Goal == /\ sessPod'[gen] = sessPod[gen]
                    /\ conn[gen] \in {"open", "gone"} => conn'[gen] \in {"open", "gone"}
                    /\ conn[gen] = "gone" => conn'[gen] = "gone" 
<1>0. TypeOK /\ gen \in Gens
  BY Zenon DEF Shape, SessionShape
<1>. USE DEF TypeOK, gateVars, decVars, cacheVars, askVars
<1>1. ASSUME PolicyStep, UNCHANGED <<gateVars, decVars, askVars>> PROVE Goal
  BY Zenon, <1>0, <1>1
<1>2. ASSUME NEW p \in Pods, Attach(p) PROVE Goal
  BY Zenon, <1>0, <1>2 DEF Attach, ResetLocked, ClearDecisions
<1>3. ASSUME Detach PROVE Goal
  BY Zenon, <1>0, <1>3 DEF Detach, ResetLocked, ClearDecisions
<1>4. ASSUME NEW g \in Gens, Bind(g) PROVE Goal
  BY Zenon, <1>0, <1>4 DEF Bind
<1>5. ASSUME NEW g \in Gens, Flush(g) PROVE Goal
  BY Zenon, <1>0, <1>5 DEF Flush, ClearDecisions
<1>6. ASSUME NEW g \in Gens, Track(g) PROVE Goal
  BY Zenon, <1>0, <1>6 DEF Track
<1>7. ASSUME NEW g \in Gens, AcceptControl(g) PROVE Goal
  BY Zenon, <1>0, <1>7 DEF AcceptControl
<1>8. ASSUME NEW g \in Gens, EndSession(g) PROVE Goal
  BY Zenon, <1>0, <1>8 DEF EndSession
<1>9. ASSUME NEW a \in Asks, NEW t \in Targets, Check(a, t) PROVE Goal
  BY Zenon, <1>0, <1>9 DEF Check
<1>10. ASSUME NEW a \in Asks, Ask(a) PROVE Goal
  BY Zenon, <1>0, <1>10 DEF Ask
<1>11. ASSUME NEW a \in Asks, AskFails(a) PROVE Goal
  BY Zenon, <1>0, <1>11 DEF AskFails
<1>12. ASSUME NEW a \in Asks, Deliver(a) PROVE Goal
  BY Zenon, <1>0, <1>12 DEF Deliver
<1>13. ASSUME NEW a \in Asks, RememberScope(a) PROVE Goal
  BY Zenon, <1>0, <1>13 DEF RememberScope
<1>14. ASSUME NEW a \in Asks, Remember(a) PROVE Goal
  BY Zenon, <1>0, <1>14 DEF Remember
<1>15. ASSUME NEW a \in Asks, CredentialRefused(a) PROVE Goal
  BY Zenon, <1>0, <1>15 DEF CredentialRefused
<1>16. ASSUME NEW a \in Asks, AnswerDecision(a) PROVE Goal
  BY Zenon, <1>0, <1>16 DEF AnswerDecision
<1>17. ASSUME NEW a \in Asks, SendAnswer(a) PROVE Goal
  BY Zenon, <1>0, <1>17 DEF SendAnswer
<1>18. ASSUME NEW k \in Keys, Evict(k) PROVE Goal
  BY Zenon, <1>0, <1>18 DEF Evict
<1>19. ASSUME EvictScope PROVE Goal
  BY Zenon, <1>0, <1>19 DEF EvictScope
<1>20. ASSUME NEW x \in Workers, FlushOrg(x) PROVE Goal
  BY Zenon, <1>0, <1>20 DEF FlushOrg
<1>21. ASSUME NEW x \in Workers, FlushOrgDone(x) PROVE Goal
  BY Zenon, <1>0, <1>21 DEF FlushOrgDone
<1>22. ASSUME NEW x \in Workers, NEW g \in Gens, FlushConn(x, g) PROVE Goal
  BY Zenon, <1>0, <1>22 DEF FlushConn
<1>23. ASSUME UNCHANGED vars PROVE Goal
  BY Zenon, <1>0, <1>23 DEF vars
<1>. HIDE DEF TypeOK, gateVars, decVars, cacheVars, askVars
<1>. HIDE DEF Goal
<1>. Goal
  BY Zenon, <1>1, <1>2, <1>3, <1>4, <1>5, <1>6, <1>7, <1>8, <1>9, <1>10, <1>11, <1>12, <1>13, <1>14, <1>15, <1>16, <1>17, <1>18, <1>19, <1>20, <1>21, <1>22, <1>23 DEF Next
<1>. QED  BY Zenon DEF Goal

\* Only FlushOrg starts the hooks of a worker.
LEMMA HooksByFlush ==
  ASSUME Shape, [Next]_vars, NEW x \in Workers, pc[x] = "notify", pc'[x] = "hooks"
  PROVE  FlushOrg(x)
<1>0. PolicyTypeOK /\ x \in DOMAIN pc
  BY Zenon DEF Shape, TypeOK, PolicyTypeOK
<1>1. ASSUME PolicyStep PROVE FALSE
  BY Zenon, <1>0, <1>1, PolicyStepHooks
<1>2. ASSUME NEW a \in Asks, AnswerDecision(a) \/ SendAnswer(a) PROVE FALSE
  BY Zenon, <1>2 DEF AnswerDecision, SendAnswer, OrgAuthorizer, Consume, policyVars
<1>3. ASSUME NEW y \in Workers, FlushOrg(y) PROVE FlushOrg(x)
  BY Zenon, <1>0, <1>3 DEF FlushOrg, StartHooks
<1>4. ASSUME NEW y \in Workers, FlushOrgDone(y) PROVE FALSE
  BY Zenon, <1>0, <1>4 DEF FlushOrgDone, HooksDone
<1>5. ASSUME pc' = pc PROVE FALSE
  BY Zenon, <1>5
<1>. QED
  BY Zenon, <1>1, <1>2, <1>3, <1>4, <1>5
     DEF Next, Attach, Detach, Bind, Flush, Track, AcceptControl, EndSession, Check, Ask,
         AskFails, Deliver, RememberScope, Remember, CredentialRefused, Evict, EvictScope,
         FlushConn, vars, policyVars

\* A session that is to be told is told before it is forgotten.
LEMMA FlushToStep ==
  ASSUME Shape, [Next]_vars, NEW x \in Workers, NEW g \in Gens, g \in flushTo[x]
  PROVE  g \in flushTo'[x] \/ FlushConn(x, g)
<1>0. TypeOK /\ pc[x] = "hooks" /\ flushTo \in [Workers -> SUBSET Gens]
  BY Zenon DEF Shape, SessionShape, TypeOK
<1>1. ASSUME NEW y \in Workers, FlushOrg(y) PROVE g \in flushTo'[x]
  BY Zenon, <1>0, <1>1 DEF FlushOrg, StartHooks
<1>2. ASSUME NEW y \in Workers, NEW h \in Gens, FlushConn(y, h)
      PROVE  g \in flushTo'[x] \/ FlushConn(x, g)
  <2>1. CASE y = x /\ h = g
    BY Zenon, <1>2, <2>1
  <2>2. CASE ~(y = x /\ h = g)
    BY Zenon, <1>0, <1>2, <2>2 DEF FlushConn
  <2>. QED  BY Zenon, <2>1, <2>2
<1>3. ASSUME flushTo' = flushTo PROVE g \in flushTo'[x]
  BY Zenon, <1>3
<1>. QED
  BY Zenon, <1>1, <1>2, <1>3
     DEF Next, Attach, Detach, Bind, Flush, Track, AcceptControl, EndSession, Check, Ask,
         AskFails, Deliver, RememberScope, Remember, CredentialRefused, Evict, EvictScope,
         AnswerDecision, SendAnswer, FlushOrgDone, vars, gateVars

\* A coming flush is not lost on the way to the agent.
LEMMA FlushComingKept ==
  ASSUME PolicyInv, Shape, [Next]_vars, attached, gen' = gen,
         conn[gen] \in {"open", "gone"}, sessPod[gen] \notin Lossy, FlushComing,
         flushMsgs'[gen] >= flushMsgs[gen]
  PROVE  FlushComing'
<1>0. /\ TypeOK /\ TypeOK' /\ PolicyTypeOK /\ gen \in Gens /\ BaseStep
      /\ sessPod[gen] \in Pods \ Lossy
  BY Zenon, TypeStep, NextIsBase DEF Shape, SessionShape, TypeOK
<1>1. /\ sessPod'[gen] = sessPod[gen]
      /\ conn[gen] = "gone" => conn'[gen] = "gone"
      /\ flushMsgs[gen] \in Nat /\ flushMsgs'[gen] \in Nat
  BY Zenon, <1>0, SessionStep DEF TypeOK
<1>2. ASSUME NEW p \in Pods, p = sessPod[gen], NotifyComing(p)' PROVE FlushComing'
  BY Zenon, <1>1, <1>2 DEF FlushComing, NotifyComing, ClearComing, PodOf
<1>3. ASSUME NEW x \in Workers, StartHooks(x), PodOf(x) = sessPod[gen] PROVE FlushComing'
  <2>1. FlushOrg(x)
    BY Zenon, <1>0, <1>3, HooksByFlush DEF StartHooks, PolicyTypeOK
  <2>2. CASE conn[gen] = "open"
    <3>1. gen \in flushTo'[x]
      BY Zenon, <1>0, <1>3, <2>1, <2>2 DEF FlushOrg, TypeOK
    <3>. QED  BY Zenon, <3>1 DEF FlushComing
  <2>3. CASE conn[gen] = "gone"
    BY Zenon, <1>1, <2>3 DEF FlushComing
  <2>. QED  BY Zenon, <2>2, <2>3
<1>4. CASE NotifyComing(sessPod[gen])
  BY Zenon, <1>0, <1>2, <1>3, <1>4, NotifyComingKept
<1>5. ASSUME NEW x \in Workers, gen \in flushTo[x] PROVE FlushComing'
  <2>1. CASE gen \in flushTo'[x]
    BY Zenon, <2>1 DEF FlushComing
  <2>2. CASE FlushConn(x, gen) /\ conn[gen] = "open"
    <3>1. flushMsgs'[gen] = flushMsgs[gen] + 1
      BY Zenon, <1>0, <2>2 DEF FlushConn, TypeOK
    <3>. QED  BY <1>1, <3>1 DEF FlushComing
  <2>3. CASE conn[gen] = "gone"
    BY Zenon, <1>1, <2>3 DEF FlushComing
  <2>. QED  BY Zenon, <1>0, <1>5, <2>1, <2>2, <2>3, FlushToStep
<1>6. CASE flushMsgs[gen] > 0
  <2>1. flushMsgs'[gen] > 0
    BY <1>1, <1>6
  <2>. QED  BY Zenon, <2>1 DEF FlushComing
<1>7. CASE conn[gen] = "gone"
  BY Zenon, <1>1, <1>7 DEF FlushComing
<1>. QED  BY Zenon, <1>4, <1>5, <1>6, <1>7 DEF FlushComing

\* Unless the step empties the cache and the epoch's checks, the session and
\* the flushes on their way to it stay.
LEMMA EpochStep ==
  ASSUME Shape, [Next]_vars, sameEpoch' # {} \/ Cached' # {}
  PROVE  /\ attached' = attached /\ gen' = gen
         /\ gen \in Gens => flushMsgs'[gen] >= flushMsgs[gen]
<1>. DEFINE Goal == /\ attached' = attached /\ gen' = gen
                    /\ gen \in Gens => flushMsgs'[gen] >= flushMsgs[gen]
<1>0. flushMsgs \in [Gens -> Nat]
  BY Zenon DEF Shape, TypeOK
<1>1. ASSUME NEW p \in Pods, Attach(p) PROVE FALSE
  BY Zenon, <1>1 DEF Attach, ResetLocked, ClearDecisions, Cached
<1>2. ASSUME Detach PROVE FALSE
  BY Zenon, <1>2 DEF Detach, ResetLocked, ClearDecisions, Cached
<1>3. ASSUME NEW g \in Gens, Flush(g) PROVE FALSE
  BY Zenon, <1>3 DEF Flush, ClearDecisions, Cached
<1>4. ASSUME NEW x \in Workers, NEW g \in Gens, FlushConn(x, g) PROVE Goal
  BY <1>0, <1>4 DEF FlushConn, decVars
<1>5. ASSUME attached' = attached, gen' = gen, flushMsgs' = flushMsgs PROVE Goal
  BY <1>0, <1>5
<1>. HIDE DEF Goal
<1>6. Goal
  BY Zenon, <1>1, <1>2, <1>3, <1>4, <1>5
     DEF Next, Bind, Track, AcceptControl, EndSession, Check, Ask, AskFails, Deliver,
         RememberScope, Remember, CredentialRefused, Evict, EvictScope, AnswerDecision,
         SendAnswer, FlushOrg, FlushOrgDone, vars, gateVars, decVars
<1>. QED  BY Zenon, <1>6 DEF Goal

\* A check notes the epoch when it asks.
LEMMA SameEpochStep ==
  ASSUME Shape, [Next]_vars, NEW a \in sameEpoch'
  PROVE  a \in sameEpoch \/ msgSt'[a] = "up"
<1>. DEFINE Goal == a \in sameEpoch \/ msgSt'[a] = "up"
<1>0. msgSt \in [Asks -> {"none", "up", "deciding", "down", "over"}]
  BY Zenon DEF Shape, TypeOK
<1>1. ASSUME NEW b \in Asks, Ask(b) PROVE Goal
  BY Zenon, <1>0, <1>1 DEF Ask
<1>2. ASSUME sameEpoch' = sameEpoch \/ sameEpoch' = {} PROVE Goal
  BY Zenon, <1>2
<1>. HIDE DEF Goal
<1>3. Goal
  BY Zenon, <1>1, <1>2
     DEF Next, Attach, Detach, ResetLocked, Flush, Bind, Track, AcceptControl, EndSession,
         Check, AskFails, Deliver, RememberScope, Remember, CredentialRefused, Evict,
         EvictScope, AnswerDecision, SendAnswer, FlushOrg, FlushOrgDone, FlushConn,
         vars, decVars
<1>. QED  BY Zenon, <1>3 DEF Goal

\* What enters the cache is what a check of the current epoch was told.
LEMMA CachedStep ==
  ASSUME Shape, [Next]_vars, NEW k \in Cached'
  PROVE  \/ k \in Cached /\ cAz'[k] = cAz[k] /\ cFx'[k] = cFx[k]
         \/ \E a \in Asks : /\ a \in cacheable /\ Unmoved(a)
                            /\ cAz'[k] = reqAz[a] /\ cFx'[k] = reqFx[a]
<1>. DEFINE Goal == \/ k \in Cached /\ cAz'[k] = cAz[k] /\ cFx'[k] = cFx[k]
                    \/ \E a \in Asks : /\ a \in cacheable /\ Unmoved(a)
                                       /\ cAz'[k] = reqAz[a] /\ cFx'[k] = reqFx[a]
<1>0. /\ cAz \in [Keys -> (0..MaxPolicy) \cup {None}]
      /\ cFx \in [Keys -> (0..MaxFacts) \cup {None}] /\ k \in Keys /\ cAz'[k] # None
  BY Zenon DEF Shape, TypeOK, Cached
<1>1. ASSUME NEW a \in Asks, Remember(a) PROVE Goal
  <2>1. CASE a \in cacheable /\ Unmoved(a)
    BY Zenon, <1>0, <1>1, <2>1 DEF Remember, Cached
  <2>2. CASE ~(a \in cacheable /\ Unmoved(a))
    BY Zenon, <1>0, <1>1, <2>2 DEF Remember, Cached
  <2>. QED  BY Zenon, <2>1, <2>2
<1>2. ASSUME NEW h \in Keys, Evict(h) PROVE Goal
  BY Zenon, <1>0, <1>2 DEF Evict, Cached
<1>3. ASSUME cAz' = cAz, cFx' = cFx PROVE Goal
  BY Zenon, <1>0, <1>3 DEF Cached
<1>4. ASSUME ClearDecisions PROVE FALSE
  BY Zenon, <1>0, <1>4 DEF ClearDecisions
<1>. HIDE DEF Goal
<1>5. Goal
  BY Zenon, <1>1, <1>2, <1>3, <1>4
     DEF Next, Attach, Detach, ResetLocked, Flush, Bind, Track, AcceptControl, EndSession,
         Check, Ask, AskFails, Deliver, RememberScope, CredentialRefused,
         EvictScope, AnswerDecision, SendAnswer, FlushOrg, FlushOrgDone, FlushConn,
         vars, decVars, cacheVars
<1>. QED  BY Zenon, <1>5 DEF Goal

\* Steps keep the shape of everything.
LEMMA ShapeStep == ASSUME Shape, [Next]_vars PROVE Shape'
<1>1. ASSUME NEW a \in Asks PROVE AskShape(a)'
  BY Zenon, AskShapeStep
<1>. QED  BY Zenon, <1>1, TypeStep, SessionShapeStep DEF Shape, Asks

\* An answer may be remembered only once its decision was made.
LEMMA CacheableStep ==
  ASSUME Shape, [Next]_vars, NEW a \in Asks, a \in cacheable'
  PROVE  \/ a \in cacheable
         \/ /\ msgSt[a] = "deciding" /\ reqSt[a] = "decided"
            /\ policy' = policy /\ facts' = facts
<1>. DEFINE Goal == \/ a \in cacheable
                    \/ /\ msgSt[a] = "deciding" /\ reqSt[a] = "decided"
                       /\ policy' = policy /\ facts' = facts
<1>1. ASSUME NEW b \in Asks, SendAnswer(b) PROVE Goal
  BY Zenon, <1>1 DEF SendAnswer, Consume, policyVars
<1>2. ASSUME cacheable' = cacheable PROVE Goal
  BY Zenon, <1>2
<1>. HIDE DEF Goal
<1>3. Goal
  BY Zenon, <1>1, <1>2
     DEF Next, Attach, Detach, Flush, Bind, Track, AcceptControl, EndSession,
         Check, Ask, AskFails, Deliver, RememberScope, Remember, CredentialRefused, Evict,
         EvictScope, AnswerDecision, FlushOrg, FlushOrgDone, FlushConn, vars, askVars
<1>. QED  BY Zenon, <1>3 DEF Goal

\* What it was decided on does not change afterwards.
LEMMA CacheableBasis ==
  ASSUME Shape, [Next]_vars, NEW a \in Asks, a \in cacheable',
         reqSt[a] \in {"idle", "decided"}
  PROVE  reqAz'[a] = reqAz[a] /\ reqFx'[a] = reqFx[a]
<1>0. PolicyTypeOK /\ BaseStep /\ a \in Requests /\ AskShape(a)'
  BY Zenon, NextIsBase, AskShapeStep DEF Shape, TypeOK, Asks
<1>1. reqSt'[a] = "idle"
  BY Zenon, <1>0 DEF AskShape
<1>2. ASSUME NEW p \in Pods, OrgAuthorizer(a, p) PROVE FALSE
  BY Zenon, <1>0, <1>1, <1>2 DEF OrgAuthorizer, PolicyTypeOK
<1>. QED  BY Zenon, <1>0, <1>1, <1>2, ReqStep, Zenon

\* A check of the current epoch becomes outdated only by a change that
\* announces itself to the pod of the session.
LEMMA AskStaleComing ==
  ASSUME PolicyInv, Shape, [Next]_vars, NEW a \in Asks, NEW p \in Pods \ Lossy,
         a \in sameEpoch', sessPod'[gen'] = p, AskStale(a)', ~AskStale(a)
  PROVE  NotifyComing(p)'
<1>0. /\ BaseStep /\ PolicyTypeOK /\ AskShape(a) /\ AskShape(a)' /\ a \in Requests /\ p \in Pods
  BY Zenon, NextIsBase, AskShapeStep DEF Shape, TypeOK, Asks
<1>1. CASE msgSt'[a] = "deciding" /\ ReqStale(a)'
  <2>1. reqPod'[a] = p
    BY Zenon, <1>0, <1>1 DEF AskShape
  <2>2. ~ReqStale(a)
    BY Zenon, <1>0 DEF AskStale, AskShape, ReqStale
  <2>. QED  BY Zenon, <1>0, <1>1, <2>1, <2>2, ReqStaleComing
<1>2. CASE a \in cacheable' /\ (reqAz'[a] # policy' \/ reqFx'[a] # facts')
  <2>1. CASE a \in cacheable
    <3>1. reqSt[a] = "idle"
      BY Zenon, <1>0, <2>1 DEF AskShape
    <3>2. reqAz'[a] = reqAz[a] /\ reqFx'[a] = reqFx[a]
      BY Zenon, <1>2, <3>1, CacheableBasis
    <3>3. policy' # policy \/ facts' # facts
      BY Zenon, <1>2, <2>1, <3>2 DEF AskStale
    <3>4. ClearComing(p)'
      BY Zenon, <1>0, <3>3, ChangeComing
    <3>. QED  BY Zenon, <3>4 DEF NotifyComing
  <2>2. CASE a \notin cacheable
    <3>1. /\ msgSt[a] = "deciding" /\ reqSt[a] = "decided"
          /\ policy' = policy /\ facts' = facts
      BY Zenon, <1>2, <2>2, CacheableStep
    <3>2. reqAz'[a] = reqAz[a] /\ reqFx'[a] = reqFx[a]
      BY Zenon, <1>2, <3>1, CacheableBasis
    <3>. QED  BY Zenon, <1>2, <3>1, <3>2 DEF AskStale, ReqStale
  <2>. QED  BY Zenon, <2>1, <2>2
<1>. QED  BY Zenon, <1>1, <1>2 DEF AskStale

\* Steps keep that a check under way is current or will be told.
LEMMA AskCurrentStep == ASSUME DecisionInv, [Next]_vars PROVE AskCurrent'
<1>0. /\ PolicyInv /\ Shape /\ AskCurrent /\ Shape' /\ TypeOK'
  BY Zenon, ShapeStep DEF DecisionInv, Shape
<1>. SUFFICES ASSUME attached', sessPod'[gen'] \notin Lossy,
                     NEW a \in sameEpoch', AskStale(a)'
              PROVE  FlushComing'
  BY Zenon DEF AskCurrent
<1>1. /\ attached' = attached /\ gen' = gen
      /\ gen \in Gens => flushMsgs'[gen] >= flushMsgs[gen]
  BY Zenon, <1>0, EpochStep
<1>2. /\ attached /\ gen \in Gens /\ sessPod'[gen] = sessPod[gen] /\ a \in Asks
      /\ sessPod[gen] \in Pods \ Lossy
  BY Zenon, <1>0, <1>1, SessionStep DEF Shape, SessionShape, TypeOK
<1>3. CASE AskStale(a) /\ a \in sameEpoch
  <2>1. FlushComing
    BY Zenon, <1>0, <1>2, <1>3 DEF AskCurrent
  <2>2. AskShape(a)
    BY Zenon, <1>0, <1>2 DEF Shape
  <2>3. conn[gen] \in {"open", "gone"}
    BY Zenon, <1>3, <2>2 DEF AskShape, AskStale
  <2>. QED  BY Zenon, <1>0, <1>1, <1>2, <2>1, <2>3, FlushComingKept
<1>4. CASE ~AskStale(a)
  <2>1. ASSUME NEW p \in Pods \ Lossy, p = sessPod[gen] PROVE NotifyComing(p)'
    BY Zenon, <1>0, <1>1, <1>2, <1>4, <2>1, AskStaleComing
  <2>2. ASSUME NEW p \in Pods, p = sessPod[gen], NotifyComing(p)' PROVE FlushComing'
    BY Zenon, <1>1, <1>2, <2>2 DEF FlushComing, NotifyComing, ClearComing, PodOf
  <2>. QED  BY Zenon, <1>2, <2>1, <2>2
<1>5. CASE a \notin sameEpoch
  <2>1. msgSt'[a] = "up" /\ AskShape(a)'
    BY Zenon, <1>0, <1>2, <1>5, SameEpochStep DEF Shape
  <2>. QED  BY Zenon, <2>1 DEF AskStale, AskShape
<1>. QED  BY Zenon, <1>3, <1>4, <1>5

\* Steps keep that a cached decision is current or has its flush on the way.
LEMMA CachedCurrentStep ==
  ASSUME DecisionInv, [Next]_vars PROVE CachedDecisionCurrent'
<1>0. /\ PolicyInv /\ Shape /\ AskCurrent /\ CachedDecisionCurrent /\ TypeOK'
  BY Zenon, ShapeStep DEF DecisionInv, Shape
<1>. SUFFICES ASSUME attached', sessPod'[gen'] \notin Lossy, NEW k \in Cached',
                     ~(cAz'[k] = policy' /\ cFx'[k] = facts')
              PROVE  FlushComing'
  BY Zenon DEF CachedDecisionCurrent
<1>1. /\ attached' = attached /\ gen' = gen
      /\ gen \in Gens => flushMsgs'[gen] >= flushMsgs[gen]
  BY Zenon, <1>0, EpochStep
<1>2. /\ attached /\ gen \in Gens /\ sessPod'[gen] = sessPod[gen]
      /\ sessPod[gen] \in Pods \ Lossy /\ PolicyTypeOK /\ BaseStep
  BY Zenon, <1>0, <1>1, SessionStep, NextIsBase DEF Shape, SessionShape, TypeOK
<1>3. ASSUME policy' # policy \/ facts' # facts PROVE FlushComing'
  <2>1. ASSUME NEW p \in Pods, p = sessPod[gen] PROVE ClearComing(p)'
    BY Zenon, <1>2, <1>3, ChangeComing
  <2>2. ASSUME NEW p \in Pods, p = sessPod[gen], ClearComing(p)' PROVE FlushComing'
    BY Zenon, <1>1, <1>2, <2>2 DEF FlushComing, NotifyComing, ClearComing
  <2>. QED  BY Zenon, <1>2, <2>1, <2>2
<1>4. ASSUME FlushComing, conn[gen] \in {"open", "gone"} PROVE FlushComing'
  BY Zenon, <1>0, <1>1, <1>2, <1>4, FlushComingKept
<1>5. CASE k \in Cached /\ cAz'[k] = cAz[k] /\ cFx'[k] = cFx[k]
  <2>1. conn[gen] \in {"open", "gone"}
    BY Zenon, <1>0, <1>5 DEF Shape, SessionShape
  <2>2. (cAz[k] = policy /\ cFx[k] = facts) \/ FlushComing
    BY Zenon, <1>0, <1>2, <1>5 DEF CachedDecisionCurrent
  <2>. QED  BY Zenon, <1>3, <1>4, <1>5, <2>1, <2>2
<1>6. ASSUME NEW a \in Asks, a \in cacheable, Unmoved(a),
             cAz'[k] = reqAz[a], cFx'[k] = reqFx[a]
      PROVE  FlushComing'
  <2>1. AskShape(a) /\ a \in sameEpoch /\ askGen[a] = gen
    BY Zenon, <1>0, <1>6 DEF Shape, Unmoved
  <2>2. conn[gen] \in {"open", "gone"}
    BY Zenon, <1>6, <2>1 DEF AskShape
  <2>3. CASE AskStale(a)
    BY Zenon, <1>0, <1>2, <1>4, <2>1, <2>2, <2>3 DEF AskCurrent
  <2>4. CASE ~AskStale(a)
    BY Zenon, <1>3, <1>6, <2>4 DEF AskStale
  <2>. QED  BY Zenon, <2>3, <2>4
<1>. QED  BY Zenon, <1>0, <1>5, <1>6, CachedStep

\* The invariant holds at the start.
LEMMA DecisionInvInit == Init => DecisionInv
<1>. SUFFICES ASSUME Init PROVE DecisionInv
  OBVIOUS
<1>0. Pods # {} /\ (CHOOSE p \in Pods : TRUE) \in Pods
  BY Zenon, PolicyConstants
<1>1. PolicyInv /\ PolicyTypeOK
  BY Zenon, <1>0, PolicyInvInit DEF Init, PolicyInv
<1>2. TypeOK
  <2>1. 0 \in 0..MaxGen
    BY DecisionConstants
  <2>2. sessPod \in [Gens -> Pods] /\ flushTo \in [Workers -> SUBSET Gens]
    BY Zenon, <1>0, Zenon DEF Init
  <2>3. flushMsgs \in [Gens -> Nat]
    BY Zenon DEF Init
  <2>. QED  BY Zenon, <1>1, <2>1, <2>2, <2>3 DEF Init, TypeOK, Targets
<1>3. Cached = {}
  BY Zenon DEF Init, Cached
<1>4. SessionShape
  BY Zenon, <1>3 DEF Init, SessionShape
<1>5. ASSUME NEW a \in Asks PROVE AskShape(a)
  <2>1. reqSt[a] = "idle"
    BY Zenon DEF Init, PolicyInit, Asks
  <2>. QED  BY <2>1 DEF Init, AskShape, Gens
<1>6. AskCurrent /\ CachedDecisionCurrent
  BY Zenon, <1>3 DEF Init, AskCurrent, CachedDecisionCurrent
<1>. QED  BY Zenon, <1>1, <1>2, <1>4, <1>5, <1>6 DEF DecisionInv, Shape

\* The invariant of the policy caches, the sessions, the checks under way and
\* the agent's cache, kept by every action.
THEOREM DecisionInvariant == Spec => []DecisionInv
<1>1. ASSUME DecisionInv, [Next]_vars PROVE DecisionInv'
  <2>1. PolicyInv /\ Shape
    BY Zenon, <1>1 DEF DecisionInv
  <2>2. PolicyInv'
    BY Zenon, <1>1, <2>1, NextIsBase, PolicyInvStep
  <2>. QED  BY Zenon, <1>1, <2>1, <2>2, ShapeStep, AskCurrentStep, CachedCurrentStep
              DEF DecisionInv
<1>. QED  BY <1>1, DecisionInvInit, PTL DEF Spec

\* No pod keeps an outdated compiled policy beyond the invalidation that is on
\* its way (orgAuthorizer, runAuthzLoad, ClearAuthzCache).
THEOREM AuthzCacheSafe == Spec => []AuthzCacheCurrent
<1>1. DecisionInv => AuthzCacheCurrent
  BY Zenon DEF DecisionInv, PolicyInv
<1>. QED  BY <1>1, DecisionInvariant, PTL

\* No agent keeps an outdated decision beyond the flush that is on its way
\* (remoteDecider's remember and flush, FlushOrg, flushLocal).
THEOREM CachedDecisionSafe == Spec => []CachedDecisionCurrent
<1>1. DecisionInv => CachedDecisionCurrent
  BY Zenon DEF DecisionInv
<1>. QED  BY <1>1, DecisionInvariant, PTL
=============================================================================
