----------------------------- MODULE PolicyCache -----------------------------
(***************************************************************************)
(* How one organisation's authorization data reaches the decisions of a    *)
(* cluster: controlplane/authz_cache.go, controlplane/decider.go and the   *)
(* flush half of identity/bus.go.                                          *)
(*                                                                         *)
(* The organisation's policy and the facts a decision reads (agents,       *)
(* members, groups, endpoints, sessions) are version numbers in the        *)
(* database.  A pod keeps the compiled policy in a cache filled by single- *)
(* flight loads; the facts are read at every decision.  A handler that     *)
(* changes either of them drops the cache of its own pod, runs the pod's   *)
(* flush hooks in their registration order (the cache first, then the      *)
(* consumers of decisions) and publishes a flush event to the other pods.  *)
(*                                                                         *)
(* Modules that extend this one say what a pod's hooks notify and what is  *)
(* done with a decision.                                                   *)
(***************************************************************************)
EXTENDS Integers, FiniteSets

CONSTANTS
  Pods,       \* the server processes
  Writers,    \* control-plane requests that change authorization data
  Requests,   \* decisions being made
  home,       \* home[w]: the pod that serves writer w
  Lossy,      \* the pods whose event subscription may miss an event
  MaxPolicy,  \* bound on the changes of the policy
  MaxFacts    \* bound on the changes of the facts

ASSUME PolicyConstants ==
  /\ Pods # {}
  /\ Writers \cap Pods = {}
  /\ home \in [Writers -> Pods]
  /\ Lossy \subseteq Pods
  /\ MaxPolicy \in Nat
  /\ MaxFacts \in Nat

VARIABLES
  policy,      \* version of the stored policy
  facts,       \* version of the stored facts
  authzGen,    \* authzGen[p]: API.authzGen of pod p
  authzCache,  \* authzCache[p]: version of the compiled policy, or None
  authzLoads,  \* loads in flight: their pod, generation and what they read
  pc,          \* where a writer, or the bus handler of a pod, stands
  inbox,       \* inbox[p]: flush events the bus has not handed to pod p yet
  reqSt,       \* stage of a decision
  reqPod,      \* the pod that makes it
  reqGen,      \* generation of the load it waits for
  reqAz,       \* version of the policy it was given
  reqFx        \* version of the oldest fact it read

policyVars == <<policy, facts, authzGen, authzCache, authzLoads, pc, inbox>>
reqVars == <<reqSt, reqPod, reqGen, reqAz, reqFx>>

None == -1
Workers == Writers \cup Pods
Load == [pod: Pods, gen: Nat, az: (0..MaxPolicy) \cup {None}]

\* A pod is the name of its bus handler: SubscribeEvents runs one at a time.
PodOf(x) == IF x \in Writers THEN home[x] ELSE x

PolicyTypeOK ==
  /\ policy \in 0..MaxPolicy
  /\ facts \in 0..MaxFacts
  /\ authzGen \in [Pods -> Nat]
  /\ authzCache \in [Pods -> (0..MaxPolicy) \cup {None}]
  /\ authzLoads \subseteq Load
  /\ pc \in [Workers -> {"idle", "invalidate", "clear", "notify", "hooks", "publish"}]
  /\ inbox \in [Pods -> Nat]
  /\ reqSt \in [Requests -> {"idle", "load", "facts", "decided", "unavailable"}]
  /\ reqPod \in [Requests -> Pods]
  /\ reqGen \in [Requests -> Nat]
  /\ reqAz \in [Requests -> (0..MaxPolicy) \cup {None}]
  /\ reqFx \in [Requests -> (0..MaxFacts) \cup {None}]

PolicyInit ==
  /\ policy = 0
  /\ facts = 0
  /\ authzGen = [p \in Pods |-> 0]
  /\ authzCache = [p \in Pods |-> None]
  /\ authzLoads = {}
  /\ pc = [x \in Workers |-> "idle"]
  /\ inbox = [p \in Pods |-> 0]
  /\ reqSt = [r \in Requests |-> "idle"]
  /\ reqPod = [r \in Requests |-> CHOOSE p \in Pods : TRUE]
  /\ reqGen = [r \in Requests |-> 0]
  /\ reqAz = [r \in Requests |-> None]
  /\ reqFx = [r \in Requests |-> None]

-----------------------------------------------------------------------------
(* Changing authorization data.                                            *)

\* putPolicyHandler: the policy is stored before anything is invalidated.
SetOrgPolicy(w) ==
  /\ pc[w] = "idle"
  /\ policy < MaxPolicy
  /\ policy' = policy + 1
  /\ pc' = [pc EXCEPT ![w] = "invalidate"]
  /\ UNCHANGED <<facts, authzGen, authzCache, authzLoads, inbox, reqVars>>

\* The handlers of agents, members, groups, secrets, egress credentials and
\* decrypt scopes: they store their change, then call flushDecisions.
SetFacts(w) ==
  /\ pc[w] = "idle"
  /\ facts < MaxFacts
  /\ facts' = facts + 1
  /\ pc' = [pc EXCEPT ![w] = "clear"]
  /\ UNCHANGED <<policy, authzGen, authzCache, authzLoads, inbox, reqVars>>

\* ClearAuthzCache: loads of the old generation may finish but are not kept.
ClearAuthzCache(p) ==
  /\ authzGen' = [authzGen EXCEPT ![p] = @ + 1]
  /\ authzCache' = [authzCache EXCEPT ![p] = None]

\* invalidateAuthz, before it calls flushDecisions.
InvalidateAuthz(w) ==
  /\ pc[w] = "invalidate"
  /\ ClearAuthzCache(home[w])
  /\ pc' = [pc EXCEPT ![w] = "clear"]
  /\ UNCHANGED <<policy, facts, authzLoads, inbox, reqVars>>

\* flushLocal and its first hook: serve() registers ClearAuthzCache before the
\* hooks of the decisions' consumers, and hooks run in registration order.
FlushLocal(x) ==
  /\ pc[x] = "clear"
  /\ ClearAuthzCache(PodOf(x))
  /\ pc' = [pc EXCEPT ![x] = "notify"]
  /\ UNCHANGED <<policy, facts, authzLoads, inbox, reqVars>>

\* flushLocal reaches the hooks of the decisions' consumers.
StartHooks(x) ==
  /\ pc[x] = "notify"
  /\ pc' = [pc EXCEPT ![x] = "hooks"]
  /\ UNCHANGED <<policy, facts, authzGen, authzCache, authzLoads, inbox>>

\* The hooks have returned: FlushOrg broadcasts, the bus handler is done.
HooksDone(x) ==
  /\ pc[x] = "hooks"
  /\ pc' = [pc EXCEPT ![x] = IF x \in Writers THEN "publish" ELSE "idle"]
  /\ UNCHANGED <<policy, facts, authzGen, authzCache, authzLoads, inbox>>

\* broadcast: one PUBLISH, at most once for each subscribed pod.  A failed
\* publish and a subscriber that is away look the same to a pod.
Broadcast(w) ==
  /\ pc[w] = "publish"
  /\ \E missing \in SUBSET (Lossy \ {home[w]}) :
       inbox' = [p \in Pods |->
                  IF p = home[w] \/ p \in missing THEN inbox[p] ELSE inbox[p] + 1]
  /\ pc' = [pc EXCEPT ![w] = "idle"]
  /\ UNCHANGED <<policy, facts, authzGen, authzCache, authzLoads, reqVars>>

\* handleRemoteFlush.
HandleRemoteFlush(p) ==
  /\ pc[p] = "idle"
  /\ inbox[p] > 0
  /\ inbox' = [inbox EXCEPT ![p] = @ - 1]
  /\ pc' = [pc EXCEPT ![p] = "clear"]
  /\ UNCHANGED <<policy, facts, authzGen, authzCache, authzLoads, reqVars>>

-----------------------------------------------------------------------------
(* The cache of the compiled policy.                                       *)

\* An entry outlives authzCacheTTL.
ExpireAuthz(p) ==
  /\ authzCache[p] # None
  /\ authzCache' = [authzCache EXCEPT ![p] = None]
  /\ UNCHANGED <<policy, facts, authzGen, authzLoads, pc, inbox, reqVars>>

\* runAuthzLoad, its read of the database.
LoadOrgAuthorizer(l) ==
  /\ l \in authzLoads
  /\ l.az = None
  /\ authzLoads' = (authzLoads \ {l}) \cup {[l EXCEPT !.az = policy]}
  /\ UNCHANGED <<policy, facts, authzGen, authzCache, pc, inbox, reqVars>>

BugKeepAlways(l) == TRUE

\* A load is kept only when nothing was invalidated since it started.
Keeps(l) == authzGen[l.pod] = l.gen

WaitsFor(r, l) == reqSt[r] = "load" /\ reqPod[r] = l.pod /\ reqGen[r] = l.gen

\* runAuthzLoad, after the read: the entry is stored and the waiters go on.
FinishAuthzLoad(l) ==
  /\ l \in authzLoads
  /\ l.az # None
  /\ authzLoads' = authzLoads \ {l}
  /\ authzCache' = IF Keeps(l) THEN [authzCache EXCEPT ![l.pod] = l.az]
                               ELSE authzCache
  /\ reqSt' = [r \in Requests |-> IF WaitsFor(r, l) THEN "facts" ELSE reqSt[r]]
  /\ reqAz' = [r \in Requests |-> IF WaitsFor(r, l) THEN l.az ELSE reqAz[r]]
  /\ UNCHANGED <<policy, facts, authzGen, pc, inbox, reqPod, reqGen, reqFx>>

\* runAuthzLoad, the read failed or timed out.
FailAuthzLoad(l) ==
  /\ l \in authzLoads
  /\ l.az = None
  /\ authzLoads' = authzLoads \ {l}
  /\ reqSt' = [r \in Requests |->
                 IF WaitsFor(r, l) THEN "unavailable" ELSE reqSt[r]]
  /\ UNCHANGED <<policy, facts, authzGen, authzCache, pc, inbox,
                 reqPod, reqGen, reqAz, reqFx>>

-----------------------------------------------------------------------------
(* A decision: serverDecider.Decide.                                       *)

\* The caller has looked up the endpoint, the exit or the principal.  Then
\* orgAuthorizer: a cached policy is used at once, else the decision joins
\* the load of the current generation or starts it.
OrgAuthorizer(r, p) ==
  /\ reqSt[r] = "idle"
  /\ reqPod' = [reqPod EXCEPT ![r] = p]
  /\ reqGen' = [reqGen EXCEPT ![r] = authzGen[p]]
  /\ reqAz' = [reqAz EXCEPT ![r] = authzCache[p]]
  /\ reqFx' = [reqFx EXCEPT ![r] = facts]
  /\ IF authzCache[p] # None
     THEN /\ reqSt' = [reqSt EXCEPT ![r] = "facts"]
          /\ UNCHANGED authzLoads
     ELSE /\ reqSt' = [reqSt EXCEPT ![r] = "load"]
          /\ authzLoads' =
               IF \E l \in authzLoads : l.pod = p /\ l.gen = authzGen[p]
               THEN authzLoads
               ELSE authzLoads \cup {[pod |-> p, gen |-> authzGen[p], az |-> None]}
  /\ UNCHANGED <<policy, facts, authzGen, authzCache, pc, inbox>>

\* serverDecider.facts reads the other rows the decision depends on: it is as
\* old as the oldest row it rests on.
ReadFacts(r) ==
  /\ reqSt[r] = "facts"
  /\ reqSt' = [reqSt EXCEPT ![r] = "decided"]
  /\ \/ reqFx' = [reqFx EXCEPT ![r] = facts]
     \/ UNCHANGED reqFx
  /\ UNCHANGED <<policyVars, reqPod, reqGen, reqAz>>

\* DecisionTimeout passes, or reading the facts fails.
DecideFails(r) ==
  /\ reqSt[r] \in {"load", "facts"}
  /\ reqSt' = [reqSt EXCEPT ![r] = "unavailable"]
  /\ UNCHANGED <<policyVars, reqPod, reqGen, reqAz, reqFx>>

\* The caller has taken the decision, or the failure.
Consume(r) ==
  /\ reqSt[r] \in {"decided", "unavailable"}
  /\ reqSt' = [reqSt EXCEPT ![r] = "idle"]
  /\ UNCHANGED <<policyVars, reqPod, reqGen, reqAz, reqFx>>

-----------------------------------------------------------------------------

\* Steps that no consumer of decisions takes part in.
PolicyStep ==
  \/ \E w \in Writers : SetOrgPolicy(w) \/ SetFacts(w)
                          \/ InvalidateAuthz(w) \/ Broadcast(w)
  \/ \E x \in Workers : FlushLocal(x)
  \/ \E p \in Pods : HandleRemoteFlush(p) \/ ExpireAuthz(p)
  \/ \E l \in authzLoads : LoadOrgAuthorizer(l) \/ FinishAuthzLoad(l)
                             \/ FailAuthzLoad(l)
  \/ \E r \in Requests : ReadFacts(r) \/ DecideFails(r)

\* A worker has yet to drop the cache of pod p for a change already stored.
ClearComing(p) ==
  \/ \E w \in Writers : IF home[w] = p THEN pc[w] \in {"invalidate", "clear"}
                                       ELSE pc[w] # "idle"
  \/ inbox[p] > 0
  \/ pc[p] = "clear"

\* ... or to notify the consumers of decisions at pod p.
NotifyComing(p) ==
  \/ ClearComing(p)
  \/ \E x \in Workers : PodOf(x) = p /\ pc[x] = "notify"

\* A pod whose cached policy is not the stored one is about to drop it: an
\* old policy never survives its invalidation, although the load that read it
\* may end after the invalidation (the generation check of runAuthzLoad).
AuthzCacheCurrent ==
  \A p \in Pods \ Lossy :
    authzCache[p] \notin {None, policy} => ClearComing(p)
=============================================================================
