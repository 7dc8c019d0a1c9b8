------------------------------- MODULE MCLive -------------------------------
(***************************************************************************)
(* Two services of which one requires the other, and the liveness of the   *)
(* components.  A behaviour is one of one component (part); nothing is     *)
(* fair of the others, which rest in their initial states.  One of the     *)
(* services starts with one of several budgets for what may happen in it.  *)
(***************************************************************************)
EXTENDS ServiceMutations, Integers, TLC

CONSTANTS p1, p2, w1, f1, f2, s1, NoSession, d1, r1, web, db

VARIABLES
  part,
  policy, facts, authzGen, authzCache, authzLoads, pc, inbox, reqSt, reqPod, reqGen, reqAz,
  reqFx, flow, tracked, revoked, flushed, okNow, reeval, pending, checks, tries,
  live, revoking, sinbox, sflow, stracked, srevoked, sweeping, loop, refs,
  ver, owed, flushMsg, session, gen, bound, state, disabled, retryAt, run, rerun, timer, caller,
  phase, sess, backoff, cause, fate, ack, bindings, acked, targets, registered, streams

flowVars == <<policy, facts, authzGen, authzCache, authzLoads, pc, inbox, reqSt, reqPod, reqGen,
              reqAz, reqFx, flow, tracked, revoked, flushed, okNow, reeval, pending, checks, tries>>
revVars == <<live, revoking, sinbox, sflow, stracked, srevoked, sweeping, loop, refs>>
decryptVars == <<ver, owed, flushMsg, session, gen, bound, state, disabled, retryAt, run, rerun,
                 timer, caller>>
runVars == <<phase, sess, backoff, cause, fate, ack, bindings, acked, targets, registered, streams>>
otherVars == <<flowVars, revVars, decryptVars, runVars>>
all == <<part, otherVars, allVars>>

Tracker == INSTANCE FlowTracker WITH
  Pods <- {p1, p2}, Writers <- {w1}, Requests <- {f1} \X {"handler", "loop"},
  home <- w1 :> p1, Lossy <- {}, MaxPolicy <- 1, MaxFacts <- 0, Flows <- {f1},
  flowPod <- f1 :> p2, recheckAttempts <- 2

\* f1 is on a pod that may miss the event, f2 belongs to no session.
Revocation == INSTANCE FlowRevocation WITH
  Pods <- {p1, p2}, Flows <- {f1, f2}, Sessions <- {s1}, flowPod <- f1 :> p2 @@ f2 :> p2,
  flowSess <- f1 :> s1 @@ f2 :> NoSession, home <- s1 :> p1, Lossy <- {p2},
  inbox <- sinbox, flow <- sflow, tracked <- stracked, revoked <- srevoked

Decrypt == INSTANCE Decryptor WITH
  MaxGen <- 2, MaxVer <- 2, OnVersions <- {0, 2}, Callers <- {d1}

Run == INSTANCE AgentRun WITH Refs <- {r1}, Static <- {r1}, Streams <- {}, MaxSess <- 2

-----------------------------------------------------------------------------
(* The services.                                                           *)

D(req, cfg) == [req |-> req, cfg |-> cfg]

\* web requires db.
Pair == [s \in {web, db} |-> D(IF s = db THEN {} ELSE {db}, 0)]

\* Reloads change the requirement of web and its runtime, and remove either.
PairReloads == {
  [s \in {web, db} |-> D({}, 0)],
  [s \in {web, db} |-> D(IF s = db THEN {} ELSE {db}, 1)],
  [s \in {db} |-> D({}, 0)],
  [s \in {web} |-> D({}, 1)],
  [s \in {web} |-> D({db}, 0)]}

\* web without its requirement, or with another runtime; db with another runtime.
Changes == {[svc |-> web, def |-> D({}, 0)], [svc |-> web, def |-> D({db}, 1)],
            [svc |-> db, def |-> D({}, 1)]}

B(faults, refreshes, reloads, requests, traffic) ==
  [faults |-> faults, refreshes |-> refreshes, reloads |-> reloads, requests |-> requests,
   traffic |-> traffic]

\* A behaviour has a reload under traffic, or a refresh, or a fault under
\* traffic, or two requests, or a request under traffic.
FewEach == {B(0, 0, 1, 0, 1), B(0, 1, 0, 0, 0), B(1, 0, 0, 0, 1), B(0, 0, 0, 2, 0),
            B(0, 0, 0, 1, 1)}

\* A change that is cut short before a refresh.
OneChange == {B(0, 1, 0, 1, 0)}

\* web has traffic once.
OneRequest == {B(0, 0, 0, 0, 1)}

Resting == Tracker!Init /\ Decrypt!Init /\ Revocation!Init /\ Run!Init

ServicesInit == part = "services" /\ MutInit /\ Resting
ServicesNext == MutNext /\ UNCHANGED <<part, otherVars>>
ServicesSpec == ServicesInit /\ [][ServicesNext]_all

-----------------------------------------------------------------------------
(* Liveness.                                                               *)

Decisions == {f1} \X {"handler", "loop"}

\* Later starts, which the components reach.
\* The policy has changed, and p2 is about to ask again about the flow that is
\* spliced.
Rechecking ==
  /\ policy = 1 /\ facts = 0 /\ authzGen = p1 :> 2 @@ p2 :> 1
  /\ authzCache = [p \in {p1, p2} |-> -1] /\ authzLoads = {}
  /\ pc = [x \in {p1, p2, w1} |-> "idle"] /\ inbox = [p \in {p1, p2} |-> 0]
  /\ reqSt = [r \in Decisions |-> "idle"] /\ reqGen = [r \in Decisions |-> 0]
  /\ reqPod = [r \in Decisions |-> IF r[2] = "loop" THEN p1 ELSE p2]
  /\ reqAz = [r \in Decisions |-> IF r[2] = "loop" THEN -1 ELSE 0] /\ reqFx = reqAz
  /\ flow = f1 :> "spliced" /\ tracked = {f1} /\ revoked = {} /\ flushed = {f1} /\ okNow = {}
  /\ reeval = p1 :> "idle" @@ p2 :> "check" /\ pending = {}
  /\ checks = p1 :> {} @@ p2 :> {f1} /\ tries = [r \in Decisions |-> 0]

\* The first request for a certificate has failed.
Refused ==
  /\ ver = 0 /\ owed = FALSE /\ flushMsg = {}
  /\ session = [gen |-> 1, st |-> "open", acked |-> TRUE] /\ gen = 1 /\ bound = TRUE
  /\ state = Decrypt!None /\ disabled = Decrypt!None /\ retryAt = TRUE
  /\ run = Decrypt!NoRun /\ rerun = FALSE /\ timer = FALSE /\ caller = d1 :> "idle"

\* A request has woken web, which waits for db, and db has started.
DbRuns ==
  /\ def = Pair /\ saved = Pair /\ mut = NoMut
  /\ svc = web :> NewService @@ db :> [NewService EXCEPT !.state = "running", !.alive = TRUE]
  /\ active = {web} /\ requirements = {<<web, db>>} /\ dependents = {<<web, db>>}
  /\ call = web :> [NoCall EXCEPT !.pc = "wake", !.def = def[web], !.await = {db}, !.added = {db}]
            @@ db :> [NoCall EXCEPT !.pc = "release"]
  /\ stop = [s \in {web, db} |-> NoStop] /\ tasks = {} /\ refresh = NoRefresh
  /\ deferred = {} /\ reload = NoReload /\ runtime = web :> "stopped" @@ db :> "running"
  /\ budget = B(0, 0, 0, 0, 0)

LiveInit ==
  /\ part \in {"flows", "revocation", "decrypt", "run", "services"}
  /\ Tracker!Init \/ (part = "flows" /\ Rechecking)
  /\ Decrypt!Init \/ (part = "decrypt" /\ Refused)
  /\ MutInit \/ (part = "services" /\ DbRuns)
  /\ Revocation!Init /\ Run!Init

LiveNext ==
  /\ UNCHANGED part
  /\ IF part = "flows" THEN Tracker!Next ELSE UNCHANGED flowVars
  /\ IF part = "revocation" THEN Revocation!Next ELSE UNCHANGED revVars
  /\ IF part = "decrypt" THEN Decrypt!Next ELSE UNCHANGED decryptVars
  /\ IF part = "run" THEN Run!Next ELSE UNCHANGED runVars
  /\ IF part = "services" THEN Next /\ UNCHANGED mutVars ELSE UNCHANGED allVars

\* Goroutines run; a database read ends; the bus hands over what it took.
TrackerFairness ==
  /\ WF_flowVars(part = "flows" /\ Tracker!WriterStep(w1))
  /\ \A p \in {p1, p2} :
       /\ WF_flowVars(part = "flows" /\ Tracker!BusStep(p))
       /\ WF_flowVars(part = "flows" /\ (Tracker!Collect(p) \/ Tracker!LoopDone(p)))
  /\ WF_flowVars(part = "flows" /\ Tracker!RecheckStep(f1))

\* The ticker ticks, the session store answers now and then, and a handler
\* whose connections were closed returns.
RevocationFairness ==
  /\ \A p \in {p1, p2} :
       WF_revVars(part = "revocation" /\ (\/ Revocation!LiveSessions(p) \/ Revocation!NextTick(p)
                                          \/ Revocation!SweepSession(p, s1)
                                          \/ Revocation!SweepFails(p, s1)))
  /\ SF_revVars(part = "revocation" /\ Revocation!SweepSession(p2, s1))
  /\ \A f \in {f1, f2} : WF_revVars(part = "revocation" /\ f \in srevoked /\ Revocation!Close(f))

\* The request is answered or fails, its goroutine goes on, timers fire, and
\* the client of the proxy tries again while the agent is connected.
DecryptFairness ==
  /\ WF_decryptVars(part = "decrypt" /\ Decrypt!SendFlush)
  /\ WF_decryptVars(part = "decrypt" /\ Decrypt!Detach)
  /\ WF_decryptVars(part = "decrypt" /\ Decrypt!RetryDue)
  /\ WF_decryptVars(part = "decrypt" /\ (Decrypt!Answer \/ Decrypt!RequestFails \/ Decrypt!RunDone))
  /\ SF_decryptVars(part = "decrypt" /\ Decrypt!Answer)
  /\ \A g \in Decrypt!Gens : WF_decryptVars(part = "decrypt" /\ Decrypt!Flush(g))
  /\ WF_decryptVars(part = "decrypt" /\ ((bound /\ Decrypt!Connect(d1)) \/ Decrypt!Current(d1)))

\* The loop takes its steps, a session ends when its context is cancelled, a
\* dial succeeds now and then.
RunFairness ==
  WF_runVars(part = "run" /\ Run!RunStep) /\ SF_runVars(part = "run" /\ Run!Connect)

\* Goroutines run, driver calls return, release functions are called.  A
\* goroutine that waits for Manager.mu has it in the end, also if others keep
\* asking for stops (sync.Mutex does not starve a waiter).
ManagerFairness ==
  /\ \A s \in {web, db} :
       /\ SF_vars(part = "services" /\ CallStep(s))
       /\ WF_vars(part = "services" /\ StopDone(s))
       /\ WF_vars(part = "services" /\ \E t \in tasks :
            t.req = s /\ (RunRelease(t) \/ RunIdleStop(t)))
  /\ WF_vars(part = "services" /\ (\/ \E s \in {web, db} : Observe(s)
                                     \/ RefreshApply \/ FinishRefresh))
  /\ WF_vars(part = "services" /\ Apply)

LiveSpec ==
  /\ LiveInit /\ [][LiveNext]_all
  /\ TrackerFairness /\ RevocationFairness /\ DecryptFairness /\ RunFairness
  /\ ManagerFairness

\* Tracker.Reevaluate confirms or revokes every flow an earlier policy allowed.
FlowSettles == Tracker!FlowSettles

\* The sweep of Tracker closes the flows of a session that is gone.
EndedFlowCloses == Revocation!EndedFlowCloses

\* The decryptor learns the settings again whatever flushes and failures come.
KeepsLearning == Decrypt!KeepsLearning

\* Agent.Run ends for a fatal cause and reconnects after a transient one.
StopsOrReconnects == Run!StopsOrReconnects
=============================================================================
