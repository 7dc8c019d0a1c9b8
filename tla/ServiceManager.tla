---------------------------- MODULE ServiceManager ----------------------------
(***************************************************************************)
(* The manager of wake-on-demand services: services/manager.go and         *)
(* services/requirements.go.                                               *)
(*                                                                         *)
(* Every critical section under Manager.mu is an action; calls of a driver *)
(* and waits for channels lie between them.  A service has at most one     *)
(* start in flight (call) and at most one stop (stop).  Whoever starts a   *)
(* service holds its requirements; holds are given back by release         *)
(* functions that run after the critical section that detached them, may   *)
(* stop the requirement, and then give back the holds of that one.         *)
(*                                                                         *)
(* The passing of time is a choice: an idle timeout may have elapsed       *)
(* whenever it is looked at.                                               *)
(***************************************************************************)
EXTENDS Naturals, FiniteSets

CONSTANTS
  Services,
  OnDemand,    \* the services with an idle timeout of minus one
  IdleStops,   \* the services with a positive idle timeout
  FirstDefs,   \* the definitions at the start: a function of service ids
  Reloads,     \* what Apply may be called with
  Budgets      \* bounds on the faults (driver calls that fail, runtimes that come or
               \* go), the refreshes, reloads, requests and the traffic of a behaviour

\* A definition: the services it requires and what else it says.
Definition == [req : SUBSET Services, cfg : Nat]
Definitions(defs) == DOMAIN defs \subseteq Services /\ defs \in [DOMAIN defs -> Definition]

ASSUME ManagerConstants ==
  /\ OnDemand \subseteq Services /\ IdleStops \subseteq Services \ OnDemand
  /\ Definitions(FirstDefs) /\ \A defs \in Reloads : Definitions(defs)
  /\ Budgets \subseteq [faults : Nat, refreshes : Nat, reloads : Nat, requests : Nat, traffic : Nat]

VARIABLES
  def,           \* Manager.services: the definitions, [req, cfg] by id
  svc,           \* service: state, runtimeAlive, stoppedByUs, lastError,
                 \* definitionError and invalidated
  active,        \* the services with traffic: service.active > 0
  requirements,  \* <<owner, required>>: the keys of owner.requirements
  dependents,    \* <<owner, required>>: the keys of required.dependents
  call,          \* call[s]: service.inflight and its goroutine
  stop,          \* stop[s]: service.stopping and who stops
  tasks,         \* release functions and idle stops that are to run
  refresh,       \* Manager.Refresh: what it has seen
  deferred,      \* Manager.deferredStops
  reload,        \* reloadDone and reserved, and what is to be applied
  runtime,       \* what really runs
  budget         \* what is left of the budget

vars == <<def, svc, active, requirements, dependents, call, stop, tasks, refresh, deferred,
          reload, runtime, budget>>
holdVars == <<requirements, dependents>>

Loaded == DOMAIN def
States == {"unknown", "running", "stopped", "sleeping", "starting", "partial", "unhealthy", "error"}
Roots == Services \cup {"nobody", "refresh", "reserve"}

NewService == [state |-> "unknown", alive |-> FALSE, byUs |-> FALSE, err |-> FALSE,
               defErr |-> FALSE, inval |-> FALSE]
NoCall == [pc |-> "none", def |-> [req |-> {}, cfg |-> 0], wake |-> {}, held |-> {},
           await |-> {}, added |-> {}, failed |-> FALSE]
NoStop == [on |-> FALSE, root |-> "nobody"]
NoRefresh == [pc |-> "idle", valid |-> {}, calls |-> {}, seen |-> [s \in {} |-> "error"]]
NoReload == [st |-> "open", defs |-> FirstDefs]

TypeOK ==
  /\ Definitions(def)
  /\ svc \in [Services -> [state : States, alive : BOOLEAN, byUs : BOOLEAN, err : BOOLEAN,
                           defErr : BOOLEAN, inval : BOOLEAN]]
  /\ active \subseteq Loaded
  /\ requirements \subseteq Services \X Services
  /\ dependents \subseteq Services \X Services
  /\ \A s \in Services : call[s].pc \in
       {"none", "stopping", "wake", "ensure", "start", "poll", "failed", "done", "release"}
  /\ stop \in [Services -> [on : BOOLEAN, root : Roots]]
  /\ tasks \subseteq [kind : {"release", "idle"}, owner : Services, req : Services,
                      live : BOOLEAN, root : Roots]
  /\ refresh.pc \in {"idle", "observe", "reconcile"}
  /\ deferred \subseteq Services
  /\ reload.st \in {"open", "apply", "reserving", "reserved"}
  /\ runtime \in [Services -> {"stopped", "partial", "running"}]

Init ==
  /\ def = FirstDefs
  /\ svc = [s \in Services |-> NewService]
  /\ active = {} /\ requirements = {} /\ dependents = {}
  /\ call = [s \in Services |-> NoCall]
  /\ stop = [s \in Services |-> NoStop]
  /\ tasks = {} /\ refresh = NoRefresh /\ deferred = {}
  /\ reload = NoReload
  /\ runtime = [s \in Services |-> "stopped"]
  /\ budget \in Budgets

-----------------------------------------------------------------------------
(* What the critical sections share.                                       *)

Spend(what) == budget[what] > 0 /\ budget' = [budget EXCEPT ![what] = @ - 1]

\* A step that goes wrong outside of the manager.
Fault == Spend("faults")

Admitted == reload.st = "open"
Holders(r) == {o \in Services : <<o, r>> \in dependents}
InFlight(s) == call[s].pc # "none"
Quiet == \A s \in Services : ~InFlight(s) /\ ~stop[s].on
refreshing == refresh.pc # "idle"

\* store.ValidateRequirements over the services that are loaded and valid.
validateRequirements(s, defs, info) ==
  LET graph == {x \in DOMAIN defs : ~info[x].inval} \cup {s} IN
  \/ defs[s].req = {}
  \/ /\ \A x \in graph : defs[x].req \subseteq graph
     /\ ~ \E X \in SUBSET graph : X # {} /\ \A x \in X : defs[x].req \cap X # {}

\* beginEnsure starts a call: its goroutine first waits for a stop under way.
NewCall(s) ==
  [NoCall EXCEPT !.pc = IF stop[s].on THEN "stopping" ELSE "wake",
                 !.def = def[s], !.wake = def[s].req]

\* A change of service.version is seen by a refresh that is under way.
Touch(ss) == [refresh EXCEPT !.valid = @ \ ss]

\* Release functions for the holds of an owner on some requirements.
Releases(o, rs, root) ==
  [kind : {"release"}, owner : {o}, req : rs, live : {TRUE}, root : {root}]

\* holdRequirementLocked replaces what an earlier hold left in dependents; the
\* release function of that one does nothing any more.
Superseded(ts, new) ==
  {[t EXCEPT !.live = @ /\ ~(t.kind = "release" /\ <<t.owner, t.req>> \in new)] : t \in ts}

idleEligible(s, deps) ==
  /\ ~refreshing
  /\ s \notin active
  /\ \A o \in Services : <<o, s>> \notin deps
  /\ ~InFlight(s) /\ ~stop[s].on
  /\ svc[s].state \in {"running", "partial"} \/ svc[s].alive
  /\ s \in OnDemand \cup IdleStops

-----------------------------------------------------------------------------
(* Traffic.                                                                *)

Acquire(s) ==
  /\ Admitted /\ s \in Loaded /\ ~svc[s].inval
  /\ s \notin active
  /\ Spend("traffic")
  /\ active' = active \cup {s}
  /\ UNCHANGED <<def, svc, holdVars, call, stop, tasks, refresh, deferred, reload, runtime>>

ReleaseTraffic(s) ==
  /\ s \in active
  /\ active' = active \ {s}
  /\ UNCHANGED <<def, svc, holdVars, call, stop, tasks, refresh, deferred, reload, runtime, budget>>

-----------------------------------------------------------------------------
(* Starting: beginEnsure and runEnsure.                                    *)

\* EnsureRunning and StartAsync; a call in flight is joined.
EnsureRunning(s) ==
  /\ Admitted /\ s \in Loaded /\ ~svc[s].inval
  /\ validateRequirements(s, def, svc)
  /\ ~InFlight(s)
  /\ call' = [call EXCEPT ![s] = NewCall(s)]
  /\ refresh' = Touch({s})
  /\ UNCHANGED <<def, svc, active, holdVars, stop, tasks, deferred, reload, runtime, budget>>

AwaitStop(s) ==
  /\ call[s].pc = "stopping" /\ ~stop[s].on
  /\ call' = [call EXCEPT ![s].pc = "wake"]
  /\ UNCHANGED <<def, svc, active, holdVars, stop, tasks, refresh, deferred, reload, runtime, budget>>

\* wakeRequirements: one goroutine per requirement; it waits for a stop under
\* way, then holds the requirement ...
WakeHold(s, r) ==
  /\ call[s].pc = "wake" /\ r \in call[s].wake
  /\ \/ /\ r \notin Loaded
        /\ call' = [call EXCEPT ![s].wake = @ \ {r}, ![s].failed = TRUE]
        /\ UNCHANGED <<holdVars, tasks>>
     \/ /\ r \in Loaded /\ ~stop[r].on
        /\ requirements' = requirements \cup {<<s, r>>}
        /\ dependents' = dependents \cup {<<s, r>>}
        /\ tasks' = Superseded(tasks, {<<s, r>>} \ requirements)
        /\ call' = [call EXCEPT ![s].wake = @ \ {r}, ![s].held = @ \cup {r},
                    ![s].added = IF <<s, r>> \in requirements THEN @ ELSE @ \cup {r}]
  /\ UNCHANGED <<def, svc, active, stop, refresh, deferred, reload, runtime, budget>>

\* ... and ensures that it runs, past the admission of new requests.
WakeEnsure(s, r) ==
  /\ call[s].pc = "wake" /\ r \in call[s].held
  /\ \/ /\ svc[r].inval \/ ~validateRequirements(r, def, svc)
        /\ call' = [call EXCEPT ![s].held = @ \ {r}, ![s].failed = TRUE]
        /\ UNCHANGED refresh
     \/ /\ ~svc[r].inval /\ validateRequirements(r, def, svc)
        /\ call' = [call EXCEPT ![r] = IF InFlight(r) THEN @ ELSE NewCall(r),
                                ![s].held = @ \ {r}, ![s].await = @ \cup {r}]
        /\ refresh' = IF InFlight(r) THEN refresh ELSE Touch({r})
  /\ UNCHANGED <<def, svc, active, holdVars, stop, tasks, deferred, reload, runtime, budget>>

Woken(s) ==
  /\ call[s].pc = "wake"
  /\ call[s].wake = {} /\ call[s].held = {} /\ call[s].await = {}
  /\ IF call[s].failed
     THEN \* the start was not attempted: what was added is given back
       /\ svc' = [svc EXCEPT ![s].err = TRUE]
       /\ requirements' = requirements \ ({s} \X call[s].added)
       /\ tasks' = tasks \cup Releases(s, {r \in call[s].added : <<s, r>> \in requirements}, s)
       /\ call' = [call EXCEPT ![s].pc = "release"]
     ELSE /\ call' = [call EXCEPT ![s].pc = "ensure"]
          /\ UNCHANGED <<svc, requirements, tasks>>
  /\ UNCHANGED <<def, active, dependents, stop, refresh, deferred, reload, runtime, budget>>

markRunning(s) == [svc EXCEPT ![s].state = "running", ![s].alive = TRUE, ![s].err = FALSE,
                              ![s].byUs = FALSE]

\* ensure: it runs and is ready already, or has to be started.
EnsureState(s) ==
  /\ call[s].pc = "ensure"
  /\ \/ /\ runtime[s] = "running"
        /\ svc' = markRunning(s)
        /\ call' = [call EXCEPT ![s].pc = "done"]
        /\ UNCHANGED budget
     \/ /\ IF runtime[s] = "running" THEN Fault ELSE UNCHANGED budget
        /\ svc' = [svc EXCEPT ![s].state = "starting"]
        /\ call' = [call EXCEPT ![s].pc = "start"]
  /\ UNCHANGED <<def, active, holdVars, stop, tasks, refresh, deferred, reload, runtime>>

\* driver.Start, which may fail half-way.
DriverStart(s) ==
  /\ call[s].pc = "start"
  /\ \/ /\ runtime' = [runtime EXCEPT ![s] = "running"]
        /\ call' = [call EXCEPT ![s].pc = "poll"]
        /\ UNCHANGED <<svc, budget>>
     \/ /\ Fault
        /\ \E now \in {"partial", runtime[s]} : runtime' = [runtime EXCEPT ![s] = now]
        /\ svc' = [svc EXCEPT ![s].state = "error", ![s].err = TRUE]
        /\ call' = [call EXCEPT ![s].pc = "failed"]
  /\ UNCHANGED <<def, active, holdVars, stop, tasks, refresh, deferred, reload>>

\* The readiness checks until the start timeout.
Poll(s) ==
  /\ call[s].pc = "poll"
  /\ \/ /\ runtime[s] = "running"
        /\ svc' = markRunning(s)
        /\ call' = [call EXCEPT ![s].pc = "done"]
        /\ UNCHANGED budget
     \/ /\ IF runtime[s] = "running" THEN Fault ELSE UNCHANGED budget
        /\ svc' = [svc EXCEPT ![s].state = "error", ![s].err = TRUE]
        /\ call' = [call EXCEPT ![s].pc = "failed"]
  /\ UNCHANGED <<def, active, holdVars, stop, tasks, refresh, deferred, reload, runtime>>

\* runEnsure after a failure: the holds stay unless nothing runs.
Failed(s) ==
  /\ call[s].pc = "failed"
  /\ \E retain \in {TRUE, runtime[s] # "stopped"} :
       LET back == IF retain THEN {} ELSE {r \in call[s].added : <<s, r>> \in requirements} IN
       /\ svc' = [svc EXCEPT ![s].err = TRUE, ![s].alive = @ \/ retain]
       /\ requirements' = requirements \ ({s} \X back)
       /\ tasks' = tasks \cup Releases(s, back, s)
  /\ call' = [call EXCEPT ![s].pc = "release", ![s].failed = TRUE]
  /\ UNCHANGED <<def, active, dependents, stop, refresh, deferred, reload, runtime, budget>>

\* runEnsure after a success: the holds that the definition does not name go.
Succeeded(s) ==
  LET back == {r \in Services : <<s, r>> \in requirements} \ call[s].def.req IN
  /\ call[s].pc = "done"
  /\ call' = [call EXCEPT ![s].pc = "release"]
  /\ requirements' = requirements \ ({s} \X back)
  /\ tasks' = tasks \cup Releases(s, back, s)
  /\ UNCHANGED <<def, svc, active, dependents, stop, refresh, deferred, reload, runtime, budget>>

BugWakeNobody(s) ==
  /\ call[s].pc = "release"
  /\ call' = [call EXCEPT ![s] = NoCall]
  /\ refresh' = [Touch({s}) EXCEPT !.calls = @ \ {s}]
  /\ UNCHANGED <<def, svc, active, holdVars, stop, tasks, deferred, reload, runtime, budget>>

\* The last critical section of runEnsure: its releases have run, the call ends
\* and whoever waits for it has its result.
CallDone(s) ==
  /\ call[s].pc = "release"
  /\ \A t \in tasks : t.root # s
  /\ \A r \in Services : stop[r].on => stop[r].root # s
  /\ call' = [o \in Services |->
       IF o = s THEN NoCall
       ELSE IF s \in call[o].await
       THEN [call[o] EXCEPT !.await = @ \ {s}, !.failed = @ \/ call[s].failed]
       ELSE call[o]]
  /\ refresh' = [Touch({s}) EXCEPT !.calls = @ \ {s}]
  /\ UNCHANGED <<def, svc, active, holdVars, stop, tasks, deferred, reload, runtime, budget>>

-----------------------------------------------------------------------------
(* Stopping: stopServiceIfEligible and the release functions.              *)

BeginStop(s, root) ==
  /\ s \in Loaded /\ Holders(s) = {}
  /\ ~InFlight(s) /\ ~stop[s].on
  /\ stop' = [stop EXCEPT ![s] = [on |-> TRUE, root |-> root]]
  /\ refresh' = Touch({s})

\* Manager.Stop.
StopRequest(s) ==
  /\ Admitted
  /\ BeginStop(s, "nobody")
  /\ UNCHANGED <<def, svc, active, holdVars, call, tasks, deferred, reload, runtime, budget>>

\* driver.Stop has returned, with an error or not, and what runs was looked at.
StopDone(s) ==
  /\ stop[s].on
  /\ \E err \in BOOLEAN : \E stopped \in {~err, TRUE} :
       /\ IF err THEN Fault ELSE UNCHANGED budget
       /\ \E now \in {"stopped", runtime[s]} :
            /\ stopped => now = "stopped"
            /\ runtime' = [runtime EXCEPT ![s] = now]
       /\ svc' = [svc EXCEPT ![s] = IF stopped
            THEN [@ EXCEPT !.state = "sleeping", !.byUs = TRUE, !.err = err, !.alive = FALSE]
            ELSE [@ EXCEPT !.err = TRUE]]
       /\ LET back == IF stopped THEN {r \in Services : <<s, r>> \in requirements} ELSE {} IN
            /\ requirements' = requirements \ ({s} \X back)
            /\ tasks' = tasks \cup Releases(s, back, stop[s].root)
  /\ stop' = [stop EXCEPT ![s] = NoStop]
  /\ refresh' = Touch({s})
  /\ UNCHANGED <<def, active, dependents, call, deferred, reload>>

BugReleaseBlindly(t) ==
  /\ t \in tasks /\ t.kind = "release"
  /\ dependents' = dependents \ {<<t.owner, t.req>>}
  /\ tasks' = tasks \ {t}
  /\ UNCHANGED <<def, svc, active, requirements, call, stop, refresh, deferred, reload, runtime, budget>>

\* A release function: the hold is gone, and the requirement is stopped if it
\* is there on demand only and nothing else needs it.
RunRelease(t) ==
  LET gone == dependents \ {<<t.owner, t.req>>} IN
  /\ t \in tasks /\ t.kind = "release"
  /\ \/ /\ ~t.live
        /\ tasks' = tasks \ {t}
        /\ UNCHANGED <<dependents, deferred>>
     \/ /\ t.live
        /\ dependents' = gone
        /\ deferred' = IF t.req \in OnDemand /\ refreshing THEN deferred \cup {t.req} ELSE deferred
        /\ \/ tasks' = tasks \ {t}
           \/ /\ t.req \in OnDemand /\ idleEligible(t.req, gone)
              /\ tasks' = (tasks \ {t}) \cup {[t EXCEPT !.kind = "idle"]}
  /\ UNCHANGED <<def, svc, active, requirements, call, stop, refresh, reload, runtime, budget>>

\* stopServiceIfEligible for an idle stop: everything is looked at again.
RunIdleStop(t) ==
  /\ t \in tasks /\ t.kind = "idle"
  /\ tasks' = tasks \ {t}
  /\ \/ UNCHANGED <<stop, refresh>>
     \/ /\ reload.st \notin {"reserving", "reserved"}
        /\ idleEligible(t.req, dependents)
        /\ BeginStop(t.req, t.root)
  /\ UNCHANGED <<def, svc, active, holdVars, call, deferred, reload, runtime, budget>>

IdleTask(s) == [kind |-> "idle", owner |-> s, req |-> s, live |-> TRUE, root |-> "nobody"]

\* stopIdle: the services that have been idle for long enough.
StopIdle ==
  /\ Admitted
  /\ \E idle \in SUBSET {s \in Loaded : idleEligible(s, dependents)} :
       idle # {} /\ tasks' = tasks \cup {IdleTask(s) : s \in idle}
  /\ UNCHANGED <<def, svc, active, holdVars, call, stop, refresh, deferred, reload, runtime, budget>>

-----------------------------------------------------------------------------
(* Refresh.                                                                *)

RefreshBegin ==
  /\ Admitted /\ ~refreshing /\ Spend("refreshes")
  /\ refresh' = [pc |-> "observe", valid |-> Loaded, calls |-> {}, seen |-> [s \in Loaded |-> "none"]]
  /\ UNCHANGED <<def, svc, active, holdVars, call, stop, tasks, deferred, reload, runtime>>

\* driver.State and the readiness check of one service.
Observe(s) ==
  /\ refresh.pc = "observe" /\ s \in DOMAIN refresh.seen
  /\ refresh.seen[s] = "none"
  /\ \E what \in {runtime[s], "error", "unhealthy"} :
       /\ what = "unhealthy" => runtime[s] = "running"
       /\ IF what = runtime[s] THEN UNCHANGED budget ELSE Fault
       /\ refresh' = [refresh EXCEPT !.seen[s] = what]
  /\ UNCHANGED <<def, svc, active, holdVars, call, stop, tasks, deferred, reload, runtime>>

\* What an observation makes of a service.
Observed(v, what) ==
  IF what = "error" THEN [v EXCEPT !.err = @ \/ v.state = "unknown"]
  ELSE IF what = "unhealthy" THEN [v EXCEPT !.alive = TRUE, !.err = TRUE, !.state = "unhealthy"]
  ELSE IF what = "running"
  THEN IF v.state = "running" THEN [v EXCEPT !.alive = TRUE]
       ELSE [v EXCEPT !.alive = TRUE, !.byUs = FALSE, !.err = FALSE, !.state = "running"]
  ELSE IF what = "partial" THEN [v EXCEPT !.alive = TRUE, !.state = "partial"]
  ELSE [v EXCEPT !.alive = FALSE,
                 !.state = IF @ = "error" THEN @ ELSE IF v.byUs THEN "sleeping" ELSE "stopped"]

BugApplyStale(s) == s \in DOMAIN refresh.seen /\ s \in Loaded /\ ~stop[s].on

\* Nothing has happened to the service since it was looked at.
Unchanged(s) ==
  /\ s \in refresh.valid /\ s \in Loaded
  /\ ~svc[s].inval /\ ~InFlight(s) /\ ~stop[s].on /\ svc[s].state # "starting"

\* The second half of Refresh: what was observed, then the requirements of all
\* that runs are held and ensured.
RefreshApply ==
  LET fresh == {s \in DOMAIN refresh.seen : Unchanged(s)}
      svc1 == [s \in Services |-> IF s \in fresh THEN Observed(svc[s], refresh.seen[s]) ELSE svc[s]]
      ended == {s \in fresh : refresh.seen[s] = "stopped"}
      back == {h \in requirements : h[1] \in ended}
      up == {s \in Loaded : ~InFlight(s) /\ ~stop[s].on
                            /\ svc1[s].state \in {"running", "partial", "unhealthy"}}
      bad == {s \in up : ~validateRequirements(s, def, svc1)}
      again == {s \in up \ bad : def[s].req # {}}
      added(s) == {r \in def[s].req : ~stop[r].on /\ <<s, r>> \notin requirements}
      new == UNION {{s} \X added(s) : s \in again}
  IN
  /\ refresh.pc = "observe" /\ \A s \in DOMAIN refresh.seen : refresh.seen[s] # "none"
  /\ Admitted
  /\ svc' = [s \in Services |-> IF s \in bad THEN [svc1[s] EXCEPT !.err = TRUE] ELSE svc1[s]]
  /\ requirements' = (requirements \ back) \cup new
  /\ dependents' = dependents \cup new
  /\ tasks' = Superseded(tasks, new) \cup
              UNION {Releases(h[1], {h[2]}, "refresh") : h \in back}
  /\ call' = [s \in Services |->
       IF s \in again THEN [NewCall(s) EXCEPT !.added = added(s)] ELSE call[s]]
  /\ refresh' = [refresh EXCEPT !.pc = "reconcile", !.valid = {}, !.calls = again]
  /\ UNCHANGED <<def, active, stop, deferred, reload, runtime, budget>>

\* Refresh returns: its releases have run, its calls are done, and the stops
\* that were put off are tried (finishRefresh).
FinishRefresh ==
  /\ refresh.pc = "reconcile" /\ refresh.calls = {}
  /\ \A t \in tasks : t.root # "refresh"
  /\ \A s \in Services : stop[s].root # "refresh"
  /\ refresh' = NoRefresh
  /\ tasks' = tasks \cup {IdleTask(s) : s \in deferred}
  /\ deferred' = {}
  /\ UNCHANGED <<def, svc, active, holdVars, call, stop, reload, runtime, budget>>

-----------------------------------------------------------------------------
(* Apply.                                                                  *)

runtimeProtected(s) ==
  \/ svc[s].alive \/ svc[s].state \in {"running", "partial", "unhealthy", "starting"}
  \/ s \in active \/ Holders(s) # {} \/ \E h \in requirements : h[1] = s

\* applyReserved, once nothing is in flight: the definitions that can be taken
\* over are, the others are kept and marked; then what runs is reconciled with
\* its requirements.
Install(defs) ==
  LET stuck == {s \in Loaded : runtimeProtected(s) /\
                  (s \notin DOMAIN defs \/ (s \in DOMAIN defs /\ defs[s].cfg # def[s].cfg))}
      new == [s \in DOMAIN defs \cup stuck |-> IF s \in stuck THEN def[s] ELSE defs[s]]
      same(s) == s \in Loaded /\ new[s] = def[s]
      cleared(s) == svc[s].state = "error" /\ ~same(s) /\ \A h \in requirements : h[1] # s
      svc1 == [s \in Services |->
        IF s \in stuck THEN [svc[s] EXCEPT !.defErr = TRUE]
        ELSE IF s \notin DOMAIN new \/ s \notin Loaded THEN NewService
        ELSE [svc[s] EXCEPT !.defErr = FALSE, !.inval = FALSE,
                            !.state = IF cleared(s) THEN "unknown" ELSE @,
                            !.err = IF cleared(s) THEN FALSE ELSE @]]
      up == {s \in DOMAIN new : svc1[s].state \in {"running", "partial", "unhealthy"}
                                \/ \E h \in requirements : h[1] = s}
      bad == {s \in up : ~validateRequirements(s, new, svc1)}
      again == {s \in up \ bad : new[s].req # {} \/ \E h \in requirements : h[1] = s}
  IN
  /\ Quiet
  /\ def' = new
  /\ svc' = [s \in Services |-> IF s \in bad THEN [svc1[s] EXCEPT !.err = TRUE] ELSE svc1[s]]
  /\ call' = [s \in Services |->
       IF s \in again THEN [NoCall EXCEPT !.pc = "wake", !.def = new[s], !.wake = new[s].req]
       ELSE call[s]]
  /\ refresh' = Touch({s \in Services : s \notin DOMAIN new \/ ~same(s)} \cup again)

ApplyBegin ==
  /\ Admitted /\ Spend("reloads")
  /\ \E d \in Reloads : reload' = [st |-> "apply", defs |-> d]
  /\ UNCHANGED <<def, svc, active, holdVars, call, stop, tasks, refresh, deferred, runtime>>

Apply ==
  /\ reload.st = "apply"
  /\ Install(reload.defs)
  /\ reload' = NoReload
  /\ UNCHANGED <<active, holdVars, stop, tasks, deferred, runtime, budget>>

-----------------------------------------------------------------------------

\* A runtime ends or is started by somebody else.
RuntimeFault(s) ==
  /\ Fault
  /\ \E now \in {"stopped", "running"} \ {runtime[s]} : runtime' = [runtime EXCEPT ![s] = now]
  /\ UNCHANGED <<def, svc, active, holdVars, call, stop, tasks, refresh, deferred, reload>>

CallStep(s) ==
  \/ AwaitStop(s) \/ Woken(s) \/ EnsureState(s) \/ DriverStart(s) \/ Poll(s)
  \/ Failed(s) \/ Succeeded(s) \/ CallDone(s)
  \/ \E r \in Services : WakeHold(s, r) \/ WakeEnsure(s, r)

Background ==
  \/ \E s \in Services : CallStep(s) \/ StopDone(s) \/ Observe(s)
  \/ \E t \in tasks : RunRelease(t) \/ RunIdleStop(t)
  \/ RefreshApply \/ FinishRefresh

Next ==
  \/ \E s \in Services :
       Acquire(s) \/ ReleaseTraffic(s) \/ EnsureRunning(s) \/ StopRequest(s) \/ RuntimeFault(s)
  \/ Background
  \/ StopIdle \/ RefreshBegin
  \/ ApplyBegin \/ Apply

Spec == Init /\ [][Next]_vars

-----------------------------------------------------------------------------

\* What a service holds and what it is held by agree, up to holds whose release
\* function has still to run: no hold is lost to a release function of an
\* earlier one (holdRequirementLocked), none is left behind, and a requirement
\* is not being stopped while a dependent holds it (stopServiceIfEligible,
\* wakeRequirements and Refresh in any order).
HoldsMatch ==
  /\ requirements \subseteq dependents
  /\ \A h \in dependents \ requirements :
       \E t \in tasks : t.kind = "release" /\ t.live /\ <<t.owner, t.req>> = h
  /\ \A h \in dependents : ~stop[h[2]].on

\* A service that the manager shows as running without an error has hold of
\* all it requires, whoever started it and whatever its definition was before;
\* so what it requires stays up.
RunningHoldsRequirements ==
  \A s \in Loaded :
    svc[s].state = "running" /\ ~svc[s].err /\ ~InFlight(s) /\ ~stop[s].on =>
      \A r \in def[s].req : <<s, r>> \in requirements

\* Nobody waits for a start for ever: every start ends, whatever it waits for
\* (a stop, a requirement that is starting itself, the manager's lock).
EverythingEnds == \A s \in Services : InFlight(s) ~> ~InFlight(s)
=============================================================================
