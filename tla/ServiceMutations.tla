--------------------------- MODULE ServiceMutations ---------------------------
(***************************************************************************)
(* The control plane's changes of services, on top of ServiceManager: the  *)
(* handlers of controlplane/network_services.go and service_types.go that  *)
(* run under servicesSem, and services.Reservation.                        *)
(*                                                                         *)
(* A handler reserves the manager (no admissions, no idle stops, nothing   *)
(* in flight), checks, stops, saves to the store, applies what the store   *)
(* holds, and starts.  Every wait may be cut short by the request's        *)
(* context.                                                                *)
(***************************************************************************)
EXTENDS ServiceManager

CONSTANTS
  Updates,     \* [svc, def]: the definitions a request may carry
  Operations   \* the requests: create, update, restart, delete, start, stop

ASSUME MutationConstants ==
  /\ Updates \subseteq [svc : Services, def : Definition]
  /\ Operations \subseteq {"create", "update", "restart", "delete", "start", "stop"}

VARIABLES
  saved,  \* the stored definitions
  mut     \* the request that holds servicesSem

mutVars == <<saved, mut>>
allVars == <<vars, mutVars>>

NoMut == [pc |-> "none", op |-> "stop", svc |-> CHOOSE s \in Services : TRUE,
          def |-> [req |-> {}, cfg |-> 0]]

MutInit == Init /\ saved = FirstDefs /\ mut = NoMut

Goto(pc) == mut' = [mut EXCEPT !.pc = pc]
managerRest == <<active, requirements, dependents, tasks, deferred, runtime, budget>>

-----------------------------------------------------------------------------
(* The end of a request, from wherever it is.                              *)

\* The deferred functions of Reserve and of the handler.
End == mut' = NoMut /\ reload' = NoReload

invalidate(s) ==
  IF s \in Loaded THEN [svc EXCEPT ![s].inval = TRUE, ![s].defErr = TRUE] ELSE svc

BugFailQuietly ==
  /\ mut.pc \in {"reserve", "check", "stop", "save", "apply", "reconcile", "starting"}
  /\ End
  /\ UNCHANGED <<saved, def, svc, call, stop, refresh, managerRest>>

\* A check fails, the store refuses, or the context is over.  Once a change is
\* saved and not applied, the service is invalidated.
Fail ==
  /\ mut.pc \in {"reserve", "check", "stop", "save", "apply", "reconcile", "starting"}
  /\ End
  /\ IF mut.pc \in {"apply", "reconcile"} /\ mut.op \in {"update", "restart"}
     THEN svc' = invalidate(mut.svc) /\ refresh' = Touch({mut.svc})
     ELSE UNCHANGED <<svc, refresh>>
  /\ UNCHANGED <<saved, def, call, stop, managerRest>>

-----------------------------------------------------------------------------
(* The steps of a request.                                                 *)

\* What a request may ask for: a stored service, or a new one.
Asks(op, s) ==
  /\ op \in Operations
  /\ (op = "create") # (s \in DOMAIN saved)
  /\ op \in {"start", "stop"} => s \in Loaded
  /\ op = "delete" => \A o \in DOMAIN saved : s \notin saved[o].req

Request(op, s, d) ==
  /\ mut.pc = "none" /\ Admitted
  /\ Spend("requests")
  /\ Asks(op, s)
  /\ d.req \subseteq DOMAIN saved \ {s}
  /\ mut' = [pc |-> "reserve", op |-> op, svc |-> s, def |-> d]
  /\ reload' = [st |-> "reserving", defs |-> FirstDefs]
  /\ UNCHANGED <<saved, def, svc, call, stop, refresh, active, requirements, dependents, tasks,
                 deferred, runtime>>

\* The stored definitions a request depends on (authorizeServiceGraph): the
\* least set with the services ss and all that is required by one of it.
Graph(ss) ==
  LET closed(X) == \A s \in X \cap DOMAIN saved : saved[s].req \subseteq X IN
  {s \in Services : \A X \in SUBSET Services : ss \subseteq X /\ closed(X) => s \in X}

Expected ==
  Graph(mut.def.req \cup IF mut.op = "create" THEN {} ELSE {mut.svc})

\* Reserve: nothing is in flight, and the manager has what the store had.
Reserve ==
  /\ mut.pc = "reserve"
  /\ Quiet
  /\ \A s \in Expected : s \in Loaded /\ def[s] = saved[s]
  /\ reload' = [reload EXCEPT !.st = "reserved"]
  /\ Goto(CASE mut.op \in {"update", "restart"} -> "check"
            [] mut.op \in {"delete", "stop"} -> "stop"
            [] mut.op = "create" -> "save"
            [] mut.op = "start" -> "start")
  /\ UNCHANGED <<saved, def, svc, call, stop, refresh, managerRest>>

\* CheckUpdate: a change of what runs needs a service at rest, or a restart.  If
\* the driver does not say what runs, only a stop of ours counts as rest.
CheckUpdate ==
  LET s == mut.svc
      alike == mut.def.cfg = def[s].cfg IN
  /\ mut.pc = "check"
  /\ \E seen \in {runtime[s], "error"} :
       LET atRest == (seen = "stopped" \/ (seen = "error" /\ svc[s].byUs)) /\ ~runtimeProtected(s) IN
       /\ IF seen = "error" THEN ~alike /\ Fault ELSE UNCHANGED budget
       /\ svc' = [svc EXCEPT ![s].alive = @ \/ (~alike /\ seen \in {"running", "partial"})]
       /\ IF alike \/ (Holders(s) = {} /\ (mut.op = "restart" \/ atRest))
          THEN Goto(IF mut.op = "restart" THEN "stop" ELSE "save") /\ UNCHANGED reload
          ELSE End
  /\ UNCHANGED <<saved, def, call, stop, refresh, active, requirements, dependents, tasks,
                 deferred, runtime>>

\* Reservation.Stop and its releases.
Stop ==
  /\ mut.pc = "stop"
  /\ BeginStop(mut.svc, "reserve")
  /\ Goto("stopping")
  /\ UNCHANGED <<saved, reload, def, svc, call, managerRest>>

Stopped ==
  /\ mut.pc = "stopping" /\ ~stop[mut.svc].on
  /\ \A t \in tasks : t.root # "reserve"
  /\ \A s \in Services : stop[s].on => stop[s].root # "reserve"
  /\ IF svc[mut.svc].err \/ mut.op = "stop" THEN End
     ELSE Goto("save") /\ UNCHANGED reload
  /\ UNCHANGED <<saved, def, svc, call, stop, refresh, managerRest>>

\* The store's transaction; a delete invalidates at once.
Save ==
  /\ mut.pc = "save"
  /\ saved' = IF mut.op = "delete"
              THEN [s \in DOMAIN saved \ {mut.svc} |-> saved[s]]
              ELSE [s \in DOMAIN saved \cup {mut.svc} |-> IF s = mut.svc THEN mut.def ELSE saved[s]]
  /\ svc' = IF mut.op = "delete" THEN invalidate(mut.svc) ELSE svc
  /\ refresh' = IF mut.op = "delete" THEN Touch({mut.svc}) ELSE refresh
  /\ Goto("apply")
  /\ UNCHANGED <<reload, def, call, stop, managerRest>>

BugApplyLoaded ==
  /\ mut.pc = "apply"
  /\ Install([s \in DOMAIN saved \cap Loaded |-> saved[s]])
  /\ Goto("reconcile")
  /\ UNCHANGED <<saved, reload, stop, managerRest>>

\* Reservation.Apply of what the store holds, then its reconciliation.
ApplyReserved ==
  /\ mut.pc = "apply"
  /\ Install(saved)
  /\ Goto("reconcile")
  /\ UNCHANGED <<saved, reload, stop, managerRest>>

Reconciled ==
  /\ mut.pc = "reconcile"
  /\ \A s \in Services : ~InFlight(s)
  /\ IF mut.op = "restart" THEN Goto("start") /\ UNCHANGED reload ELSE End
  /\ UNCHANGED <<saved, def, svc, call, stop, refresh, managerRest>>

\* Reservation.Start.
Start ==
  LET s == mut.svc IN
  /\ mut.pc = "start"
  /\ IF s \in Loaded /\ ~svc[s].inval /\ validateRequirements(s, def, svc)
     THEN /\ call' = [call EXCEPT ![s] = IF InFlight(s) THEN @ ELSE NewCall(s)]
          /\ refresh' = Touch({s})
          /\ Goto("starting") /\ UNCHANGED reload
     ELSE End /\ UNCHANGED <<call, refresh>>
  /\ UNCHANGED <<saved, def, svc, stop, managerRest>>

Started ==
  /\ mut.pc = "starting" /\ ~InFlight(mut.svc)
  /\ End
  /\ UNCHANGED <<saved, def, svc, call, stop, refresh, managerRest>>

\* reloadServices, under servicesSem: Apply of the rows, which another process
\* may have changed.
ReloadServices ==
  /\ mut.pc = "none"
  /\ ApplyBegin
  /\ saved' = reload'.defs
  /\ UNCHANGED mut

-----------------------------------------------------------------------------

MutNext ==
  \/ \E op \in Operations : \E u \in Updates : Request(op, u.svc, u.def)
  \/ Fail \/ Reserve \/ CheckUpdate \/ Stop \/ Stopped \/ Save
  \/ ApplyReserved \/ Reconciled \/ Start \/ Started
  \/ ReloadServices
  \/ /\ \/ \E s \in Services : \/ Acquire(s) \/ ReleaseTraffic(s) \/ EnsureRunning(s)
                                \/ StopRequest(s) \/ RuntimeFault(s)
        \/ Background \/ StopIdle \/ RefreshBegin \/ Apply
     /\ UNCHANGED mutVars

MutSpec == MutInit /\ [][MutNext]_allVars

-----------------------------------------------------------------------------

\* Between requests the manager runs every service by its stored definition or
\* says that it does not: a change that was saved and whose application was
\* cut short is marked (Invalidate), and so is one that could not be taken
\* over because the service runs.
SavedOrMarked ==
  reload.st = "open" =>
    \A s \in Loaded :
      (s \in DOMAIN saved /\ def[s] = saved[s]) \/ svc[s].inval \/ svc[s].defErr

\* A change of what runs is never left beside a runtime of the old kind: when
\* an update was accepted and applied, the manager has it, or shows that it could
\* not take it over because the service is in use (Apply).
AcceptedIsApplied ==
  mut.pc \in {"reconcile", "start", "starting"} /\ mut.op \in {"create", "update", "restart"} =>
    mut.svc \in Loaded /\ (def[mut.svc] = mut.def \/ svc[mut.svc].defErr)

\* A service that is invalidated is not started by its old definition: the old
\* runtime is out of use until a reload restores the stored one.
InvalidatedNotStarted ==
  \A s \in Loaded \cap DOMAIN saved :
    svc[s].inval /\ def[s] # saved[s] => call[s].pc \notin {"ensure", "start", "poll"}
===============================================================================
