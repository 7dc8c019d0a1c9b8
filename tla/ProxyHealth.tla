----------------------------- MODULE ProxyHealth ------------------------------
(***************************************************************************)
(* Endpoints that the server itself forwards to a list of targets: the     *)
(* prober that keeps the health of every endpoint, by sweeps of its own    *)
(* and on request, and the connector that puts the targets into an order   *)
(* by what the prober knows and dials them in turn.                        *)
(***************************************************************************)
EXTENDS Integers, Sequences, FiniteSets, SequencesExt

CONSTANTS
  Endpoints,
  Targets,
  Configs,       \* what an endpoint may be: [method, targets, lb, service]
  Score,         \* rendezvousScore of the targets, for the one client with an address
  MaxChanges,    \* bound: changes of endpoints, targets and services
  MaxSweeps,     \* bound: sweeps after the first
  Wrap           \* the counters are kept modulo Wrap, a multiple of every number of targets

None == [method |-> "none", targets |-> <<>>, lb |-> "none", service |-> FALSE]

VARIABLES
  eps,        \* the endpoints in the store
  up,         \* the targets that accept a connection
  bound,      \* endpoints that an agent serves
  service,    \* the state of the services' manager
  results,    \* Prober.results
  sweep,      \* the sweep that runs
  probe,      \* a ProbeNow
  counter,    \* Connector.counters
  stream,     \* the last stream that was opened
  calm,       \* nothing has changed since the sweep began
  changes

healthVars == <<eps, up, bound, service, results, sweep, probe, counter, stream, calm, changes>>
world == <<eps, up, bound, service, changes>>

Unknown == [state |-> "unknown", known |-> {}, healthy |-> {}]
NoSweep == [pc |-> "idle", seen |-> {}, left |-> {}, n |-> 0]
NoProbe == [pc |-> "idle", ep |-> None, id |-> 0]
NoStream == [order |-> <<>>, cfg |-> None, failing |-> {}, conn |-> 0, could |-> FALSE]

TypeOK ==
  /\ eps \in [Endpoints -> Configs \cup {None}]
  /\ up \subseteq Targets /\ bound \subseteq Endpoints
  /\ DOMAIN results \subseteq Endpoints
  /\ sweep.left \subseteq sweep.seen
  /\ counter \in [Endpoints -> Nat] /\ calm \in BOOLEAN

Init ==
  /\ eps = [e \in Endpoints |-> None] /\ up = Targets /\ bound = {} /\ service = "running"
  /\ results = [e \in {} |-> Unknown] /\ sweep = NoSweep /\ probe = NoProbe
  /\ counter = [e \in Endpoints |-> 0] /\ stream = NoStream /\ calm = FALSE /\ changes = 0

Store(r, e, h) == [x \in DOMAIN r \cup {e} |-> IF x = e THEN h ELSE r[x]]
Drop(r, S) == [x \in DOMAIN r \ S |-> r[x]]

-----------------------------------------------------------------------------
(* The prober.                                                             *)

\* summarize.
Summarize(targets) ==
  LET all == ToSet(targets) IN
  [state |-> CASE all \subseteq up -> "up" [] all \cap up = {} -> "down" [] OTHER -> "degraded",
   known |-> all, healthy |-> all \cap up]

\* applyServiceState.
ApplyServiceState(h) ==
  CASE service = "gone" -> [h EXCEPT !.state = "down"]
    [] service = "starting" -> [h EXCEPT !.state = "waking"]
    [] service = "sleeping" /\ h.state # "up" -> [h EXCEPT !.state = "sleeping"]
    [] service = "error" /\ h.state # "up" -> [h EXCEPT !.state = "down"]
    [] OTHER -> h

ProbeProxy(cfg) ==
  IF cfg.targets = <<>> THEN [Unknown EXCEPT !.state = "down"]
  ELSE IF cfg.service THEN ApplyServiceState(Summarize(cfg.targets)) ELSE Summarize(cfg.targets)

ProbeBound(e) == [Unknown EXCEPT !.state = IF e \in bound THEN "up" ELSE "offline"]

\* Prober.probe of an endpoint as it was read.
Probe(e, cfg) == IF cfg.method = "proxy" THEN ProbeProxy(cfg) ELSE ProbeBound(e)

\* Run: a tick, or Trigger; sweep lists the endpoints.
Sweep ==
  /\ sweep.pc = "idle" /\ sweep.n < MaxSweeps
  /\ LET seen == {e \in Endpoints : eps[e] # None} IN
     sweep' = [pc |-> "probe", seen |-> {<<e, eps[e]>> : e \in seen}, left |-> {<<e, eps[e]>> : e \in seen}, n |-> sweep.n + 1]
  /\ calm' = (probe.pc = "idle")
  /\ UNCHANGED <<world, results, probe, counter, stream>>

\* One of the probes of the sweep, which run at the same time, ends.
Probed(p) ==
  /\ sweep.pc = "probe" /\ p \in sweep.left
  /\ results' = Store(results, p[1], Probe(p[1], p[2]))
  /\ sweep' = [sweep EXCEPT !.left = @ \ {p}]
  /\ UNCHANGED <<world, probe, counter, stream, calm>>

\* A mutant: the endpoints that are gone keep their results.
BugSwept ==
  /\ sweep.pc = "probe" /\ sweep.left = {}
  /\ sweep' = [sweep EXCEPT !.pc = "idle"]
  /\ UNCHANGED <<world, results, probe, counter, stream, calm>>

\* The end of a sweep.
Swept ==
  /\ sweep.pc = "probe" /\ sweep.left = {}
  /\ results' = Drop(results, {e \in Endpoints : \A p \in sweep.seen : p[1] # e})
  /\ sweep' = [sweep EXCEPT !.pc = "idle"]
  /\ UNCHANGED <<world, probe, counter, stream, calm>>

\* ProbeNow: the endpoint is read, and its result kept after the probe.
ProbeNow(e) ==
  /\ probe.pc = "idle" /\ eps[e] # None
  /\ probe' = [pc |-> "probe", ep |-> eps[e], id |-> e]
  /\ UNCHANGED <<world, results, sweep, counter, stream, calm>>

ProbedNow ==
  /\ probe.pc = "probe" /\ probe' = NoProbe
  /\ results' = Store(results, probe.id, Probe(probe.id, probe.ep))
  /\ UNCHANGED <<world, sweep, counter, stream, calm>>

\* TargetHealthy: known, and failing.
Failing(e, t) == e \in DOMAIN results /\ t \in results[e].known \ results[e].healthy

-----------------------------------------------------------------------------
(* The connector.                                                          *)

\* rendezvousOrder: by score, the highest first.
RendezvousOrder(s) == SortSeq(s, LAMBDA a, b : Score[a] > Score[b])

Rotate(s, n) == SubSeq(s, n + 1, Len(s)) \o SubSeq(s, 1, n)

\* A mutant: a target that fails is not tried at all.
BugOrderTargets(e, cfg, sticky) == SelectSeq(cfg.targets, LAMBDA t : ~Failing(e, t))

\* orderTargets: the ones that fail come last.
OrderTargets(e, cfg, sticky) ==
  LET preferred == SelectSeq(cfg.targets, LAMBDA t : ~Failing(e, t))
      fallback  == SelectSeq(cfg.targets, LAMBDA t : Failing(e, t))
      first     == CASE Len(preferred) < 2 \/ cfg.lb = "failover" -> preferred
                     [] cfg.lb = "sticky" /\ sticky -> RendezvousOrder(preferred)
                     [] OTHER -> Rotate(preferred, counter[e] % Len(preferred))
  IN IF Len(cfg.targets) < 2 THEN cfg.targets ELSE first \o fallback

\* The counter moves when the targets are rotated.
Rotates(e, cfg, sticky) ==
  /\ Len(cfg.targets) > 1 /\ cfg.lb # "failover" /\ ~(cfg.lb = "sticky" /\ sticky)
  /\ Len(SelectSeq(cfg.targets, LAMBDA t : ~Failing(e, t))) > 1

\* The targets are dialled in their order.
DialInOrder(s) == SelectSeq(s, LAMBDA t : t \in up)

\* Connector.OpenStream.
OpenStream(e, sticky) ==
  /\ eps[e].method = "proxy" /\ eps[e].targets # <<>>
  /\ stream.order = <<>>
  /\ LET order == OrderTargets(e, eps[e], sticky) IN
     stream' = [order |-> order, cfg |-> eps[e], failing |-> {t \in Targets : Failing(e, t)},
                conn |-> IF DialInOrder(order) = <<>> THEN 0 ELSE Head(DialInOrder(order)),
                could |-> ToSet(eps[e].targets) \cap up # {}]
  /\ counter' = [counter EXCEPT ![e] = IF Rotates(e, eps[e], sticky) THEN (@ + 1) % Wrap ELSE @]
  /\ UNCHANGED <<world, results, sweep, probe, calm>>

CloseStream ==
  /\ stream.order # <<>> /\ stream' = NoStream
  /\ UNCHANGED <<world, results, sweep, probe, counter, calm>>

\* Register, and the changes of the world: endpoints are created, changed, bound
\* and deleted (with Forget), targets and services come and go.
Change ==
  /\ changes < MaxChanges /\ changes' = changes + 1 /\ calm' = FALSE
  /\ \/ \E e \in Endpoints, cfg \in Configs :
          eps' = [eps EXCEPT ![e] = cfg] /\ UNCHANGED <<up, bound, service, results>>
     \/ \E e \in Endpoints :
          /\ eps[e] # None /\ eps' = [eps EXCEPT ![e] = None]
          /\ results' = Drop(results, {e}) /\ UNCHANGED <<up, bound, service>>
     \/ \E t \in Targets : up' = (up \ {t}) \cup ({t} \ up) /\ UNCHANGED <<eps, bound, service, results>>
     \/ \E e \in Endpoints : bound' = (bound \ {e}) \cup ({e} \ bound) /\ UNCHANGED <<eps, up, service, results>>
     \/ \E s \in {"running", "gone", "starting", "sleeping", "error"} \ {service} :
          service' = s /\ UNCHANGED <<eps, up, bound, results>>
  /\ UNCHANGED <<sweep, probe, counter, stream>>

Next ==
  \/ Change \/ Sweep \/ Swept \/ ProbedNow \/ CloseStream
  \/ \E p \in sweep.left : Probed(p)
  \/ \E e \in Endpoints : ProbeNow(e)
  \/ \E e \in Endpoints, sticky \in BOOLEAN : OpenStream(e, sticky)

Spec == Init /\ [][Next]_healthVars
-----------------------------------------------------------------------------
\* What the prober knows only orders the targets (orderTargets): each is tried
\* once, one that is thought to fail after all others, and a stream opens whenever
\* one of them accepts it.  And what it knows is right once a sweep went by in
\* which nothing changed (sweep, ProbeNow), whatever was probed before.
HealthSettles ==
  /\ stream.order # <<>> =>
       /\ ToSet(stream.order) = ToSet(stream.cfg.targets) /\ Len(stream.order) = Len(stream.cfg.targets)
       /\ Len(stream.order) > 1 /\ stream.order[1] \in stream.failing => ToSet(stream.order) \subseteq stream.failing
       /\ (stream.conn # 0) = stream.could
  /\ calm /\ sweep.pc = "idle" =>
       /\ DOMAIN results = {e \in Endpoints : eps[e] # None}
       /\ \A e \in DOMAIN results : results[e] = Probe(e, eps[e])
===============================================================================
