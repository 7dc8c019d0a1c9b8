------------------------ MODULE ServiceMutationsProofs ------------------------
(***************************************************************************)
(* Proofs about the manager of services and the requests that change them: *)
(* holds match, what runs holds what it requires, and a change is applied  *)
(* or the service is marked, for any services, definitions, requests and   *)
(* budgets.                                                                *)
(*                                                                         *)
(* The invariant has three parts.  HoldSound says of a pair of services    *)
(* whether it is held, given back by a release function that has still to  *)
(* run, or neither.  StartSound says how far a start has come with its     *)
(* requirements.  RequestSound relates the request that holds servicesSem  *)
(* to the store, to the definitions in use and to the marks.               *)
(***************************************************************************)
EXTENDS ServiceMutations, TLAPS

Info == [state : States, alive : BOOLEAN, byUs : BOOLEAN, err : BOOLEAN, defErr : BOOLEAN,
         inval : BOOLEAN]
CallPcs == {"none", "stopping", "wake", "ensure", "start", "poll", "failed", "done", "release"}
Call == [pc : CallPcs, def : Definition, wake : SUBSET Services, held : SUBSET Services,
         await : SUBSET Services, added : SUBSET Services, failed : BOOLEAN]
Task == [kind : {"release", "idle"}, owner : Services, req : Services, live : BOOLEAN, root : Roots]

\* The types of what the manager keeps.
Typed ==
  /\ Definitions(def) /\ svc \in [Services -> Info]
  /\ requirements \subseteq Services \X Services /\ dependents \subseteq Services \X Services
  /\ call \in [Services -> Call] /\ stop \in [Services -> [on : BOOLEAN, root : Roots]]
  /\ tasks \subseteq Task /\ deferred \subseteq Services

\* Some release function of ts has still to give back the hold of o on r.
GivesBack(t, o, r) == t.kind = "release" /\ t.live /\ t.owner = o /\ t.req = r
Releasing(ts, o, r) == \E t \in ts : GivesBack(t, o, r)

\* A hold is known on both sides and nobody gives it back; a hold that only the
\* required service knows of is given back; what is held is not being stopped.
HoldSound(o, r) ==
  /\ <<o, r>> \in requirements => <<o, r>> \in dependents /\ ~Releasing(tasks, o, r)
  /\ <<o, r>> \in dependents => <<o, r>> \in requirements \/ Releasing(tasks, o, r)
  /\ <<o, r>> \in dependents => ~stop[r].on

HoldsAll(s) == \A r \in def[s].req : <<s, r>> \in requirements

\* A start is of the definition in use; what it requires is held, is still to be
\* held, or could not be.
CallSound(s) ==
  /\ s \in Loaded /\ call[s].def = def[s] /\ call[s].held \subseteq Loaded
  /\ call[s].pc # "stopping" => ~stop[s].on
  /\ call[s].pc = "stopping" => call[s].wake = def[s].req
  /\ call[s].pc = "wake" =>
       \A r \in def[s].req : r \in call[s].wake \/ call[s].failed \/ <<s, r>> \in requirements
  /\ call[s].pc \in {"ensure", "start", "poll", "done"} => HoldsAll(s)
  /\ call[s].pc = "release" => svc[s].err \/ HoldsAll(s)

Settled(s) ==
  s \in Loaded /\ svc[s].state = "running" /\ ~svc[s].err /\ ~InFlight(s) /\ ~stop[s].on => HoldsAll(s)

StartSound(s) == (InFlight(s) => CallSound(s)) /\ Settled(s)

ManagerSound ==
  /\ Typed
  /\ \A o, r \in Services : HoldSound(o, r)
  /\ \A s \in Services : StartSound(s)

\* The definition in use is the stored one, or the service is marked.
Marked(s) == (s \in DOMAIN saved /\ def[s] = saved[s]) \/ svc[s].inval \/ svc[s].defErr

\* The request that holds servicesSem.
MutPcs == {"none", "reserve", "check", "stop", "stopping", "save", "apply", "reconcile", "start", "starting"}
RequestTyped ==
  /\ Definitions(saved)
  /\ reload = [st |-> reload.st, defs |-> reload.defs] /\ Definitions(reload.defs)
  /\ mut \in [pc : MutPcs, op : {"create", "update", "restart", "delete", "start", "stop"},
              svc : Services \cup {NoMut.svc}, def : Definition]
  /\ mut.pc # "none" => mut.svc \in Services

\* Where a request of each kind may be.
RequestStage ==
  /\ mut.pc = "none" <=> reload.st \in {"open", "apply"}
  /\ mut.pc = "check" => mut.op \in {"update", "restart"}
  /\ mut.pc \in {"stop", "stopping"} => mut.op \in {"restart", "delete", "stop"}
  /\ mut.pc \in {"save", "apply"} => mut.op \in {"create", "update", "restart", "delete"}
  /\ mut.pc \in {"reserve", "save"} /\ mut.op = "create" => mut.svc \notin DOMAIN saved

\* The change that a request has saved and not applied yet.
Unapplied(s) == mut.pc = "apply" /\ s = mut.svc /\ mut.op \in {"update", "restart"}

StoreSound ==
  /\ reload.st = "apply" => saved = reload.defs
  /\ reload.st # "apply" => \A s \in Loaded : Marked(s) \/ Unapplied(s)
  /\ mut.pc = "apply" /\ mut.op \in {"create", "update", "restart"} =>
       mut.svc \in DOMAIN saved /\ saved[mut.svc] = mut.def
  /\ AcceptedIsApplied

RequestSound == RequestTyped /\ RequestStage /\ StoreSound

ServiceInvariant == ManagerSound /\ RequestSound

-----------------------------------------------------------------------------
(* Release functions.                                                      *)

\* The release functions of the holds of s on B give back just those.
LEMMA ReleasesAdd ==
  ASSUME NEW ts, NEW s, NEW B, NEW root, NEW o, NEW r
  PROVE  Releasing(ts \cup Releases(s, B, root), o, r) <=> Releasing(ts, o, r) \/ (o = s /\ r \in B)
<1>1. ASSUME NEW t \in Releases(s, B, root), GivesBack(t, o, r) PROVE o = s /\ r \in B
  BY <1>1 DEF Releases, GivesBack
<1>2. ASSUME o = s, r \in B PROVE \E t \in Releases(s, B, root) : GivesBack(t, o, r)
  <2> DEFINE t == [kind |-> "release", owner |-> o, req |-> r, live |-> TRUE, root |-> root]
  <2>1. t \in Releases(s, B, root) BY <1>2 DEF Releases
  <2>2. GivesBack(t, o, r) BY DEF GivesBack
  <2> QED BY Zenon, <2>1, <2>2
<1> QED BY Zenon, <1>1, <1>2 DEF Releasing

\* The release functions of holds are tasks.
LEMMA ReleasesTyped ==
  ASSUME NEW s \in Services, NEW B \in SUBSET Services, NEW root \in Roots
  PROVE  Releases(s, B, root) \subseteq Task
BY Zenon DEF Releases, Task

\* Holding a requirement again makes the release functions of an earlier hold
\* idle, and leaves the others alone.
LEMMA SupersededDrops ==
  ASSUME NEW ts \in SUBSET Task, NEW new
  PROVE  /\ Superseded(ts, new) \subseteq Task
         /\ \A o, r : Releasing(Superseded(ts, new), o, r) <=> Releasing(ts, o, r) /\ <<o, r>> \notin new
<1> DEFINE sup(t) == [t EXCEPT !.live = @ /\ ~(t.kind = "release" /\ <<t.owner, t.req>> \in new)]
<1>1. Superseded(ts, new) = {sup(t) : t \in ts} BY DEF Superseded
<1>2. ASSUME NEW t \in ts
      PROVE  /\ sup(t) \in Task /\ sup(t).kind = t.kind /\ sup(t).owner = t.owner /\ sup(t).req = t.req
             /\ sup(t).live <=> t.live /\ ~(t.kind = "release" /\ <<t.owner, t.req>> \in new)
  BY Zenon DEF Task
<1> HIDE DEF sup
<1>3. ASSUME NEW o, NEW r, NEW t \in ts
      PROVE  GivesBack(sup(t), o, r) <=> GivesBack(t, o, r) /\ <<o, r>> \notin new
  BY Zenon, <1>2 DEF GivesBack
<1>4. Superseded(ts, new) \subseteq Task BY Zenon, <1>1, <1>2
<1>5. ASSUME NEW o, NEW r
      PROVE  Releasing(Superseded(ts, new), o, r) <=> Releasing(ts, o, r) /\ <<o, r>> \notin new
  <2>1. ASSUME NEW q \in Superseded(ts, new), GivesBack(q, o, r)
        PROVE  Releasing(ts, o, r) /\ <<o, r>> \notin new
    <3>1. PICK t \in ts : q = sup(t) BY Zenon, <1>1
    <3> QED BY Zenon, <1>3, <2>1, <3>1 DEF Releasing
  <2>2. ASSUME NEW t \in ts, GivesBack(t, o, r), <<o, r>> \notin new
        PROVE  Releasing(Superseded(ts, new), o, r)
    <3>1. sup(t) \in Superseded(ts, new) BY Zenon, <1>1
    <3> QED BY Zenon, <1>3, <2>2, <3>1 DEF Releasing
  <2> QED BY Zenon, <2>1, <2>2 DEF Releasing
<1> QED BY Zenon, <1>4, <1>5

\* Idle stops give nothing back.
LEMMA IdleAdds ==
  ASSUME NEW ts, NEW more, \A t \in more : t.kind # "release", NEW o, NEW r
  PROVE  Releasing(ts \cup more, o, r) <=> Releasing(ts, o, r)
BY Zenon DEF Releasing, GivesBack

\* Idle stops are tasks, and none of them is a release function.
LEMMA IdleTyped ==
  ASSUME NEW ss \in SUBSET Services
  PROVE  /\ {IdleTask(s) : s \in ss} \subseteq Task
         /\ \A t \in {IdleTask(s) : s \in ss} : t.kind # "release"
<1>1. ASSUME NEW s \in ss PROVE IdleTask(s) \in Task /\ IdleTask(s).kind # "release"
  BY DEF IdleTask, Task, Roots
<1> QED BY Zenon, <1>1

-----------------------------------------------------------------------------
(* Services and pairs that a step leaves as they are.                      *)

\* A table of which one entry changes.
LEMMA OneEntry ==
  ASSUME NEW S, NEW T, NEW f \in [S -> T], NEW s \in S, NEW v \in T
  PROVE  /\ [f EXCEPT ![s] = v] \in [S -> T] /\ [f EXCEPT ![s] = v][s] = v
         /\ \A x \in S \ {s} : [f EXCEPT ![s] = v][x] = f[x]
OBVIOUS

\* A service whose call, stop and holds stand still; its call may hear that a
\* requirement failed.
Still(s) ==
  /\ stop'[s] = stop[s] /\ svc'[s].state = svc[s].state /\ svc'[s].err = svc[s].err
  /\ call'[s].pc = call[s].pc /\ call'[s].def = call[s].def
  /\ call'[s].wake = call[s].wake /\ call'[s].held \subseteq call[s].held
  /\ call[s].failed => call'[s].failed
  /\ \A r \in Services : <<s, r>> \in requirements => <<s, r>> \in requirements'

\* What a definition requires are services.
LEMMA RequiresServices == ASSUME Definitions(def), NEW s \in Loaded PROVE def[s].req \subseteq Services
BY DEF Definitions, Definition, Loaded

\* A service whose stop, shown state and call stand still, and that loses no
\* hold, stays sound.
LEMMA StillKeeps ==
  ASSUME Definitions(def), def' = def, NEW s \in Services, StartSound(s), Still(s)
  PROVE  StartSound(s)'
<1>1. s \in Loaded => (HoldsAll(s) => HoldsAll(s)')
  BY Zenon, RequiresServices DEF HoldsAll, Still
<1>2. ASSUME CallSound(s), s \in Loaded, call[s].pc = "wake"
      PROVE  \A r \in def'[s].req : r \in call'[s].wake \/ call'[s].failed \/ <<s, r>> \in requirements'
  BY Zenon, <1>2, RequiresServices DEF CallSound, Still
<1>3. CallSound(s) => CallSound(s)' BY Zenon, <1>1, <1>2 DEF CallSound, Still, Loaded
<1>4. Settled(s)' BY Zenon, <1>1 DEF StartSound, Settled, Still, InFlight, Loaded
<1> QED BY Zenon, <1>3, <1>4 DEF StartSound, Still, InFlight

\* A pair stays sound when its hold, and who gives it back, stay as they are
\* and no stop of what is held begins.
LEMMA PairKeeps ==
  ASSUME NEW o, NEW r, HoldSound(o, r),
         <<o, r>> \in requirements' <=> <<o, r>> \in requirements,
         <<o, r>> \in dependents' <=> <<o, r>> \in dependents,
         Releasing(tasks', o, r) <=> Releasing(tasks, o, r),
         <<o, r>> \in dependents => (stop'[r].on => stop[r].on)
  PROVE  HoldSound(o, r)'
BY Zenon DEF HoldSound

\* A step of which the calls know nothing: marks, release functions that do not
\* matter, and the start of stops of services that nobody holds.
LEMMA CallsStand ==
  ASSUME ManagerSound, UNCHANGED <<def, requirements, dependents, call>>,
         svc' \in [Services -> Info], tasks' \subseteq Task, deferred' \subseteq Services,
         stop' \in [Services -> [on : BOOLEAN, root : Roots]],
         \A s \in Services : svc'[s].state = svc[s].state /\ svc'[s].err = svc[s].err,
         \A o, r \in Services : Releasing(tasks', o, r) <=> Releasing(tasks, o, r),
         \A s \in Services : stop'[s] = stop[s] \/ (stop'[s].on /\ Holders(s) = {} /\ ~InFlight(s))
  PROVE  ManagerSound'
<1>1. Typed' BY Zenon DEF ManagerSound, Typed
<1>2. ASSUME NEW o \in Services, NEW r \in Services PROVE HoldSound(o, r)'
  <2>1. HoldSound(o, r) BY Zenon DEF ManagerSound
  <2>2. <<o, r>> \in dependents => stop'[r] = stop[r] BY DEF Holders
  <2> QED BY Zenon, <2>1, <2>2, PairKeeps
<1>3. ASSUME NEW s \in Services PROVE StartSound(s)'
  <2>1. StartSound(s) /\ Definitions(def) BY Zenon DEF ManagerSound, Typed
  <2>2. CASE stop'[s] = stop[s] BY Zenon, <2>1, <2>2, StillKeeps DEF Still
  <2>3. CASE stop'[s].on /\ ~InFlight(s) BY Zenon, <2>3 DEF StartSound, Settled, InFlight
  <2> QED BY Zenon, <2>2, <2>3
<1> QED BY Zenon, <1>1, <1>2, <1>3 DEF ManagerSound

\* A step that keeps the definitions is sound if it is for every pair and for
\* every service that does not stand still.
LEMMA Stepwise ==
  ASSUME ManagerSound, def' = def, Typed', \A o, r \in Services : HoldSound(o, r)',
         \A s \in Services : Still(s) \/ StartSound(s)'
  PROVE  ManagerSound'
<1>1. ASSUME NEW s \in Services PROVE StartSound(s)'
  BY Zenon, StillKeeps DEF ManagerSound, Typed
<1> QED BY Zenon, <1>1 DEF ManagerSound

\* Every pair stays sound when holds, release functions and stops stand still.
LEMMA HoldsStand ==
  ASSUME ManagerSound, UNCHANGED <<requirements, dependents, tasks, stop>>
  PROVE  \A o, r \in Services : HoldSound(o, r)'
BY Zenon, PairKeeps DEF ManagerSound

\* Holds that are detached from their owner are given back.
LEMMA DetachSound ==
  ASSUME ManagerSound, NEW s \in Services, NEW back \in SUBSET Services, NEW root \in Roots,
         requirements' = requirements \ ({s} \X back), dependents' = dependents,
         tasks' = tasks \cup Releases(s, {r \in back : <<s, r>> \in requirements}, root),
         \A r \in Services : stop'[r].on => stop[r].on
  PROVE  /\ requirements' \subseteq Services \X Services /\ tasks' \subseteq Task
         /\ \A o, r \in Services : HoldSound(o, r)'
         /\ \A o \in Services \ {s}, r \in Services : <<o, r>> \in requirements => <<o, r>> \in requirements'
<1> DEFINE B == {r \in back : <<s, r>> \in requirements}
<1>1. requirements \subseteq Services \X Services /\ tasks \subseteq Task BY Zenon DEF ManagerSound, Typed
<1>2. Releases(s, B, root) \subseteq Task BY Zenon, ReleasesTyped
<1>3. \A o, r : <<o, r>> \in requirements' <=> <<o, r>> \in requirements /\ ~(o = s /\ r \in back)
  OBVIOUS
<1>4. ASSUME NEW o \in Services, NEW r \in Services PROVE HoldSound(o, r)'
  <2>1. HoldSound(o, r) BY Zenon DEF ManagerSound
  <2>2. Releasing(tasks', o, r) <=> Releasing(tasks, o, r) \/ (o = s /\ r \in B) BY Zenon, ReleasesAdd
  <2>3. r \in B <=> r \in back /\ <<s, r>> \in requirements OBVIOUS
  <2> HIDE DEF B
  <2> QED BY Zenon, <1>3, <2>1, <2>2, <2>3 DEF HoldSound
<1> QED BY Zenon, <1>1, <1>2, <1>3, <1>4

-----------------------------------------------------------------------------
(* The steps of a start.                                                   *)

\* A call of which only the stage changes.
PcMoves(s, to) ==
  /\ call' \in [Services -> Call] /\ \A x \in Services \ {s} : call'[x] = call[x]
  /\ call'[s].pc = to /\ call'[s].def = call[s].def
  /\ call'[s].wake = call[s].wake /\ call'[s].held = call[s].held

\* Moving a call to another stage changes nothing else of it.
LEMMA PcPut ==
  ASSUME call \in [Services -> Call], NEW s \in Services, NEW to \in CallPcs,
         \/ call' = [call EXCEPT ![s].pc = to]
         \/ call' = [call EXCEPT ![s].pc = to, ![s].failed = TRUE]
  PROVE  PcMoves(s, to) /\ (call[s].failed => call'[s].failed)
BY DEF PcMoves, Call, CallPcs

\* The stages after the requirements are held, up to the last one.
LEMMA RunsOn ==
  ASSUME ManagerSound, NEW s \in Services, NEW to \in {"start", "poll", "done", "failed"},
         call[s].pc \in {"ensure", "start", "poll"}, call' = [call EXCEPT ![s].pc = to],
         svc' \in [Services -> Info], \A x \in Services \ {s} : svc'[x] = svc[x],
         UNCHANGED <<def, requirements, dependents, stop, tasks, deferred>>
  PROVE  ManagerSound'
<1>1. Typed /\ StartSound(s) BY Zenon DEF ManagerSound
<1>2. PcMoves(s, to) BY Zenon, <1>1, PcPut DEF Typed, CallPcs
<1>3. Typed' BY Zenon, <1>1, <1>2 DEF Typed, PcMoves
<1>4. CallSound(s) /\ HoldsAll(s) /\ ~stop[s].on BY <1>1 DEF StartSound, InFlight, CallSound
<1>5. StartSound(s)'
  <2>1. HoldsAll(s)' BY Zenon, <1>4 DEF HoldsAll
  <2>2. CallSound(s)' BY <1>2, <1>4, <2>1 DEF CallSound, PcMoves, Loaded
  <2>3. InFlight(s)' BY <1>2 DEF InFlight, PcMoves
  <2> QED BY Zenon, <2>2, <2>3 DEF StartSound, Settled
<1>6. \A x \in Services \ {s} : Still(x) BY Zenon, <1>2 DEF Still, PcMoves
<1> QED BY Zenon, <1>3, <1>5, <1>6, HoldsStand, Stepwise

\* Waiting for the stop of the service that is to start (runEnsure).
LEMMA AwaitStopSound ==
  ASSUME ManagerSound, NEW s \in Services, AwaitStop(s)
  PROVE  ManagerSound'
<1>1. Typed /\ StartSound(s) BY Zenon DEF ManagerSound
<1>2. PcMoves(s, "wake") BY Zenon, <1>1, PcPut DEF Typed, CallPcs, AwaitStop
<1>3. UNCHANGED <<def, svc, requirements, dependents, stop, tasks, deferred>> BY Zenon DEF AwaitStop, holdVars
<1>4. Typed' BY Zenon, <1>1, <1>2, <1>3 DEF Typed, PcMoves
<1>5. StartSound(s)'
  <2>1. CallSound(s) /\ call[s].wake = def[s].req /\ ~stop[s].on BY <1>1 DEF StartSound, InFlight, CallSound, AwaitStop
  <2>2. CallSound(s)' BY <1>2, <1>3, <2>1 DEF CallSound, PcMoves, Loaded
  <2>3. InFlight(s)' BY <1>2 DEF InFlight, PcMoves
  <2> QED BY Zenon, <2>2, <2>3 DEF StartSound, Settled
<1>6. \A x \in Services \ {s} : Still(x) BY Zenon, <1>2, <1>3 DEF Still, PcMoves
<1> QED BY Zenon, <1>3, <1>4, <1>5, <1>6, HoldsStand, Stepwise

\* A call that has just begun.
LEMMA FreshCall ==
  ASSUME NEW s, s \in DOMAIN def', call'[s].pc \in {"stopping", "wake"},
         call'[s].pc = "wake" => ~stop'[s].on,
         call'[s].def = def'[s], call'[s].wake = def'[s].req, call'[s].held = {}
  PROVE  StartSound(s)'
<1>1. CallSound(s)' BY DEF CallSound, Loaded
<1>2. InFlight(s)' BY DEF InFlight
<1> QED BY Zenon, <1>1, <1>2 DEF StartSound, Settled

\* A new call takes the definition in use and holds nothing yet.
LEMMA NewCallTyped ==
  ASSUME Typed, NEW s \in Services, s \in Loaded
  PROVE  /\ NewCall(s) \in Call
         /\ NewCall(s).pc \in {"stopping", "wake"} /\ (NewCall(s).pc = "wake" => ~stop[s].on)
         /\ NewCall(s).def = def[s] /\ NewCall(s).wake = def[s].req /\ NewCall(s).held = {}
<1>1. def[s] \in Definition BY DEF Typed, Definitions, Loaded
<1>2. def[s].req \in SUBSET Services BY <1>1 DEF Definition
<1>3. [req |-> {}, cfg |-> 0] \in Definition BY DEF Definition
<1> QED BY Zenon, <1>1, <1>2, <1>3 DEF NewCall, NoCall, Call, CallPcs

\* One service that rests begins a call.
LEMMA CallBegins ==
  ASSUME ManagerSound, NEW s \in Services, s \in Loaded, call' = [call EXCEPT ![s] = NewCall(s)],
         UNCHANGED <<def, svc, requirements, dependents, stop, tasks, deferred>>
  PROVE  ManagerSound'
<1>1. Typed BY Zenon DEF ManagerSound
<1>2. /\ call' \in [Services -> Call] /\ call'[s] = NewCall(s)
      /\ \A x \in Services \ {s} : call'[x] = call[x]
  BY Zenon, <1>1, NewCallTyped DEF Typed
<1>3. Typed' BY Zenon, <1>1, <1>2 DEF Typed
<1>4. StartSound(s)' BY Zenon, <1>1, <1>2, NewCallTyped, FreshCall DEF Loaded
<1>5. \A x \in Services \ {s} : Still(x) BY Zenon, <1>2 DEF Still
<1> QED BY Zenon, <1>3, <1>4, <1>5, HoldsStand, Stepwise

\* What the goroutines of wakeRequirements note in the call.
LEMMA WakeNotes ==
  ASSUME NEW c \in Call, NEW r \in Services
  PROVE  /\ LET v == [c EXCEPT !.wake = @ \ {r}, !.failed = TRUE] IN
            v \in Call /\ v.pc = c.pc /\ v.def = c.def /\ v.held = c.held /\ v.failed
         /\ LET v == [c EXCEPT !.held = @ \ {r}, !.failed = TRUE] IN
            /\ v \in Call /\ v.pc = c.pc /\ v.def = c.def /\ v.wake = c.wake
            /\ v.held \subseteq c.held /\ v.failed
         /\ LET v == [c EXCEPT !.held = @ \ {r}, !.await = @ \cup {r}] IN
            /\ v \in Call /\ v.pc = c.pc /\ v.def = c.def /\ v.wake = c.wake
            /\ v.held \subseteq c.held /\ v.failed = c.failed
BY Zenon DEF Call

\* What wakeRequirements notes in the call when it has taken a hold.
LEMMA HoldNotes ==
  ASSUME NEW c \in Call, NEW r \in Services, NEW D \in SUBSET Services
  PROVE  LET v == [c EXCEPT !.wake = @ \ {r}, !.held = @ \cup {r}, !.added = D] IN
         /\ v \in Call /\ v.pc = c.pc /\ v.def = c.def /\ v.failed = c.failed
         /\ v.wake = c.wake \ {r} /\ v.held = c.held \cup {r}
BY Zenon DEF Call

\* A requirement that cannot be held fails the call.
LEMMA WakeMissing ==
  ASSUME ManagerSound, NEW s \in Services, NEW v \in Call, call[s].pc = "wake",
         v.pc = "wake", v.def = call[s].def, v.held = call[s].held, v.failed,
         call' = [call EXCEPT ![s] = v],
         UNCHANGED <<def, svc, requirements, dependents, stop, tasks, deferred>>
  PROVE  ManagerSound'
<1>1. Typed /\ StartSound(s) BY Zenon DEF ManagerSound
<1>2. call' \in [Services -> Call] /\ call'[s] = v /\ \A x \in Services \ {s} : call'[x] = call[x]
  BY <1>1 DEF Typed
<1>3. Typed' BY Zenon, <1>1, <1>2 DEF Typed
<1>4. CallSound(s) BY <1>1 DEF StartSound, InFlight
<1>5. CallSound(s)' BY <1>2, <1>4 DEF CallSound, Loaded
<1>6. StartSound(s)' BY <1>2, <1>5 DEF StartSound, Settled, InFlight
<1>7. \A x \in Services \ {s} : Still(x) BY Zenon, <1>2 DEF Still
<1> QED BY Zenon, <1>3, <1>6, <1>7, HoldsStand, Stepwise

\* Taking the hold of s on r, known on both sides at once.
LEMMA WakeHolds ==
  ASSUME ManagerSound, NEW s \in Services, NEW r \in Services, NEW v \in Call,
         call[s].pc = "wake", r \in Loaded, ~stop[r].on,
         requirements' = requirements \cup {<<s, r>>}, dependents' = dependents \cup {<<s, r>>},
         tasks' = Superseded(tasks, {<<s, r>>} \ requirements), call' = [call EXCEPT ![s] = v],
         v.pc = "wake", v.def = call[s].def, v.failed = call[s].failed,
         v.wake = call[s].wake \ {r}, v.held = call[s].held \cup {r}, UNCHANGED <<def, svc, stop, deferred>>
  PROVE  ManagerSound'
<1>1. Typed /\ StartSound(s) BY Zenon DEF ManagerSound
<1>2. call' \in [Services -> Call] /\ call'[s] = v /\ \A x \in Services \ {s} : call'[x] = call[x]
  BY <1>1 DEF Typed
<1> DEFINE new == {<<s, r>>} \ requirements
<1>3. /\ tasks' \subseteq Task
      /\ \A o, q : Releasing(tasks', o, q) <=> Releasing(tasks, o, q) /\ <<o, q>> \notin new
  <2>1. PICK ts, n : ts = tasks /\ n = new BY Zenon
  <2>2. ts \in SUBSET Task /\ tasks' = Superseded(ts, n) BY Zenon, <1>1, <2>1 DEF Typed
  <2>3. /\ Superseded(ts, n) \subseteq Task
        /\ \A o, q : Releasing(Superseded(ts, n), o, q) <=> Releasing(ts, o, q) /\ <<o, q>> \notin n
    BY Zenon, <2>2, SupersededDrops
  <2>4. tasks' \subseteq Task BY Zenon, <2>2, <2>3
  <2>5. ASSUME NEW o, NEW q PROVE Releasing(tasks', o, q) <=> Releasing(tasks, o, q) /\ <<o, q>> \notin new
    <3>1. PICK sup : sup = Superseded(ts, n) BY Zenon
    <3>2. Releasing(sup, o, q) <=> Releasing(ts, o, q) /\ <<o, q>> \notin n BY Zenon, <2>3, <3>1
    <3>3. tasks' = sup BY Zenon, <2>2, <3>1
    <3> HIDE DEF new
    <3> QED BY Zenon, <2>1, <3>2, <3>3
  <2> QED BY Zenon, <2>4, <2>5
<1>4. Typed'
  <2>1. requirements' \subseteq Services \X Services /\ dependents' \subseteq Services \X Services
    BY <1>1 DEF Typed
  <2> QED BY Zenon, <1>1, <1>2, <1>3, <2>1 DEF Typed
<1>5. CallSound(s) BY <1>1 DEF StartSound, InFlight
<1>6. CallSound(s)' BY <1>2, <1>5 DEF CallSound, Loaded
<1>7. StartSound(s)' BY <1>2, <1>6 DEF StartSound, Settled, InFlight
<1>8. \A x \in Services \ {s} : Still(x) BY <1>2 DEF Still
<1>9. ASSUME NEW o \in Services, NEW q \in Services PROVE HoldSound(o, q)'
  <2>1. HoldSound(o, q) BY Zenon DEF ManagerSound
  <2>2. CASE o = s /\ q = r
    <3>1. ~Releasing(tasks', s, r) BY <1>3, <2>1, <2>2 DEF HoldSound
    <3> QED BY <2>2, <3>1 DEF HoldSound
  <2>3. CASE ~(o = s /\ q = r)
    <3>1. /\ <<o, q>> \in requirements' <=> <<o, q>> \in requirements
          /\ <<o, q>> \in dependents' <=> <<o, q>> \in dependents
          /\ <<o, q>> \notin new
      BY <2>3
    <3> QED BY Zenon, <1>3, <2>1, <3>1, PairKeeps
  <2> QED BY <2>2, <2>3
<1> QED BY Zenon, <1>4, <1>7, <1>8, <1>9, Stepwise

\* One goroutine of wakeRequirements takes its hold (holdRequirementLocked).
LEMMA WakeHoldSound ==
  ASSUME ManagerSound, NEW s \in Services, NEW r \in Services, WakeHold(s, r)
  PROVE  ManagerSound'
<1>1. call \in [Services -> Call] /\ call[s] \in Call /\ call[s].pc = "wake"
  BY Zenon DEF ManagerSound, Typed, WakeHold
<1>2. UNCHANGED <<def, svc, stop, deferred>> BY Zenon DEF WakeHold
<1>3. CASE r \notin Loaded
  <2> DEFINE v == [call[s] EXCEPT !.wake = @ \ {r}, !.failed = TRUE]
  <2>1. call' = [call EXCEPT ![s] = v] BY Zenon, <1>1, <1>3 DEF WakeHold
  <2>2. UNCHANGED <<requirements, dependents, tasks>> BY Zenon, <1>3 DEF WakeHold, holdVars
  <2>3. v \in Call /\ v.pc = call[s].pc /\ v.def = call[s].def /\ v.held = call[s].held /\ v.failed
    BY Zenon, <1>1, WakeNotes
  <2> HIDE DEF v
  <2> QED BY Zenon, <1>1, <1>2, <2>1, <2>2, <2>3, WakeMissing
<1>4. CASE r \in Loaded
  <2> DEFINE D == IF <<s, r>> \in requirements THEN call[s].added ELSE call[s].added \cup {r}
  <2> DEFINE v == [call[s] EXCEPT !.wake = @ \ {r}, !.held = @ \cup {r}, !.added = D]
  <2>1. call' = [call EXCEPT ![s] = v] BY Zenon, <1>1, <1>4 DEF WakeHold
  <2>2. /\ ~stop[r].on
        /\ requirements' = requirements \cup {<<s, r>>} /\ dependents' = dependents \cup {<<s, r>>}
        /\ tasks' = Superseded(tasks, {<<s, r>>} \ requirements)
    BY Zenon, <1>4 DEF WakeHold
  <2>3. D \in SUBSET Services BY <1>1 DEF Call
  <2> HIDE DEF D
  <2>4. /\ v \in Call /\ v.pc = call[s].pc /\ v.def = call[s].def /\ v.failed = call[s].failed
        /\ v.wake = call[s].wake \ {r} /\ v.held = call[s].held \cup {r}
    <3>1. PICK c \in Call, d \in SUBSET Services : c = call[s] /\ d = D BY Zenon, <1>1, <2>3
    <3>2. LET e == [c EXCEPT !.wake = @ \ {r}, !.held = @ \cup {r}, !.added = d] IN
          /\ e \in Call /\ e.pc = c.pc /\ e.def = c.def /\ e.failed = c.failed
          /\ e.wake = c.wake \ {r} /\ e.held = c.held \cup {r}
      BY Zenon, HoldNotes
    <3> QED BY Zenon, <3>1, <3>2
  <2> HIDE DEF v
  <2> QED BY Zenon, <1>1, <1>2, <1>4, <2>1, <2>2, <2>4, WakeHolds
<1> QED BY Zenon, <1>3, <1>4

\* It then makes sure that the requirement runs, or finds that it cannot.
LEMMA WakeEnsureSound ==
  ASSUME ManagerSound, NEW s \in Services, NEW r \in Services, WakeEnsure(s, r)
  PROVE  ManagerSound'
<1>1. Typed /\ StartSound(s) /\ call[s].pc = "wake" BY Zenon DEF ManagerSound, WakeEnsure
<1>2. UNCHANGED <<def, svc, requirements, dependents, stop, tasks, deferred>> BY Zenon DEF WakeEnsure, holdVars
<1>3. call \in [Services -> Call] /\ call[s] \in Call BY Zenon, <1>1 DEF Typed
<1> DEFINE bad == svc[r].inval \/ ~validateRequirements(r, def, svc)
<1>4. CASE bad
  <2> DEFINE v == [call[s] EXCEPT !.held = @ \ {r}, !.failed = TRUE]
  <2>1. call' = [call EXCEPT ![s].held = @ \ {r}, ![s].failed = TRUE] BY Zenon, <1>4 DEF WakeEnsure
  <2> HIDE DEF bad
  <2>2. call' = [call EXCEPT ![s] = v] BY Zenon, <1>3, <2>1
  <2>3. /\ v \in Call /\ v.pc = call[s].pc /\ v.def = call[s].def /\ v.wake = call[s].wake
        /\ v.held \subseteq call[s].held /\ v.failed
    BY Zenon, <1>3, WakeNotes
  <2> HIDE DEF v
  <2>4. call' \in [Services -> Call] /\ call'[s] = v /\ \A x \in Services \ {s} : call'[x] = call[x]
    BY <1>3, <2>2, <2>3
  <2>5. Typed' BY Zenon, <1>1, <1>2, <2>4 DEF Typed
  <2>6. \A x \in Services : Still(x) BY Zenon, <1>2, <2>3, <2>4 DEF Still
  <2> QED BY Zenon, <1>2, <2>5, <2>6, HoldsStand, Stepwise
<1>5. CASE ~bad
  <2> DEFINE v == [call[s] EXCEPT !.held = @ \ {r}, !.await = @ \cup {r}]
  <2> DEFINE w == IF InFlight(r) THEN call[r] ELSE NewCall(r)
  <2>1. call' = [call EXCEPT ![r] = IF InFlight(r) THEN @ ELSE NewCall(r),
                             ![s].held = @ \ {r}, ![s].await = @ \cup {r}]
    BY Zenon, <1>5 DEF WakeEnsure
  <2> HIDE DEF bad
  <2>2. r \in Loaded BY <1>1 DEF StartSound, CallSound, InFlight, WakeEnsure
  <2>3. /\ NewCall(r) \in Call
        /\ NewCall(r).pc \in {"stopping", "wake"} /\ (NewCall(r).pc = "wake" => ~stop[r].on)
        /\ NewCall(r).def = def[r] /\ NewCall(r).wake = def[r].req /\ NewCall(r).held = {}
    BY Zenon, <1>1, <2>2, NewCallTyped
  <2>4. InFlight(s) BY <1>1 DEF InFlight
  <2>5. /\ v \in Call /\ v.pc = call[s].pc /\ v.def = call[s].def /\ v.wake = call[s].wake
        /\ v.held \subseteq call[s].held /\ v.failed = call[s].failed
    BY Zenon, <1>3, WakeNotes
  <2>6. call' = [[call EXCEPT ![r] = w] EXCEPT ![s] = v]
    <3>1. CASE r = s
      <4>1. w = call[s] BY Zenon, <2>4, <3>1
      <4> HIDE DEF w
      <4> QED BY Zenon, <1>3, <2>1, <2>4, <3>1, <4>1
    <3>2. CASE r # s BY Zenon, <1>3, <2>1, <3>2
    <3> QED BY Zenon, <3>1, <3>2
  <2>7. w \in Call /\ w = IF InFlight(r) THEN call[r] ELSE NewCall(r) BY Zenon, <1>3, <2>3 DEF Typed
  <2> HIDE DEF v, w
  <2>8. /\ call' \in [Services -> Call] /\ (r # s => call'[r] = w) /\ call'[s] = v
        /\ \A x \in Services \ {s, r} : call'[x] = call[x]
    BY <1>3, <2>5, <2>6, <2>7
  <2>9. Typed' BY Zenon, <1>1, <1>2, <2>8 DEF Typed
  <2>10. Still(s) BY Zenon, <1>2, <2>5, <2>8 DEF Still
  <2>11. ASSUME NEW x \in Services, x # s, x # r \/ InFlight(r) PROVE Still(x)
    <3>1. call'[x] = call[x] BY <2>7, <2>8, <2>11
    <3> QED BY Zenon, <1>2, <3>1 DEF Still
  <2>12. ASSUME r # s, ~InFlight(r) PROVE StartSound(r)'
    <3>1. call'[r] = NewCall(r) BY Zenon, <2>7, <2>8, <2>12
    <3> HIDE DEF NewCall
    <3> QED BY Zenon, <1>2, <2>2, <2>3, <3>1, FreshCall DEF Loaded
  <2> QED BY Zenon, <1>2, <2>9, <2>10, <2>11, <2>12, HoldsStand, Stepwise
<1> QED BY Zenon, <1>4, <1>5

\* What a service shows changes.
LEMMA Shown ==
  ASSUME svc \in [Services -> Info], NEW s \in Services, NEW v \in Info, svc' = [svc EXCEPT ![s] = v]
  PROVE  svc' \in [Services -> Info] /\ svc'[s] = v /\ \A x \in Services \ {s} : svc'[x] = svc[x]
OBVIOUS

\* Error and state marks keep the type of what a service shows.
LEMMA ErrorMarks ==
  ASSUME NEW v \in Info, NEW a \in BOOLEAN
  PROVE  /\ [v EXCEPT !.err = TRUE] \in Info /\ [v EXCEPT !.err = TRUE].err
         /\ [v EXCEPT !.err = TRUE, !.alive = a] \in Info /\ [v EXCEPT !.err = TRUE, !.alive = a].err
         /\ [v EXCEPT !.state = "error", !.err = TRUE] \in Info
         /\ [v EXCEPT !.state = "starting"] \in Info
BY Zenon DEF Info, States

\* The requirements are held or the start has failed: holds may be given back.
LEMMA GiveBackSound ==
  ASSUME ManagerSound, NEW s \in Services, NEW back \in SUBSET Services,
         call[s].pc \in {"wake", "failed", "done"},
         \/ call' = [call EXCEPT ![s].pc = "release"]
         \/ call' = [call EXCEPT ![s].pc = "release", ![s].failed = TRUE],
         requirements' = requirements \ ({s} \X back),
         tasks' = tasks \cup Releases(s, {r \in back : <<s, r>> \in requirements}, s),
         svc' \in [Services -> Info], \A x \in Services \ {s} : svc'[x] = svc[x],
         svc'[s].err \/ HoldsAll(s)', UNCHANGED <<def, dependents, stop, deferred>>
  PROVE  ManagerSound'
<1>1. Typed /\ StartSound(s) BY Zenon DEF ManagerSound
<1>2. PcMoves(s, "release") BY Zenon, <1>1, PcPut DEF Typed, CallPcs
<1>3. s \in Roots BY Zenon DEF Roots
<1>4. /\ requirements' \subseteq Services \X Services /\ tasks' \subseteq Task
      /\ \A o, r \in Services : HoldSound(o, r)'
      /\ \A o \in Services \ {s}, r \in Services : <<o, r>> \in requirements => <<o, r>> \in requirements'
  BY Zenon, <1>3, DetachSound
<1>5. Typed' BY Zenon, <1>1, <1>2, <1>4 DEF Typed, PcMoves
<1>6. CallSound(s) /\ ~stop[s].on BY <1>1 DEF StartSound, InFlight, CallSound
<1>7. CallSound(s)' BY <1>2, <1>6 DEF CallSound, PcMoves, Loaded
<1>8. InFlight(s)' BY <1>2 DEF InFlight, PcMoves
<1>9. StartSound(s)' BY Zenon, <1>7, <1>8 DEF StartSound, Settled
<1>10. \A x \in Services \ {s} : Still(x) BY Zenon, <1>2, <1>4 DEF Still, PcMoves
<1> QED BY Zenon, <1>4, <1>5, <1>9, <1>10, Stepwise

\* All goroutines of wakeRequirements are back.
LEMMA WokenSound ==
  ASSUME ManagerSound, NEW s \in Services, Woken(s)
  PROVE  ManagerSound'
<1>1. Typed /\ StartSound(s) /\ call[s].pc = "wake" /\ call[s].wake = {} BY Zenon DEF ManagerSound, Woken
<1>2. UNCHANGED <<def, dependents, stop, deferred>> BY Zenon DEF Woken
<1>3. CASE call[s].failed
  <2>1. /\ svc' = [svc EXCEPT ![s].err = TRUE] /\ requirements' = requirements \ ({s} \X call[s].added)
        /\ tasks' = tasks \cup Releases(s, {r \in call[s].added : <<s, r>> \in requirements}, s)
        /\ call' = [call EXCEPT ![s].pc = "release"]
    BY Zenon, <1>3 DEF Woken
  <2>2. svc' \in [Services -> Info] /\ svc'[s].err /\ \A x \in Services \ {s} : svc'[x] = svc[x]
    <3> DEFINE v == [svc[s] EXCEPT !.err = TRUE]
    <3>1. svc \in [Services -> Info] /\ svc[s] \in Info BY Zenon, <1>1 DEF Typed
    <3>2. v \in Info /\ v.err BY Zenon, <3>1, ErrorMarks
    <3>3. svc' = [svc EXCEPT ![s] = v] BY Zenon, <2>1
    <3> HIDE DEF v
    <3> QED BY Zenon, <3>1, <3>2, <3>3, Shown
  <2>3. call[s].added \in SUBSET Services BY <1>1 DEF Typed, Call
  <2> QED BY Zenon, <1>1, <1>2, <2>1, <2>2, <2>3, GiveBackSound
<1>4. CASE ~call[s].failed
  <2>1. call' = [call EXCEPT ![s].pc = "ensure"] /\ UNCHANGED <<svc, requirements, tasks>>
    BY Zenon, <1>4 DEF Woken
  <2>2. PcMoves(s, "ensure") BY Zenon, <1>1, <2>1, PcPut DEF Typed, CallPcs
  <2>3. Typed' BY Zenon, <1>1, <1>2, <2>1, <2>2 DEF Typed, PcMoves
  <2>4. CallSound(s) /\ HoldsAll(s) /\ ~stop[s].on
    BY <1>1, <1>4 DEF StartSound, InFlight, CallSound, HoldsAll
  <2>5. HoldsAll(s)' BY Zenon, <1>2, <2>1, <2>4 DEF HoldsAll
  <2>6. CallSound(s)' BY <1>2, <2>2, <2>4, <2>5 DEF CallSound, PcMoves, Loaded
  <2>7. InFlight(s)' BY <2>2 DEF InFlight, PcMoves
  <2>8. StartSound(s)' BY Zenon, <2>6, <2>7 DEF StartSound, Settled
  <2>9. \A x \in Services \ {s} : Still(x) BY Zenon, <1>2, <2>1, <2>2 DEF Still, PcMoves
  <2> QED BY Zenon, <1>2, <2>1, <2>3, <2>8, <2>9, HoldsStand, Stepwise
<1> QED BY Zenon, <1>3, <1>4

\* A failed start shows its error and gives back what it has added.
LEMMA FailedSound ==
  ASSUME ManagerSound, NEW s \in Services, Failed(s)
  PROVE  ManagerSound'
<1>1. Typed /\ call[s].pc = "failed" BY Zenon DEF ManagerSound, Failed
<1>2. PICK retain \in BOOLEAN :
        LET back == IF retain THEN {} ELSE {r \in call[s].added : <<s, r>> \in requirements} IN
        /\ svc' = [svc EXCEPT ![s].err = TRUE, ![s].alive = @ \/ retain]
        /\ requirements' = requirements \ ({s} \X back)
        /\ tasks' = tasks \cup Releases(s, back, s)
  BY Zenon DEF Failed
<1> DEFINE back == IF retain THEN {} ELSE {r \in call[s].added : <<s, r>> \in requirements}
<1>3. back \in SUBSET Services /\ {r \in back : <<s, r>> \in requirements} = back
  BY <1>1 DEF Typed, Call
<1>4. svc' \in [Services -> Info] /\ svc'[s].err /\ \A x \in Services \ {s} : svc'[x] = svc[x]
  <2> DEFINE a == svc[s].alive \/ retain
  <2> DEFINE v == [svc[s] EXCEPT !.err = TRUE, !.alive = a]
  <2>1. svc \in [Services -> Info] /\ svc[s] \in Info BY Zenon, <1>1 DEF Typed
  <2>2. a \in BOOLEAN BY Zenon
  <2>3. svc' = [svc EXCEPT ![s] = v] BY Zenon, <1>2
  <2> HIDE DEF a
  <2>4. v \in Info /\ v.err BY Zenon, <2>1, <2>2, ErrorMarks
  <2> HIDE DEF v
  <2> QED BY Zenon, <2>1, <2>3, <2>4, Shown
<1>5. call' = [call EXCEPT ![s].pc = "release", ![s].failed = TRUE] /\ UNCHANGED <<def, dependents, stop, deferred>>
  BY Zenon DEF Failed
<1>6. requirements' = requirements \ ({s} \X back) /\ tasks' = tasks \cup Releases(s, back, s) BY Zenon, <1>2
<1> HIDE DEF back
<1> QED BY Zenon, <1>1, <1>3, <1>4, <1>5, <1>6, GiveBackSound

\* A start that succeeded gives back the holds its definition no longer needs.
LEMMA SucceededSound ==
  ASSUME ManagerSound, NEW s \in Services, Succeeded(s)
  PROVE  ManagerSound'
<1> DEFINE back == {r \in Services : <<s, r>> \in requirements} \ call[s].def.req
<1>1. Typed /\ StartSound(s) /\ call[s].pc = "done" BY Zenon DEF ManagerSound, Succeeded
<1>2. /\ call' = [call EXCEPT ![s].pc = "release"] /\ UNCHANGED <<def, svc, dependents, stop, deferred>>
      /\ requirements' = requirements \ ({s} \X back) /\ tasks' = tasks \cup Releases(s, back, s)
  BY Zenon DEF Succeeded
<1>3. back \in SUBSET Services /\ {r \in back : <<s, r>> \in requirements} = back OBVIOUS
<1>4. HoldsAll(s) /\ call[s].def = def[s] BY <1>1 DEF StartSound, CallSound, InFlight
<1>5. HoldsAll(s)' BY <1>2, <1>4 DEF HoldsAll
<1> HIDE DEF back
<1> QED BY Zenon, <1>1, <1>2, <1>3, <1>5, GiveBackSound DEF Typed

\* The call leaves the table of calls in flight.
LEMMA CallDoneSound ==
  ASSUME ManagerSound, NEW s \in Services, CallDone(s)
  PROVE  ManagerSound'
<1>1. Typed /\ StartSound(s) /\ call[s].pc = "release" BY Zenon DEF ManagerSound, CallDone
<1>2. /\ UNCHANGED <<def, svc, requirements, dependents, stop, tasks, deferred>>
      /\ call' = [o \in Services |->
           IF o = s THEN NoCall
           ELSE IF s \in call[o].await
           THEN [call[o] EXCEPT !.await = @ \ {s}, !.failed = @ \/ call[s].failed]
           ELSE call[o]]
  BY Zenon DEF CallDone, holdVars
<1>3. NoCall \in Call BY DEF NoCall, Call, CallPcs, Definition
<1>4. ASSUME NEW o \in Services \ {s}
      PROVE  /\ call'[o] \in Call /\ call'[o].pc = call[o].pc /\ call'[o].def = call[o].def
             /\ call'[o].wake = call[o].wake /\ call'[o].held = call[o].held
             /\ call[o].failed => call'[o].failed
  <2>1. call[o] \in Call /\ call[s].failed \in BOOLEAN BY <1>1 DEF Typed, Call
  <2> QED BY Zenon, <1>2, <2>1 DEF Call
<1>5. call'[s] = NoCall BY Zenon, <1>2
<1>6. call' \in [Services -> Call]
  <2>1. ASSUME NEW o \in Services PROVE call'[o] \in Call
    <3>1. CASE o = s BY Zenon, <1>3, <1>5, <3>1
    <3>2. CASE o # s
      <4>1. o \in Services \ {s} BY Zenon, <3>2
      <4> QED BY Zenon, <1>4, <4>1
    <3> QED BY Zenon, <3>1, <3>2
  <2>2. call' = [o \in Services |-> call'[o]] BY Zenon, <1>2
  <2> QED BY Zenon, <2>1, <2>2
<1>7. Typed' BY Zenon, <1>1, <1>2, <1>6 DEF Typed
<1>8. svc[s].err \/ HoldsAll(s) BY <1>1 DEF StartSound, CallSound, InFlight
<1>9. StartSound(s)'
  <2>1. ~InFlight(s)' BY <1>5 DEF InFlight, NoCall
  <2>2. HoldsAll(s) => HoldsAll(s)' BY Zenon, <1>2 DEF HoldsAll
  <2> QED BY Zenon, <1>2, <1>8, <2>1, <2>2 DEF StartSound, Settled
<1>10. \A x \in Services \ {s} : Still(x) BY Zenon, <1>2, <1>4 DEF Still
<1> QED BY Zenon, <1>2, <1>7, <1>9, <1>10, HoldsStand, Stepwise

\* markRunning touches one service, and none of its marks.
LEMMA MarkedRunning ==
  ASSUME svc \in [Services -> Info], NEW s \in Services
  PROVE  /\ markRunning(s) \in [Services -> Info]
         /\ \A x \in Services \ {s} : markRunning(s)[x] = svc[x]
         /\ \A x \in Services : /\ markRunning(s)[x].inval = svc[x].inval
                                /\ markRunning(s)[x].defErr = svc[x].defErr
<1> DEFINE v == [svc[s] EXCEPT !.state = "running", !.alive = TRUE, !.err = FALSE, !.byUs = FALSE]
<1>1. v \in Info /\ v.inval = svc[s].inval /\ v.defErr = svc[s].defErr BY Zenon DEF Info, States
<1>2. markRunning(s) = [svc EXCEPT ![s] = v] BY Zenon DEF markRunning
<1> HIDE DEF v
<1>3. PICK g : g = markRunning(s) BY Zenon
<1>4. g \in [Services -> Info] /\ g[s] = v /\ \A x \in Services \ {s} : g[x] = svc[x]
  BY <1>1, <1>2, <1>3
<1> QED BY Zenon, <1>1, <1>3, <1>4

\* The driver is asked for the state of the service.
LEMMA EnsureStateSound ==
  ASSUME ManagerSound, NEW s \in Services, EnsureState(s)
  PROVE  ManagerSound'
<1>1. Typed /\ call[s].pc = "ensure" /\ UNCHANGED <<def, requirements, dependents, stop, tasks, deferred>>
  BY Zenon DEF ManagerSound, EnsureState, holdVars
<1>2. \/ svc' = markRunning(s) /\ call' = [call EXCEPT ![s].pc = "done"]
      \/ svc' = [svc EXCEPT ![s].state = "starting"] /\ call' = [call EXCEPT ![s].pc = "start"]
  BY Zenon DEF EnsureState
<1>3. svc' \in [Services -> Info] /\ \A x \in Services \ {s} : svc'[x] = svc[x]
  <2>1. svc \in [Services -> Info] BY Zenon, <1>1 DEF Typed
  <2>2. CASE svc' = markRunning(s) BY Zenon, <2>1, <2>2, MarkedRunning
  <2>3. CASE svc' = [svc EXCEPT ![s].state = "starting"]
    <3> DEFINE v == [svc[s] EXCEPT !.state = "starting"]
    <3>1. svc[s] \in Info BY Zenon, <2>1
    <3>2. v \in Info BY Zenon, <3>1, ErrorMarks
    <3>3. svc' = [svc EXCEPT ![s] = v] BY Zenon, <2>3
    <3> HIDE DEF v
    <3> QED BY Zenon, <2>1, <3>2, <3>3, Shown
  <2> QED BY Zenon, <1>2, <2>2, <2>3
<1> QED BY Zenon, <1>1, <1>2, <1>3, RunsOn

\* The driver is asked to start it.
LEMMA DriverStartSound ==
  ASSUME ManagerSound, NEW s \in Services, DriverStart(s)
  PROVE  ManagerSound'
<1>1. Typed /\ call[s].pc = "start" /\ UNCHANGED <<def, requirements, dependents, stop, tasks, deferred>>
  BY Zenon DEF ManagerSound, DriverStart, holdVars
<1>2. \/ svc' = svc /\ call' = [call EXCEPT ![s].pc = "poll"]
      \/ svc' = [svc EXCEPT ![s].state = "error", ![s].err = TRUE] /\ call' = [call EXCEPT ![s].pc = "failed"]
  BY Zenon DEF DriverStart
<1>3. svc' \in [Services -> Info] /\ \A x \in Services \ {s} : svc'[x] = svc[x]
  BY <1>1, <1>2 DEF Typed, Info, States
<1> QED BY Zenon, <1>1, <1>2, <1>3, RunsOn

\* The start waits for the service to be ready.
LEMMA PollSound ==
  ASSUME ManagerSound, NEW s \in Services, Poll(s)
  PROVE  ManagerSound'
<1>1. Typed /\ call[s].pc = "poll" /\ UNCHANGED <<def, requirements, dependents, stop, tasks, deferred>>
  BY Zenon DEF ManagerSound, Poll, holdVars
<1>2. \/ svc' = markRunning(s) /\ call' = [call EXCEPT ![s].pc = "done"]
      \/ svc' = [svc EXCEPT ![s].state = "error", ![s].err = TRUE] /\ call' = [call EXCEPT ![s].pc = "failed"]
  BY Zenon DEF Poll
<1>3. svc' \in [Services -> Info] /\ \A x \in Services \ {s} : svc'[x] = svc[x]
  <2>1. svc \in [Services -> Info] BY Zenon, <1>1 DEF Typed
  <2>2. CASE svc' = markRunning(s) BY Zenon, <2>1, <2>2, MarkedRunning
  <2>3. CASE svc' = [svc EXCEPT ![s].state = "error", ![s].err = TRUE]
    <3> DEFINE v == [svc[s] EXCEPT !.state = "error", !.err = TRUE]
    <3>1. svc[s] \in Info BY Zenon, <2>1
    <3>2. v \in Info BY Zenon, <3>1, ErrorMarks
    <3>3. svc' = [svc EXCEPT ![s] = v] BY Zenon, <2>3
    <3> HIDE DEF v
    <3> QED BY Zenon, <2>1, <3>2, <3>3, Shown
  <2> QED BY Zenon, <1>2, <2>2, <2>3
<1> QED BY Zenon, <1>1, <1>2, <1>3, RunsOn

\* Every step of a start keeps the invariant of the manager.
LEMMA CallStepSound ==
  ASSUME ManagerSound, NEW s \in Services, CallStep(s)
  PROVE  ManagerSound'
BY Zenon, AwaitStopSound, WokenSound, EnsureStateSound, DriverStartSound, PollSound, FailedSound,
   SucceededSound, CallDoneSound, WakeHoldSound, WakeEnsureSound DEF CallStep

-----------------------------------------------------------------------------
(* Stops and release functions.                                            *)

\* A stop ends: its holds are detached and given back.
LEMMA StopDoneSound ==
  ASSUME ManagerSound, NEW s \in Services, StopDone(s)
  PROVE  ManagerSound'
<1>1. Typed /\ StartSound(s) /\ stop[s].on BY Zenon DEF ManagerSound, StopDone
<1>2. stop' = [stop EXCEPT ![s] = NoStop] /\ UNCHANGED <<def, dependents, call, deferred>>
  BY Zenon DEF StopDone
<1>3. PICK err \in BOOLEAN, stopped \in BOOLEAN :
        /\ svc' = [svc EXCEPT ![s] = IF stopped
             THEN [@ EXCEPT !.state = "sleeping", !.byUs = TRUE, !.err = err, !.alive = FALSE]
             ELSE [@ EXCEPT !.err = TRUE]]
        /\ LET back == IF stopped THEN {r \in Services : <<s, r>> \in requirements} ELSE {} IN
             /\ requirements' = requirements \ ({s} \X back)
             /\ tasks' = tasks \cup Releases(s, back, stop[s].root)
  BY Zenon DEF StopDone
<1> DEFINE back == IF stopped THEN {r \in Services : <<s, r>> \in requirements} ELSE {}
<1>4. back \in SUBSET Services /\ {r \in back : <<s, r>> \in requirements} = back OBVIOUS
<1>5. requirements' = requirements \ ({s} \X back) /\ tasks' = tasks \cup Releases(s, back, stop[s].root)
  BY Zenon, <1>3
<1> HIDE DEF back
<1>6. /\ svc' \in [Services -> Info] /\ \A x \in Services \ {s} : svc'[x] = svc[x]
      /\ svc'[s].state = "sleeping" \/ svc'[s].err
  <2> DEFINE v == IF stopped
             THEN [svc[s] EXCEPT !.state = "sleeping", !.byUs = TRUE, !.err = err, !.alive = FALSE]
             ELSE [svc[s] EXCEPT !.err = TRUE]
  <2>1. svc \in [Services -> Info] BY Zenon, <1>1 DEF Typed
  <2>2. v \in Info /\ (v.state = "sleeping" \/ v.err) BY Zenon, <2>1 DEF Info, States
  <2>3. svc' = [svc EXCEPT ![s] = v] BY Zenon, <1>3
  <2> HIDE DEF v
  <2> QED BY Zenon, <2>1, <2>2, <2>3, OneEntry
<1>7. /\ stop' \in [Services -> [on : BOOLEAN, root : Roots]] /\ stop[s].root \in Roots
      /\ ~stop'[s].on /\ \A x \in Services \ {s} : stop'[x] = stop[x]
  BY <1>1, <1>2 DEF Typed, NoStop, Roots
<1>8. \A x \in Services : stop'[x].on => stop[x].on BY Zenon, <1>7
<1>9. /\ requirements' \subseteq Services \X Services /\ tasks' \subseteq Task
      /\ \A o, r \in Services : HoldSound(o, r)'
      /\ \A o \in Services \ {s}, r \in Services : <<o, r>> \in requirements => <<o, r>> \in requirements'
  <2>1. PICK root \in Roots : root = stop[s].root BY Zenon, <1>7
  <2> QED BY Zenon, <1>2, <1>4, <1>5, <1>8, <2>1, DetachSound
<1>10. Typed' BY Zenon, <1>1, <1>2, <1>6, <1>7, <1>9 DEF Typed
<1>11. StartSound(s)'
  <2>1. ASSUME InFlight(s)' PROVE CallSound(s)'
    <3>1. CallSound(s) /\ call[s].pc = "stopping" BY <1>1, <1>2, <2>1 DEF StartSound, CallSound, InFlight
    <3> QED BY <1>2, <1>7, <3>1 DEF CallSound, Loaded
  <2>2. Settled(s)' BY <1>6 DEF Settled
  <2> QED BY Zenon, <2>1, <2>2 DEF StartSound
<1>12. \A x \in Services \ {s} : Still(x) BY Zenon, <1>2, <1>6, <1>7, <1>9 DEF Still
<1> QED BY Zenon, <1>2, <1>9, <1>10, <1>11, <1>12, Stepwise

\* A stop of a service that nobody holds begins.
LEMMA BeginStopSound ==
  ASSUME ManagerSound, NEW s, NEW root \in Roots, BeginStop(s, root),
         UNCHANGED <<def, svc, requirements, dependents, call, deferred>>, tasks' \subseteq Task,
         \A o, r \in Services : Releasing(tasks', o, r) <=> Releasing(tasks, o, r)
  PROVE  ManagerSound'
<1>1. Typed BY Zenon DEF ManagerSound
<1>2. s \in Services BY <1>1 DEF BeginStop, Typed, Definitions, Loaded
<1>3. /\ stop' \in [Services -> [on : BOOLEAN, root : Roots]]
      /\ \A x \in Services : stop'[x] = stop[x] \/ (x = s /\ stop'[x].on)
  BY <1>1, <1>2 DEF BeginStop, Typed
<1>4. Holders(s) = {} /\ ~InFlight(s) BY Zenon DEF BeginStop
<1> QED BY Zenon, <1>1, <1>3, <1>4, CallsStand DEF Typed

\* A stop that somebody asks for begins.
LEMMA StopRequestSound ==
  ASSUME ManagerSound, NEW s \in Services, StopRequest(s)
  PROVE  ManagerSound'
<1>1. "nobody" \in Roots BY Zenon DEF Roots
<1> QED BY Zenon, <1>1, BeginStopSound DEF StopRequest, holdVars, ManagerSound, Typed

\* A release function runs: it gives its hold back, or is superseded and idle.
LEMMA RunReleaseSound ==
  ASSUME ManagerSound, NEW t \in tasks, RunRelease(t)
  PROVE  ManagerSound'
<1>1. Typed /\ t \in Task /\ t.kind = "release" BY Zenon DEF ManagerSound, Typed, RunRelease
<1>2. UNCHANGED <<def, svc, requirements, call, stop>> BY Zenon DEF RunRelease
<1>3. CASE ~t.live
  <2>1. tasks' = tasks \ {t} /\ UNCHANGED <<dependents, deferred>> BY Zenon, <1>3 DEF RunRelease
  <2>2. tasks' \subseteq Task BY <1>1, <2>1 DEF Typed
  <2>3. \A o, r \in Services : Releasing(tasks', o, r) <=> Releasing(tasks, o, r)
    BY <1>3, <2>1 DEF Releasing, GivesBack
  <2> QED BY Zenon, <1>1, <1>2, <2>1, <2>2, <2>3, CallsStand DEF Typed
<1>4. CASE t.live
  <2>1. /\ dependents' = dependents \ {<<t.owner, t.req>>}
        /\ deferred' = deferred \/ deferred' = deferred \cup {t.req}
        /\ tasks' = tasks \ {t} \/ tasks' = (tasks \ {t}) \cup {[t EXCEPT !.kind = "idle"]}
    BY Zenon, <1>4 DEF RunRelease
  <2>2. /\ t.owner \in Services /\ t.req \in Services
        /\ [t EXCEPT !.kind = "idle"] \in Task /\ [t EXCEPT !.kind = "idle"].kind # "release"
    BY <1>1 DEF Task
  <2>3. Typed' BY <1>1, <1>2, <2>1, <2>2 DEF Typed
  <2>4. ASSUME NEW o \in Services, NEW r \in Services PROVE HoldSound(o, r)'
    <3>1. HoldSound(o, r) BY Zenon DEF ManagerSound
    <3>2. CASE o = t.owner /\ r = t.req
      <4>1. Releasing(tasks, o, r) BY Zenon, <1>1, <1>4, <3>2 DEF Releasing, GivesBack
      <4>2. <<o, r>> \notin requirements' BY Zenon, <1>2, <3>1, <4>1 DEF HoldSound
      <4>3. <<o, r>> \notin dependents' BY <2>1, <3>2
      <4> QED BY Zenon, <4>2, <4>3 DEF HoldSound
    <3>3. CASE ~(o = t.owner /\ r = t.req)
      <4>1. Releasing(tasks', o, r) <=> Releasing(tasks, o, r)
        BY Zenon, <2>1, <2>2, <3>3 DEF Releasing, GivesBack
      <4>2. <<o, r>> \in dependents' <=> <<o, r>> \in dependents BY <2>1, <3>3
      <4> QED BY Zenon, <1>2, <3>1, <4>1, <4>2, PairKeeps
    <3> QED BY Zenon, <3>2, <3>3
  <2>5. \A x \in Services : Still(x) BY Zenon, <1>2 DEF Still
  <2> QED BY Zenon, <1>2, <2>3, <2>4, <2>5, Stepwise
<1> QED BY Zenon, <1>3, <1>4

\* An idle stop runs, and stops only what nobody holds.
LEMMA RunIdleStopSound ==
  ASSUME ManagerSound, NEW t \in tasks, RunIdleStop(t)
  PROVE  ManagerSound'
<1>1. /\ Typed /\ t \in Task /\ t.kind = "idle" /\ tasks' = tasks \ {t}
      /\ UNCHANGED <<def, svc, requirements, dependents, call, deferred>>
  BY Zenon DEF ManagerSound, Typed, RunIdleStop, holdVars
<1>2. tasks' \subseteq Task BY <1>1 DEF Typed
<1>3. \A o, r \in Services : Releasing(tasks', o, r) <=> Releasing(tasks, o, r)
  BY <1>1 DEF Releasing, GivesBack
<1>4. CASE stop' = stop BY Zenon, <1>1, <1>2, <1>3, <1>4, CallsStand DEF Typed
<1>5. CASE BeginStop(t.req, t.root)
  <2>1. PICK root \in Roots : root = t.root BY <1>1 DEF Task
  <2>2. BeginStop(t.req, root) BY Zenon, <1>5, <2>1
  <2>3. PICK q : q = t.req BY Zenon
  <2> QED BY Zenon, <1>1, <1>2, <1>3, <2>2, <2>3, BeginStopSound
<1> QED BY Zenon, <1>4, <1>5 DEF RunIdleStop

\* Idle stops are set going.
LEMMA IdleSound ==
  ASSUME ManagerSound, NEW ss \in SUBSET Services, tasks' = tasks \cup {IdleTask(s) : s \in ss},
         deferred' \subseteq Services, UNCHANGED <<def, svc, requirements, dependents, call, stop>>
  PROVE  ManagerSound'
<1>1. Typed BY Zenon DEF ManagerSound
<1> DEFINE more == {IdleTask(s) : s \in ss}
<1>2. more \subseteq Task /\ \A t \in more : t.kind # "release" BY Zenon, IdleTyped
<1>3. tasks' = tasks \cup more OBVIOUS
<1> HIDE DEF more
<1>4. \A o, r \in Services : Releasing(tasks', o, r) <=> Releasing(tasks, o, r) BY Zenon, <1>2, <1>3, IdleAdds
<1>5. tasks' \subseteq Task BY <1>1, <1>2, <1>3 DEF Typed
<1> QED BY Zenon, <1>1, <1>4, <1>5, CallsStand DEF Typed

\* The sweep of idle services.
LEMMA StopIdleSound ==
  ASSUME ManagerSound, StopIdle
  PROVE  ManagerSound'
<1>1. Typed /\ UNCHANGED <<def, svc, requirements, dependents, call, stop, deferred>>
  BY Zenon DEF ManagerSound, StopIdle, holdVars
<1>2. PICK idle \in SUBSET Loaded : tasks' = tasks \cup {IdleTask(s) : s \in idle} BY DEF StopIdle
<1>3. idle \in SUBSET Services BY <1>1 DEF Typed, Definitions, Loaded
<1> QED BY Zenon, <1>1, <1>2, <1>3, IdleSound DEF Typed

\* The stops that were put off during a refresh are set going.
LEMMA FinishRefreshSound ==
  ASSUME ManagerSound, FinishRefresh
  PROVE  ManagerSound'
<1>1. /\ Typed /\ UNCHANGED <<def, svc, requirements, dependents, call, stop>>
      /\ tasks' = tasks \cup {IdleTask(s) : s \in deferred} /\ deferred' = {}
  BY Zenon DEF ManagerSound, FinishRefresh, holdVars
<1>2. deferred \in SUBSET Services /\ deferred' \subseteq Services BY <1>1 DEF Typed
<1>3. PICK ss \in SUBSET Services : ss = deferred BY Zenon, <1>2
<1> QED BY Zenon, <1>1, <1>2, <1>3, IdleSound

-----------------------------------------------------------------------------
(* Refresh and Apply.                                                      *)

\* An observation of the driver leaves the marks of the service alone.
LEMMA ObservedTyped ==
  ASSUME NEW v \in Info, NEW what
  PROVE  /\ Observed(v, what) \in Info
         /\ Observed(v, what).inval = v.inval /\ Observed(v, what).defErr = v.defErr
BY Zenon DEF Observed, Info, States

\* Release functions of a set of holds.
ReleasesOf(back, root) == UNION {Releases(h[1], {h[2]}, root) : h \in back}

\* The release functions of a set of holds give back just that set.
LEMMA ReleaseAll ==
  ASSUME NEW ts \in SUBSET Task, NEW back \in SUBSET (Services \X Services), NEW root \in Roots
  PROVE  /\ ts \cup ReleasesOf(back, root) \subseteq Task
         /\ \A o, r \in Services :
              Releasing(ts \cup ReleasesOf(back, root), o, r) <=> Releasing(ts, o, r) \/ <<o, r>> \in back
<1> DEFINE of(h) == Releases(h[1], {h[2]}, root)
<1> DEFINE more == UNION {of(h) : h \in back}
<1>1. \A t : t \in more <=> \E h \in back : t \in of(h) BY Zenon
<1>2. ASSUME NEW h \in back, NEW t \in of(h), NEW o, NEW r
      PROVE  t \in Task /\ (GivesBack(t, o, r) <=> <<o, r>> = h)
  <2>1. PICK a \in Services, b \in Services : h = <<a, b>> OBVIOUS
  <2>2. h[1] = a /\ h[2] = b BY <2>1
  <2>3. t \in [kind : {"release"}, owner : {a}, req : {b}, live : {TRUE}, root : {root}]
    BY Zenon, <2>2 DEF Releases
  <2>4. t.kind = "release" /\ t.owner = a /\ t.req = b /\ t.live /\ t \in Task BY Zenon, <2>3 DEF Task
  <2> QED BY <2>1, <2>4 DEF GivesBack
<1>3. ASSUME NEW o \in Services, NEW r \in Services, <<o, r>> \in back
      PROVE  \E t \in of(<<o, r>>) : GivesBack(t, o, r)
  <2> DEFINE t == [kind |-> "release", owner |-> o, req |-> r, live |-> TRUE, root |-> root]
  <2>1. t \in of(<<o, r>>) BY DEF Releases
  <2> QED BY Zenon, <1>2, <1>3, <2>1
<1> HIDE DEF of
<1>4. more \subseteq Task BY Zenon, <1>1, <1>2
<1>5. ts \cup more \subseteq Task BY Zenon, <1>4
<1>6. ASSUME NEW o \in Services, NEW r \in Services
      PROVE  Releasing(ts \cup more, o, r) <=> Releasing(ts, o, r) \/ <<o, r>> \in back
  <2>1. ASSUME NEW t \in more, GivesBack(t, o, r) PROVE <<o, r>> \in back
    <3>1. PICK h \in back : t \in of(h) BY Zenon, <1>1
    <3>2. GivesBack(t, o, r) <=> <<o, r>> = h BY ZenonT(40), <1>2, <3>1
    <3> QED BY Zenon, <2>1, <3>1, <3>2
  <2>2. ASSUME <<o, r>> \in back PROVE \E t \in more : GivesBack(t, o, r) BY Zenon, <1>1, <1>3, <2>2
  <2> HIDE DEF more
  <2> QED BY Zenon, <2>1, <2>2 DEF Releasing
<1>7. ReleasesOf(back, root) = more BY Zenon DEF ReleasesOf, of
<1> HIDE DEF more
<1> QED BY Zenon, <1>5, <1>6, <1>7

\* Refresh shows what was observed, detaches the holds of what has stopped and
\* holds again what the running services require.
LEMMA RefreshApplySound ==
  ASSUME ManagerSound, RefreshApply
  PROVE  ManagerSound'
<1> DEFINE fresh == {s \in DOMAIN refresh.seen : Unchanged(s)}
<1> DEFINE svc1 == [s \in Services |-> IF s \in fresh THEN Observed(svc[s], refresh.seen[s]) ELSE svc[s]]
<1> DEFINE ended == {s \in fresh : refresh.seen[s] = "stopped"}
<1> DEFINE back == {h \in requirements : h[1] \in ended}
<1> DEFINE up == {s \in Loaded : ~InFlight(s) /\ ~stop[s].on
                              /\ svc1[s].state \in {"running", "partial", "unhealthy"}}
<1> DEFINE bad == {s \in up : ~validateRequirements(s, def, svc1)}
<1> DEFINE again == {s \in up \ bad : def[s].req # {}}
<1> DEFINE added(s) == {r \in def[s].req : ~stop[r].on /\ <<s, r>> \notin requirements}
<1> DEFINE new == UNION {{s} \X added(s) : s \in again}
<1> DEFINE more == ReleasesOf(back, "refresh")
<1>1. Typed BY Zenon DEF ManagerSound
<1>2. /\ svc' = [s \in Services |-> IF s \in bad THEN [svc1[s] EXCEPT !.err = TRUE] ELSE svc1[s]]
      /\ requirements' = (requirements \ back) \cup new
      /\ dependents' = dependents \cup new
      /\ tasks' = Superseded(tasks, new) \cup more
      /\ call' = [s \in Services |-> IF s \in again THEN [NewCall(s) EXCEPT !.added = added(s)] ELSE call[s]]
      /\ UNCHANGED <<def, stop, deferred>>
  BY Zenon DEF RefreshApply, ReleasesOf
<1>3. \A o, r : <<o, r>> \in new <=> o \in again /\ r \in added(o)
  <2> HIDE DEF again, added
  <2> QED OBVIOUS
<1>4. \A o, r : <<o, r>> \in back <=> <<o, r>> \in requirements /\ o \in ended OBVIOUS
<1>5. \A s \in ended : s \in fresh /\ ~InFlight(s) BY DEF Unchanged
<1>6. ASSUME NEW s \in again
      PROVE  s \in Loaded /\ s \in Services /\ ~InFlight(s) /\ ~stop[s].on /\ added(s) \in SUBSET Services
  <2>1. s \in Loaded /\ ~InFlight(s) /\ ~stop[s].on OBVIOUS
  <2>2. def[s].req \subseteq Services /\ s \in Services
    BY <1>1, <2>1, RequiresServices DEF Typed, Definitions, Loaded
  <2> QED BY Zenon, <2>1, <2>2
<1>7. \A s \in Services : svc1[s] \in Info
  BY Zenon, <1>1, ObservedTyped DEF Typed
<1>8. svc' \in [Services -> Info]
  <2> HIDE DEF svc1, bad
  <2>1. \A s \in Services : [svc1[s] EXCEPT !.err = TRUE] \in Info BY Zenon, <1>7, ErrorMarks
  <2> QED BY <1>2, <1>7, <2>1
<1>9. ASSUME NEW s \in again
      PROVE  /\ call'[s] \in Call /\ call'[s].pc = "wake" /\ call'[s].def = def[s]
             /\ call'[s].wake = def[s].req /\ call'[s].held = {}
  <2>1. /\ NewCall(s) \in Call /\ NewCall(s).pc = "wake" /\ NewCall(s).def = def[s]
        /\ NewCall(s).wake = def[s].req /\ NewCall(s).held = {}
    <3>1. /\ NewCall(s) \in Call /\ NewCall(s).def = def[s]
          /\ NewCall(s).wake = def[s].req /\ NewCall(s).held = {}
      BY Zenon, <1>1, <1>6, NewCallTyped
    <3>2. NewCall(s).pc = "wake" BY <1>6 DEF NewCall, NoCall
    <3> QED BY Zenon, <3>1, <3>2
  <2>2. call'[s] = [NewCall(s) EXCEPT !.added = added(s)] BY Zenon, <1>2, <1>6
  <2> HIDE DEF added
  <2> QED BY <1>6, <2>1, <2>2 DEF Call
<1>10. \A s \in Services \ again : call'[s] = call[s] BY Zenon, <1>2
<1>11. call' \in [Services -> Call]
  <2>1. ASSUME NEW s \in Services PROVE call'[s] \in Call
    <3> HIDE DEF again
    <3>1. CASE s \in again BY Zenon, <1>9, <3>1
    <3>2. CASE s \notin again
      <4>1. call'[s] = call[s] BY Zenon, <1>10, <3>2
      <4> QED BY Zenon, <1>1, <4>1 DEF Typed
    <3> QED BY Zenon, <3>1, <3>2
  <2>2. call' = [s \in Services |-> call'[s]] BY Zenon, <1>2
  <2> QED BY Zenon, <2>1, <2>2
<1>12. new \subseteq Services \X Services /\ back \subseteq requirements
  <2> HIDE DEF again, added
  <2> QED BY <1>6
<1>13. /\ tasks' \subseteq Task
       /\ \A o, r \in Services : Releasing(tasks', o, r) <=>
            (Releasing(tasks, o, r) /\ <<o, r>> \notin new) \/ <<o, r>> \in back
  <2> DEFINE rest == Superseded(tasks, new)
  <2> HIDE DEF new, back
  <2>1. /\ rest \in SUBSET Task
        /\ \A o, r : Releasing(rest, o, r) <=> Releasing(tasks, o, r) /\ <<o, r>> \notin new
    BY Zenon, <1>1, SupersededDrops DEF Typed
  <2>2. back \in SUBSET (Services \X Services) /\ "refresh" \in Roots BY <1>1, <1>12 DEF Typed, Roots
  <2>3. tasks' = rest \cup more BY Zenon, <1>2
  <2> HIDE DEF rest
  <2>4. /\ rest \cup more \subseteq Task
        /\ \A o, r \in Services : Releasing(rest \cup more, o, r) <=> Releasing(rest, o, r) \/ <<o, r>> \in back
    <3>1. PICK ts \in SUBSET Task, hs \in SUBSET (Services \X Services) : ts = rest /\ hs = back BY Zenon, <2>1, <2>2
    <3>2. /\ ts \cup ReleasesOf(hs, "refresh") \subseteq Task
          /\ \A o, r \in Services :
               Releasing(ts \cup ReleasesOf(hs, "refresh"), o, r) <=> Releasing(ts, o, r) \/ <<o, r>> \in hs
      BY Zenon, <2>2, ReleaseAll
    <3> QED BY Zenon, <3>1, <3>2
  <2> HIDE DEF more
  <2> QED BY Zenon, <2>1, <2>3, <2>4
<1>14. Typed'
  <2>1. requirements' \subseteq Services \X Services /\ dependents' \subseteq Services \X Services
    <3> HIDE DEF new, back
    <3> QED BY <1>1, <1>2, <1>12 DEF Typed
  <2> QED BY Zenon, <1>1, <1>2, <1>8, <1>11, <1>13, <2>1 DEF Typed
<1>15. ASSUME NEW o \in Services, NEW r \in Services PROVE HoldSound(o, r)'
  <2>1. HoldSound(o, r) BY Zenon DEF ManagerSound
  <2>2. <<o, r>> \in new => <<o, r>> \notin requirements /\ ~stop[r].on BY Zenon, <1>3
  <2>3. <<o, r>> \in back => <<o, r>> \in requirements BY Zenon, <1>4
  <2> HIDE DEF new, back, more
  <2>4. /\ <<o, r>> \in requirements' <=> (<<o, r>> \in requirements /\ <<o, r>> \notin back) \/ <<o, r>> \in new
        /\ <<o, r>> \in dependents' <=> <<o, r>> \in dependents \/ <<o, r>> \in new
    BY Zenon, <1>2
  <2>5. stop' = stop BY Zenon, <1>2
  <2> QED BY Zenon, <1>13, <2>1, <2>2, <2>3, <2>4, <2>5 DEF HoldSound
<1>16. ASSUME NEW s \in Services PROVE Still(s) \/ StartSound(s)'
  <2>1. CASE s \in again
    <3> HIDE DEF again
    <3> QED BY Zenon, <1>2, <1>6, <1>9, <2>1, FreshCall DEF Loaded
  <2>2. CASE s \notin again /\ InFlight(s)
    <3>1. s \notin fresh /\ s \notin bad BY Zenon, <2>2 DEF Unchanged
    <3>2. svc'[s] = svc[s] BY Zenon, <1>2, <3>1
    <3>3. \A r \in Services : <<s, r>> \in requirements => <<s, r>> \in requirements'
      <4>1. \A r : <<s, r>> \notin back BY Zenon, <1>4, <1>5, <2>2
      <4> HIDE DEF back, new
      <4> QED BY Zenon, <1>2, <4>1
    <3> QED BY Zenon, <1>2, <1>10, <2>2, <3>2, <3>3 DEF Still
  <2>3. CASE s \notin again /\ ~InFlight(s)
    <3>1. call'[s] = call[s] BY Zenon, <1>10, <2>3
    <3>2. ~InFlight(s)' BY Zenon, <2>3, <3>1 DEF InFlight
    <3>3. ASSUME s \in Loaded, svc'[s].state = "running", ~svc'[s].err, ~stop[s].on PROVE HoldsAll(s)'
      <4>1. svc'[s] = IF s \in bad THEN [svc1[s] EXCEPT !.err = TRUE] ELSE svc1[s] BY Zenon, <1>2
      <4>2. [svc1[s] EXCEPT !.err = TRUE].err BY <1>7 DEF Info
      <4>3. s \notin bad BY Zenon, <3>3, <4>1, <4>2
      <4>4. svc1[s].state = "running" BY Zenon, <3>3, <4>1, <4>3
      <4>5. s \in up BY Zenon, <2>3, <3>3, <4>4
      <4>6. def[s].req = {} BY Zenon, <2>3, <4>3, <4>5
      <4> QED BY Zenon, <1>2, <4>6 DEF HoldsAll
    <3> QED BY Zenon, <1>2, <3>2, <3>3 DEF StartSound, Settled, Loaded
  <2> QED BY Zenon, <2>1, <2>2, <2>3
<1> QED BY Zenon, <1>2, <1>14, <1>15, <1>16, Stepwise

\* Apply leaves every service with the definition it was given or with a mark,
\* and begins a start of all that runs.
LEMMA InstallSound ==
  ASSUME ManagerSound, NEW defs, Definitions(defs), Install(defs),
         UNCHANGED <<requirements, dependents, stop, tasks, deferred>>
  PROVE  /\ ManagerSound'
         /\ DOMAIN defs \subseteq DOMAIN def'
         /\ \A s \in DOMAIN def' : (s \in DOMAIN defs /\ def'[s] = defs[s]) \/ svc'[s].defErr
<1> DEFINE stuck == {s \in Loaded : runtimeProtected(s) /\
                  (s \notin DOMAIN defs \/ (s \in DOMAIN defs /\ defs[s].cfg # def[s].cfg))}
<1> DEFINE new == [s \in DOMAIN defs \cup stuck |-> IF s \in stuck THEN def[s] ELSE defs[s]]
<1> DEFINE same(s) == s \in Loaded /\ new[s] = def[s]
<1> DEFINE cleared(s) == svc[s].state = "error" /\ ~same(s) /\ \A h \in requirements : h[1] # s
<1> DEFINE svc1 == [s \in Services |->
        IF s \in stuck THEN [svc[s] EXCEPT !.defErr = TRUE]
        ELSE IF s \notin DOMAIN new \/ s \notin Loaded THEN NewService
        ELSE [svc[s] EXCEPT !.defErr = FALSE, !.inval = FALSE,
                            !.state = IF cleared(s) THEN "unknown" ELSE @,
                            !.err = IF cleared(s) THEN FALSE ELSE @]]
<1> DEFINE up == {s \in DOMAIN new : svc1[s].state \in {"running", "partial", "unhealthy"}
                                \/ \E h \in requirements : h[1] = s}
<1> DEFINE bad == {s \in up : ~validateRequirements(s, new, svc1)}
<1> DEFINE again == {s \in up \ bad : new[s].req # {} \/ \E h \in requirements : h[1] = s}
<1>1. Typed BY Zenon DEF ManagerSound
<1>2. /\ Quiet /\ def' = new
      /\ svc' = [s \in Services |-> IF s \in bad THEN [svc1[s] EXCEPT !.err = TRUE] ELSE svc1[s]]
      /\ call' = [s \in Services |->
           IF s \in again THEN [NoCall EXCEPT !.pc = "wake", !.def = new[s], !.wake = new[s].req] ELSE call[s]]
  BY Zenon DEF Install
<1>3. stuck \subseteq Loaded /\ Loaded \subseteq Services /\ DOMAIN defs \subseteq Services
  BY <1>1 DEF Typed, Definitions, Loaded
<1>4. /\ DOMAIN new = DOMAIN defs \cup stuck
      /\ \A s \in stuck : new[s] = def[s] /\ new[s] \in Definition
      /\ \A s \in DOMAIN defs \ stuck : new[s] = defs[s] /\ new[s] \in Definition
  <2>1. \A s \in Loaded : def[s] \in Definition BY <1>1 DEF Typed, Definitions, Loaded
  <2>2. \A s \in DOMAIN defs : defs[s] \in Definition BY DEF Definitions
  <2> HIDE DEF stuck
  <2> QED BY <1>3, <2>1, <2>2
<1> HIDE DEF new
<1>5. Definitions(new)
  <2>1. new = [s \in DOMAIN new |-> new[s]] BY DEF new
  <2>2. \A s \in DOMAIN new : new[s] \in Definition BY Zenon, <1>4
  <2>3. DOMAIN new \subseteq Services BY Zenon, <1>3, <1>4
  <2> QED BY Zenon, <2>1, <2>2, <2>3 DEF Definitions
<1>6. ASSUME NEW s \in Services
      PROVE  svc1[s] \in Info /\ (s \in stuck => svc1[s].defErr)
  <2>1. svc[s] \in Info BY Zenon, <1>1 DEF Typed
  <2>2. NewService \in Info BY DEF NewService, Info, States
  <2> HIDE DEF stuck, same, cleared
  <2>3. CASE s \in stuck
    <3>1. svc1[s] = [svc[s] EXCEPT !.defErr = TRUE] BY Zenon, <2>3
    <3> HIDE DEF svc1
    <3> QED BY Zenon, <2>1, <2>3, <3>1 DEF Info
  <2>4. CASE s \notin stuck /\ (s \notin DOMAIN new \/ s \notin Loaded)
    <3>1. svc1[s] = NewService BY Zenon, <2>4
    <3> QED BY Zenon, <2>2, <2>4, <3>1
  <2>5. CASE s \notin stuck /\ ~(s \notin DOMAIN new \/ s \notin Loaded)
    <3> DEFINE st == IF cleared(s) THEN "unknown" ELSE svc[s].state
    <3> DEFINE er == IF cleared(s) THEN FALSE ELSE svc[s].err
    <3>1. svc1[s] = [svc[s] EXCEPT !.defErr = FALSE, !.inval = FALSE, !.state = st, !.err = er] BY Zenon, <2>5
    <3>2. st \in States /\ er \in BOOLEAN BY Zenon, <2>1 DEF Info, States
    <3> HIDE DEF svc1, st, er
    <3> QED BY Zenon, <2>1, <2>5, <3>1, <3>2 DEF Info
  <2> QED BY Zenon, <2>3, <2>4, <2>5
<1> HIDE DEF stuck, svc1
<1>7. ASSUME NEW s \in Services
      PROVE  /\ svc'[s] \in Info /\ (svc1[s].defErr => svc'[s].defErr)
             /\ s \in bad => svc'[s].err
             /\ s \notin bad => svc'[s] = svc1[s]
  <2>1. svc1[s] \in Info BY Zenon, <1>6
  <2>2. svc'[s] = IF s \in bad THEN [svc1[s] EXCEPT !.err = TRUE] ELSE svc1[s] BY Zenon, <1>2
  <2> HIDE DEF bad
  <2> QED BY Zenon, <2>1, <2>2 DEF Info
<1>8. svc' \in [Services -> Info]
  <2>1. svc' = [s \in Services |-> svc'[s]] BY Zenon, <1>2
  <2> QED BY Zenon, <1>7, <2>1
<1>9. ASSUME NEW s \in DOMAIN new
      PROVE  /\ s \in Services /\ new[s] \in Definition /\ new[s].req \in SUBSET Services
  <2>1. s \in Services /\ new[s] \in Definition BY Zenon, <1>5 DEF Definitions
  <2> QED BY <2>1 DEF Definition
<1>10. ASSUME NEW s \in Services, s \in again
       PROVE  /\ call'[s] \in Call /\ call'[s].pc = "wake" /\ call'[s].def = new[s]
              /\ call'[s].wake = new[s].req /\ call'[s].held = {} /\ s \in DOMAIN new
  <2>1. s \in DOMAIN new BY Zenon, <1>10
  <2>2. call'[s] = [NoCall EXCEPT !.pc = "wake", !.def = new[s], !.wake = new[s].req] BY Zenon, <1>2, <1>10
  <2>3. new[s] \in Definition /\ new[s].req \in SUBSET Services BY Zenon, <1>9, <2>1
  <2> QED BY Zenon, <2>1, <2>2, <2>3 DEF NoCall, Call, CallPcs
<1>11. \A s \in Services \ again : call'[s] = call[s] BY Zenon, <1>2
<1>12. call' \in [Services -> Call]
  <2>1. \A s \in Services : call'[s] \in Call BY Zenon, <1>1, <1>10, <1>11 DEF Typed
  <2>2. call' = [s \in Services |-> call'[s]] BY Zenon, <1>2
  <2> QED BY Zenon, <2>1, <2>2
<1>13. Typed' BY Zenon, <1>1, <1>2, <1>5, <1>8, <1>12 DEF Typed
<1>14. ASSUME NEW s \in Services PROVE StartSound(s)'
  <2>1. ~InFlight(s) /\ ~stop[s].on BY Zenon, <1>2 DEF Quiet
  <2>2. CASE s \in again BY Zenon, <1>2, <1>10, <2>1, <2>2, FreshCall
  <2>3. CASE s \notin again
    <3>1. ~InFlight(s)'
      <4>1. call'[s] = call[s] BY Zenon, <1>11, <2>3
      <4> QED BY Zenon, <2>1, <4>1 DEF InFlight
    <3>2. ASSUME s \in DOMAIN new, svc'[s].state = "running", ~svc'[s].err PROVE HoldsAll(s)'
      <4>1. s \notin bad BY Zenon, <1>7, <3>2
      <4>2. svc1[s].state = "running" BY Zenon, <1>7, <3>2, <4>1
      <4>3. s \in up BY Zenon, <3>2, <4>2
      <4>4. new[s].req = {} BY Zenon, <2>3, <4>1, <4>3
      <4> QED BY Zenon, <1>2, <4>4 DEF HoldsAll
    <3> QED BY Zenon, <1>2, <3>1, <3>2 DEF StartSound, Settled, Loaded
  <2> QED BY Zenon, <2>2, <2>3
<1>15. ManagerSound' BY Zenon, <1>13, <1>14, HoldsStand DEF ManagerSound
<1>16. DOMAIN defs \subseteq DOMAIN def' BY Zenon, <1>2, <1>4
<1>17. ASSUME NEW s \in DOMAIN new PROVE (s \in DOMAIN defs /\ new[s] = defs[s]) \/ svc'[s].defErr
  BY Zenon, <1>4, <1>6, <1>7, <1>9
<1> QED BY Zenon, <1>2, <1>15, <1>16, <1>17

-----------------------------------------------------------------------------
(* Requests and the manager together: what each of them does to the other. *)

\* A step of which the manager's holds and calls know nothing.
LEMMA ManagerStands ==
  ASSUME ManagerSound, UNCHANGED <<def, requirements, dependents, call, stop, tasks, deferred>>,
         svc' \in [Services -> Info],
         \A s \in Services : svc'[s].state = svc[s].state /\ svc'[s].err = svc[s].err
  PROVE  ManagerSound'
BY Zenon, CallsStand DEF ManagerSound, Typed

\* A step that leaves the manager alone.
LEMMA ManagerRests ==
  ASSUME ManagerSound, UNCHANGED <<def, svc, requirements, dependents, call, stop, tasks, deferred>>
  PROVE  ManagerSound'
BY Zenon, ManagerStands DEF ManagerSound, Typed

\* A step that keeps definitions and marks.
MarksKept ==
  /\ UNCHANGED <<def, reload>>
  /\ \A s \in Services : svc'[s].inval = svc[s].inval /\ svc'[s].defErr = svc[s].defErr

\* No step of a start touches the marks of an unapplied change.
LEMMA CallStepMarks ==
  ASSUME Typed, NEW s \in Services, CallStep(s)
  PROVE  MarksKept
<1>1. svc \in [Services -> Info] BY Zenon DEF Typed
<1>2. CASE EnsureState(s) BY <1>1, <1>2 DEF EnsureState, markRunning, MarksKept, Info
<1>3. CASE DriverStart(s) BY <1>1, <1>3 DEF DriverStart, MarksKept, Info
<1>4. CASE Poll(s) BY <1>1, <1>4 DEF Poll, markRunning, MarksKept, Info
<1>5. CASE Failed(s) BY <1>1, <1>5 DEF Failed, MarksKept, Info
<1>6. CASE Woken(s)
  <2>1. svc' = svc \/ svc' = [svc EXCEPT ![s].err = TRUE] BY Zenon, <1>6 DEF Woken
  <2>2. UNCHANGED <<def, reload>> BY Zenon, <1>6 DEF Woken
  <2> QED BY <1>1, <2>1, <2>2 DEF MarksKept, Info
<1>7. CASE AwaitStop(s) \/ Succeeded(s) \/ CallDone(s)
  BY Zenon, <1>7 DEF AwaitStop, Succeeded, CallDone, MarksKept
<1>8. CASE \E r \in Services : WakeHold(s, r) \/ WakeEnsure(s, r)
  BY Zenon, <1>8 DEF WakeHold, WakeEnsure, MarksKept
<1> QED BY Zenon, <1>2, <1>3, <1>4, <1>5, <1>6, <1>7, <1>8 DEF CallStep

\* Neither does Refresh.
LEMMA RefreshApplyMarks ==
  ASSUME Typed, RefreshApply
  PROVE  MarksKept
<1>1. svc \in [Services -> Info] BY Zenon DEF Typed
<1>2. PICK fresh, bad :
        svc' = [s \in Services |->
          IF s \in bad
          THEN [[x \in Services |-> IF x \in fresh THEN Observed(svc[x], refresh.seen[x]) ELSE svc[x]][s]
                  EXCEPT !.err = TRUE]
          ELSE [x \in Services |-> IF x \in fresh THEN Observed(svc[x], refresh.seen[x]) ELSE svc[x]][s]]
  BY Zenon DEF RefreshApply
<1>3. ASSUME NEW s \in Services PROVE svc'[s].inval = svc[s].inval /\ svc'[s].defErr = svc[s].defErr
  <2> DEFINE v == IF s \in fresh THEN Observed(svc[s], refresh.seen[s]) ELSE svc[s]
  <2>1. v \in Info /\ v.inval = svc[s].inval /\ v.defErr = svc[s].defErr BY Zenon, <1>1, ObservedTyped
  <2>2. svc'[s] = IF s \in bad THEN [v EXCEPT !.err = TRUE] ELSE v BY Zenon, <1>2
  <2> HIDE DEF v
  <2> QED BY <2>1, <2>2 DEF Info
<1> QED BY Zenon, <1>3 DEF RefreshApply, MarksKept

\* All that the manager does by itself.
LEMMA BackgroundSound ==
  ASSUME ManagerSound, Background
  PROVE  ManagerSound' /\ MarksKept
<1>1. Typed BY Zenon DEF ManagerSound
<1>2. ASSUME NEW s \in Services, CallStep(s) PROVE ManagerSound' /\ MarksKept
  BY Zenon, <1>1, <1>2, CallStepSound, CallStepMarks
<1>3. ASSUME NEW s \in Services, StopDone(s) PROVE ManagerSound' /\ MarksKept
  <2>1. PICK err \in BOOLEAN, stopped \in BOOLEAN :
          svc' = [svc EXCEPT ![s] = IF stopped
            THEN [@ EXCEPT !.state = "sleeping", !.byUs = TRUE, !.err = err, !.alive = FALSE]
            ELSE [@ EXCEPT !.err = TRUE]]
    BY Zenon, <1>3 DEF StopDone
  <2>2. \A x \in Services : svc'[x].inval = svc[x].inval /\ svc'[x].defErr = svc[x].defErr
    BY <1>1, <2>1 DEF Typed, Info
  <2>3. UNCHANGED <<def, reload>> BY Zenon, <1>3 DEF StopDone
  <2>4. ManagerSound' BY Zenon, <1>3, StopDoneSound
  <2> QED BY Zenon, <2>2, <2>3, <2>4 DEF MarksKept
<1>4. ASSUME NEW s \in Services, Observe(s) PROVE ManagerSound' /\ MarksKept
  BY Zenon, <1>4, ManagerRests DEF Observe, holdVars, MarksKept
<1>5. ASSUME NEW t \in tasks, RunRelease(t) \/ RunIdleStop(t) PROVE ManagerSound' /\ MarksKept
  <2>1. MarksKept BY Zenon, <1>5 DEF RunRelease, RunIdleStop, MarksKept
  <2> QED BY Zenon, <1>5, <2>1, RunReleaseSound, RunIdleStopSound
<1>6. ASSUME RefreshApply PROVE ManagerSound' /\ MarksKept
  BY Zenon, <1>1, <1>6, RefreshApplySound, RefreshApplyMarks
<1>7. ASSUME FinishRefresh PROVE ManagerSound' /\ MarksKept
  BY Zenon, <1>7, FinishRefreshSound DEF FinishRefresh, MarksKept
<1> QED BY Zenon, <1>2, <1>3, <1>4, <1>5, <1>6, <1>7 DEF Background

\* All that the manager does, by itself and for its callers.
LEMMA ManagerStepSound ==
  ASSUME ManagerSound,
         \/ \E s \in Services : \/ Acquire(s) \/ ReleaseTraffic(s) \/ EnsureRunning(s)
                                 \/ StopRequest(s) \/ RuntimeFault(s)
         \/ Background \/ StopIdle \/ RefreshBegin
  PROVE  ManagerSound' /\ MarksKept
<1>1. ASSUME NEW s \in Services, Acquire(s) \/ ReleaseTraffic(s) \/ RuntimeFault(s) PROVE ManagerSound' /\ MarksKept
  <2>1. UNCHANGED <<def, svc, requirements, dependents, call, stop, tasks, deferred, reload>>
    BY Zenon, <1>1 DEF Acquire, ReleaseTraffic, RuntimeFault, holdVars
  <2> QED BY Zenon, <2>1, ManagerRests DEF MarksKept
<1>2. ASSUME NEW s \in Services, EnsureRunning(s) PROVE ManagerSound' /\ MarksKept
  BY Zenon, <1>2, CallBegins DEF EnsureRunning, holdVars, MarksKept
<1>3. ASSUME NEW s \in Services, StopRequest(s) PROVE ManagerSound' /\ MarksKept
  <2>1. MarksKept BY Zenon, <1>3 DEF StopRequest, MarksKept
  <2> QED BY Zenon, <1>3, <2>1, StopRequestSound
<1>4. ASSUME StopIdle PROVE ManagerSound' /\ MarksKept
  <2>1. MarksKept BY Zenon, <1>4 DEF StopIdle, MarksKept
  <2> QED BY Zenon, <1>4, <2>1, StopIdleSound
<1>5. ASSUME RefreshBegin PROVE ManagerSound' /\ MarksKept
  BY Zenon, <1>5, ManagerRests DEF RefreshBegin, holdVars, MarksKept
<1> QED BY Zenon, <1>1, <1>2, <1>3, <1>4, <1>5, BackgroundSound

-----------------------------------------------------------------------------
(* The steps of a request.                                                 *)

\* What is loaded are services.
LEMMA LoadedServices == ASSUME Typed PROVE Loaded \subseteq Services
BY DEF Typed, Definitions, Loaded

\* The manager moves and the request waits.
LEMMA RequestStands ==
  ASSUME ServiceInvariant, MarksKept, UNCHANGED mutVars
  PROVE  RequestSound'
<1>1. RequestTyped /\ RequestStage /\ StoreSound /\ Loaded \subseteq Services
  BY Zenon, LoadedServices DEF ServiceInvariant, RequestSound, ManagerSound
<1>2. UNCHANGED <<def, reload, saved, mut>> BY Zenon DEF MarksKept, mutVars
<1>3. RequestTyped' /\ RequestStage' BY Zenon, <1>1, <1>2 DEF RequestTyped, RequestStage
<1>4. \A s \in Loaded : (Marked(s) => Marked(s)') /\ (Unapplied(s) => Unapplied(s)')
  BY Zenon, <1>1, <1>2 DEF Marked, Unapplied, MarksKept
<1>5. AcceptedIsApplied' BY Zenon, <1>1, <1>2 DEF StoreSound, AcceptedIsApplied, MarksKept, Loaded
<1>6. StoreSound' BY Zenon, <1>1, <1>2, <1>4, <1>5 DEF StoreSound, Loaded
<1> QED BY Zenon, <1>3, <1>6 DEF RequestSound

\* A request ends.
LEMMA EndSound ==
  ASSUME Definitions(saved'), End, \A s \in DOMAIN def' : Marked(s)'
  PROVE  RequestSound'
<1>1. mut' = NoMut /\ reload' = NoReload BY Zenon DEF End
<1>2. NoMut.pc = "none" BY DEF NoMut
<1>3. RequestTyped'
  <2>1. Definitions(FirstDefs) BY Zenon, ManagerConstants
  <2>2. NoMut \in [pc : MutPcs, op : {"create", "update", "restart", "delete", "start", "stop"},
                   svc : Services \cup {NoMut.svc}, def : Definition]
    BY DEF NoMut, MutPcs, Definition
  <2>3. NoReload = [st |-> NoReload.st, defs |-> NoReload.defs] /\ NoReload.defs = FirstDefs BY DEF NoReload
  <2> HIDE DEF NoMut
  <2> QED BY Zenon, <1>1, <1>2, <2>1, <2>2, <2>3 DEF RequestTyped
<1>4. reload'.st = "open" /\ mut'.pc = "none" BY Zenon, <1>1, <1>2 DEF NoReload
<1>5. RequestStage' BY <1>4 DEF RequestStage
<1>6. AcceptedIsApplied' BY <1>4 DEF AcceptedIsApplied
<1>7. StoreSound' BY <1>4, <1>6 DEF StoreSound, Loaded
<1> QED BY Zenon, <1>3, <1>5, <1>7 DEF RequestSound

\* A request goes on.
LEMMA GotoSound ==
  ASSUME RequestSound, NEW to \in MutPcs \ {"none"}, mut.pc # "none", Goto(to)
  PROVE  /\ mut' \in [pc : MutPcs, op : {"create", "update", "restart", "delete", "start", "stop"},
                      svc : Services \cup {NoMut.svc}, def : Definition]
         /\ mut'.pc = to /\ mut'.op = mut.op /\ mut'.svc = mut.svc /\ mut'.def = mut.def
         /\ mut.svc \in Services /\ mut'.pc # "none"
<1>1. mut \in [pc : MutPcs, op : {"create", "update", "restart", "delete", "start", "stop"},
               svc : Services \cup {NoMut.svc}, def : Definition] /\ mut.svc \in Services
  BY Zenon DEF RequestSound, RequestTyped
<1> HIDE DEF NoMut
<1> QED BY <1>1 DEF Goto, MutPcs

\* What holds of every request that is not at rest.
LEMMA Requesting ==
  ASSUME ServiceInvariant, mut.pc # "none"
  PROVE  /\ Typed /\ Definitions(saved) /\ mut.svc \in Services /\ mut.def \in Definition
         /\ mut.op \in {"create", "update", "restart", "delete", "start", "stop"}
         /\ reload.st # "open" /\ reload.st # "apply"
         /\ reload = [st |-> reload.st, defs |-> reload.defs] /\ Definitions(reload.defs)
         /\ \A s \in Loaded : Marked(s) \/ Unapplied(s)
         /\ Loaded \subseteq Services
<1>1. Typed /\ Loaded \subseteq Services BY Zenon, LoadedServices DEF ServiceInvariant, ManagerSound
<1>2. RequestTyped /\ RequestStage /\ StoreSound BY Zenon DEF ServiceInvariant, RequestSound
<1>3. mut.def \in Definition /\ mut.op \in {"create", "update", "restart", "delete", "start", "stop"}
  <2> HIDE DEF NoMut
  <2> QED BY <1>2 DEF RequestTyped
<1>4. reload.st # "open" /\ reload.st # "apply" BY <1>2 DEF RequestStage
<1> QED BY Zenon, <1>1, <1>2, <1>3, <1>4 DEF RequestTyped, StoreSound

\* A step of a request that keeps definitions, marks and the store.
LEMMA StageSound ==
  ASSUME ServiceInvariant, NEW to \in MutPcs \ {"none", "apply"}, mut.pc \notin {"none", "apply"}, Goto(to),
         UNCHANGED <<def, saved>>, reload' = reload \/ reload' = [reload EXCEPT !.st = "reserved"],
         \A s \in Services : svc'[s].inval = svc[s].inval /\ svc'[s].defErr = svc[s].defErr,
         to = "check" => mut.op \in {"update", "restart"},
         to \in {"stop", "stopping"} => mut.op \in {"restart", "delete", "stop"},
         to = "save" => mut.op \in {"create", "update", "restart", "delete"},
         to \in {"reserve", "save"} /\ mut.op = "create" => mut.svc \notin DOMAIN saved,
         to \in {"reconcile", "start", "starting"} =>
           mut.pc \in {"reconcile", "start", "starting"} \/ mut.op \notin {"create", "update", "restart"}
  PROVE  RequestSound'
<1>1. /\ mut' \in [pc : MutPcs, op : {"create", "update", "restart", "delete", "start", "stop"},
                   svc : Services \cup {NoMut.svc}, def : Definition]
      /\ mut'.pc = to /\ mut'.op = mut.op /\ mut'.svc = mut.svc /\ mut'.def = mut.def
      /\ mut.svc \in Services /\ mut'.pc # "none"
  BY Zenon, GotoSound DEF ServiceInvariant
<1>2. /\ Definitions(saved) /\ reload.st # "open" /\ reload.st # "apply" /\ Loaded \subseteq Services
      /\ reload = [st |-> reload.st, defs |-> reload.defs] /\ Definitions(reload.defs)
      /\ \A s \in Loaded : Marked(s) \/ Unapplied(s)
  BY Zenon, Requesting
<1>3. /\ reload' = [st |-> reload'.st, defs |-> reload'.defs] /\ reload'.defs = reload.defs
      /\ reload'.st # "open" /\ reload'.st # "apply"
  BY <1>2
<1>4. RequestTyped' BY Zenon, <1>1, <1>2, <1>3 DEF RequestTyped
<1>5. RequestStage' BY <1>1, <1>3 DEF RequestStage
<1>6. \A s \in Loaded : Marked(s)' BY <1>2 DEF Marked, Unapplied
<1>7. AcceptedIsApplied'
  <2>1. AcceptedIsApplied BY Zenon DEF ServiceInvariant, RequestSound, StoreSound
  <2> QED BY Zenon, <1>1, <2>1 DEF AcceptedIsApplied, Loaded
<1>8. StoreSound' BY <1>1, <1>3, <1>6, <1>7 DEF StoreSound, Loaded
<1> QED BY Zenon, <1>4, <1>5, <1>8 DEF RequestSound

\* A request ends and nothing that it saved is left to apply.
LEMMA StopsHere ==
  ASSUME ServiceInvariant, mut.pc \notin {"none", "apply"}, End, UNCHANGED <<def, saved>>,
         \A s \in Services : svc'[s].inval = svc[s].inval /\ svc'[s].defErr = svc[s].defErr
  PROVE  RequestSound'
<1>1. Definitions(saved) /\ Loaded \subseteq Services /\ \A s \in Loaded : Marked(s) \/ Unapplied(s)
  BY Zenon, Requesting
<1>2. \A s \in Loaded : Marked(s)' BY <1>1 DEF Marked, Unapplied
<1> QED BY Zenon, <1>1, <1>2, EndSound DEF Loaded

\* A request takes servicesSem.
LEMMA RequestBegins ==
  ASSUME ServiceInvariant, NEW op \in Operations, NEW u \in Updates, Request(op, u.svc, u.def)
  PROVE  ServiceInvariant'
<1>1. mut.pc = "none" /\ reload.st = "open" /\ Asks(op, u.svc) BY Zenon DEF Request, Admitted
<1>2. /\ mut' = [pc |-> "reserve", op |-> op, svc |-> u.svc, def |-> u.def]
      /\ reload' = [st |-> "reserving", defs |-> FirstDefs]
      /\ UNCHANGED <<saved, def, svc, call, stop, requirements, dependents, tasks, deferred>>
  BY Zenon DEF Request
<1>3. ManagerSound' BY Zenon, <1>2, ManagerRests DEF ServiceInvariant
<1>4. RequestTyped /\ StoreSound BY Zenon DEF ServiceInvariant, RequestSound
<1>5. /\ op \in {"create", "update", "restart", "delete", "start", "stop"}
      /\ u.svc \in Services /\ u.def \in Definition /\ Definitions(FirstDefs)
  BY MutationConstants, ManagerConstants
<1>6. RequestTyped'
  <2>1. mut' \in [pc : MutPcs, op : {"create", "update", "restart", "delete", "start", "stop"},
                  svc : Services \cup {NoMut.svc}, def : Definition]
    <3> HIDE DEF NoMut
    <3> QED BY <1>2, <1>5 DEF MutPcs
  <2>2. mut'.svc \in Services BY <1>2, <1>5
  <2>3. Definitions(saved') BY Zenon, <1>2, <1>4 DEF RequestTyped
  <2>4. reload'.st = "reserving" /\ reload'.defs = FirstDefs BY <1>2
  <2> QED BY Zenon, <1>2, <1>5, <2>1, <2>2, <2>3, <2>4 DEF RequestTyped
<1>7. RequestStage' BY <1>1, <1>2 DEF RequestStage, Asks
<1>8. \A s \in Loaded : Marked(s)' BY <1>1, <1>2, <1>4 DEF StoreSound, Marked, Unapplied
<1>9. AcceptedIsApplied' BY <1>2 DEF AcceptedIsApplied
<1>10. StoreSound' BY <1>2, <1>8, <1>9 DEF StoreSound, Loaded
<1> QED BY Zenon, <1>3, <1>6, <1>7, <1>10 DEF ServiceInvariant, RequestSound

\* Invalidate marks the service if it is loaded, and takes no mark away.
LEMMA InvalidateMarks ==
  ASSUME Typed, NEW s \in Services, svc' = invalidate(s)
  PROVE  /\ svc' \in [Services -> Info] /\ (s \in Loaded => svc'[s].inval)
         /\ \A x \in Services : /\ svc'[x].state = svc[x].state /\ svc'[x].err = svc[x].err
                                /\ svc[x].inval => svc'[x].inval
                                /\ svc[x].defErr => svc'[x].defErr
<1>1. svc \in [Services -> Info] /\ svc[s] \in Info BY Zenon DEF Typed
<1>2. CASE s \in Loaded
  <2> DEFINE v == [svc[s] EXCEPT !.inval = TRUE, !.defErr = TRUE]
  <2>1. v \in Info /\ v.inval /\ v.defErr /\ v.state = svc[s].state /\ v.err = svc[s].err BY Zenon, <1>1 DEF Info
  <2>2. svc' = [svc EXCEPT ![s] = v] BY Zenon, <1>2 DEF invalidate
  <2> HIDE DEF v
  <2>3. svc' \in [Services -> Info] /\ svc'[s] = v /\ \A x \in Services \ {s} : svc'[x] = svc[x]
    BY Zenon, <1>1, <2>1, <2>2, Shown
  <2> QED BY Zenon, <2>1, <2>3
<1>3. CASE s \notin Loaded
  <2>1. svc' = svc BY Zenon, <1>3 DEF invalidate
  <2> QED BY Zenon, <1>1, <1>3, <2>1
<1> QED BY Zenon, <1>2, <1>3

\* A request is cut short: a change that is saved and not applied is marked.
LEMMA FailSound ==
  ASSUME ServiceInvariant, Fail
  PROVE  ServiceInvariant'
<1>1. /\ mut.pc # "none" /\ End
      /\ UNCHANGED <<saved, def, call, stop, requirements, dependents, tasks, deferred>>
  BY DEF Fail, managerRest
<1>2. /\ Typed /\ Definitions(saved) /\ mut.svc \in Services /\ Loaded \subseteq Services
      /\ \A s \in Loaded : Marked(s) \/ Unapplied(s)
  BY Zenon, <1>1, Requesting
<1>3. CASE mut.pc \in {"apply", "reconcile"} /\ mut.op \in {"update", "restart"}
  <2>1. svc' = invalidate(mut.svc) BY Zenon, <1>3 DEF Fail
  <2>2. PICK m \in Services : m = mut.svc BY Zenon, <1>2
  <2>3. /\ svc' \in [Services -> Info] /\ (m \in Loaded => svc'[m].inval)
        /\ \A x \in Services : /\ svc'[x].state = svc[x].state /\ svc'[x].err = svc[x].err
                               /\ svc[x].inval => svc'[x].inval
                               /\ svc[x].defErr => svc'[x].defErr
    BY Zenon, <1>2, <2>1, <2>2, InvalidateMarks
  <2>4. ManagerSound' BY Zenon, <1>1, <2>3, ManagerStands DEF ServiceInvariant
  <2>5. \A s \in Loaded : Marked(s)' BY Zenon, <1>1, <1>2, <2>2, <2>3 DEF Marked, Unapplied
  <2> QED BY Zenon, <1>1, <1>2, <2>4, <2>5, EndSound DEF ServiceInvariant, Loaded
<1>4. CASE ~(mut.pc \in {"apply", "reconcile"} /\ mut.op \in {"update", "restart"})
  <2>1. svc' = svc BY Zenon, <1>4 DEF Fail
  <2>2. ManagerSound' BY Zenon, <1>1, <2>1, ManagerRests DEF ServiceInvariant
  <2>3. \A s \in Loaded : ~Unapplied(s) BY <1>4 DEF Unapplied
  <2>4. \A s \in Loaded : Marked(s)' BY Zenon, <1>1, <1>2, <2>1, <2>3 DEF Marked
  <2> QED BY Zenon, <1>1, <1>2, <2>2, <2>4, EndSound DEF ServiceInvariant, Loaded
<1> QED BY Zenon, <1>3, <1>4

\* The request reserves the right to reload.
LEMMA ReserveSound ==
  ASSUME ServiceInvariant, Reserve
  PROVE  ServiceInvariant'
<1>1. /\ mut.pc = "reserve" /\ reload' = [reload EXCEPT !.st = "reserved"]
      /\ UNCHANGED <<saved, def, svc, call, stop, requirements, dependents, tasks, deferred>>
  BY Zenon DEF Reserve, managerRest
<1>2. ManagerSound' BY Zenon, <1>1, ManagerRests DEF ServiceInvariant
<1>3. mut.op \in {"create", "update", "restart", "delete", "start", "stop"}
  BY Zenon, <1>1, Requesting
<1>4. mut.op = "create" => mut.svc \notin DOMAIN saved
  BY <1>1 DEF ServiceInvariant, RequestSound, RequestStage
<1> DEFINE to == CASE mut.op \in {"update", "restart"} -> "check"
                   [] mut.op \in {"delete", "stop"} -> "stop"
                   [] mut.op = "create" -> "save"
                   [] mut.op = "start" -> "start"
<1>5. Goto(to) BY Zenon DEF Reserve
<1>6. /\ to \in MutPcs \ {"none", "apply"}
      /\ to = "check" => mut.op \in {"update", "restart"}
      /\ to \in {"stop", "stopping"} => mut.op \in {"restart", "delete", "stop"}
      /\ to = "save" => mut.op \in {"create", "update", "restart", "delete"}
      /\ to \in {"reconcile", "start", "starting"} => mut.op \notin {"create", "update", "restart"}
  BY <1>3 DEF MutPcs
<1> HIDE DEF to
<1>7. mut.pc \notin {"none", "apply"} BY <1>1
<1>8. RequestSound' BY Zenon, <1>1, <1>4, <1>5, <1>6, <1>7, StageSound
<1> QED BY Zenon, <1>2, <1>8 DEF ServiceInvariant

\* An update or restart is checked against the definition in use.
LEMMA CheckUpdateSound ==
  ASSUME ServiceInvariant, CheckUpdate
  PROVE  ServiceInvariant'
<1>1. /\ mut.pc = "check"
      /\ UNCHANGED <<saved, def, call, stop, requirements, dependents, tasks, deferred>>
  BY Zenon DEF CheckUpdate
<1>2. Typed /\ mut.svc \in Services BY <1>1, Requesting
<1>3. mut.op \in {"update", "restart"} BY <1>1 DEF ServiceInvariant, RequestSound, RequestStage
<1>4. PICK seen : svc' = [svc EXCEPT ![mut.svc].alive =
                            @ \/ (~(mut.def.cfg = def[mut.svc].cfg) /\ seen \in {"running", "partial"})]
  BY Zenon DEF CheckUpdate
<1>5. /\ svc' \in [Services -> Info]
      /\ \A s \in Services : /\ svc'[s].state = svc[s].state /\ svc'[s].err = svc[s].err
                             /\ svc'[s].inval = svc[s].inval /\ svc'[s].defErr = svc[s].defErr
  <2> DEFINE now == svc[mut.svc].alive \/ (~(mut.def.cfg = def[mut.svc].cfg) /\ seen \in {"running", "partial"})
  <2> DEFINE v == [svc[mut.svc] EXCEPT !.alive = now]
  <2>1. svc \in [Services -> Info] BY Zenon, <1>2 DEF Typed
  <2>2. svc' = [svc EXCEPT ![mut.svc] = v] BY Zenon, <1>4
  <2>3. now \in BOOLEAN BY <1>2, <2>1 DEF Info
  <2> HIDE DEF now
  <2>4. /\ v \in Info /\ v.state = svc[mut.svc].state /\ v.err = svc[mut.svc].err
        /\ v.inval = svc[mut.svc].inval /\ v.defErr = svc[mut.svc].defErr
    BY <1>2, <2>1, <2>3 DEF Info
  <2> HIDE DEF v
  <2>5. PICK m \in Services : m = mut.svc BY Zenon, <1>2
  <2>6. svc' \in [Services -> Info] /\ svc'[m] = v /\ \A x \in Services \ {m} : svc'[x] = svc[x]
    BY Zenon, <2>1, <2>2, <2>4, <2>5, OneEntry
  <2> QED BY Zenon, <2>4, <2>5, <2>6
<1>6. ManagerSound' BY Zenon, <1>1, <1>5, ManagerStands DEF ServiceInvariant
<1>7. mut.pc \notin {"none", "apply"} BY <1>1
<1>8. \/ End
      \/ Goto("stop") /\ mut.op = "restart" /\ UNCHANGED reload
      \/ Goto("save") /\ mut.op = "update" /\ UNCHANGED reload
  BY <1>3 DEF CheckUpdate
<1>9. CASE End BY Zenon, <1>1, <1>5, <1>6, <1>7, <1>9, StopsHere DEF ServiceInvariant
<1>10. CASE Goto("stop") /\ mut.op = "restart" /\ UNCHANGED reload
  <2>1. RequestSound' BY <1>1, <1>5, <1>7, <1>10, StageSound DEF MutPcs
  <2> QED BY Zenon, <1>6, <2>1 DEF ServiceInvariant
<1>11. CASE Goto("save") /\ mut.op = "update" /\ UNCHANGED reload
  <2>1. RequestSound' BY <1>1, <1>5, <1>7, <1>11, StageSound DEF MutPcs
  <2> QED BY Zenon, <1>6, <2>1 DEF ServiceInvariant
<1> QED BY Zenon, <1>8, <1>9, <1>10, <1>11

\* The request asks for the stop of its service.
LEMMA StopSound ==
  ASSUME ServiceInvariant, Stop
  PROVE  ServiceInvariant'
<1>1. /\ mut.pc = "stop" /\ BeginStop(mut.svc, "reserve") /\ Goto("stopping")
      /\ UNCHANGED <<saved, reload, def, svc, call, requirements, dependents, tasks, deferred>>
  BY Zenon DEF Stop, managerRest
<1>2. ManagerSound'
  <2>1. "reserve" \in Roots BY Zenon DEF Roots
  <2>2. PICK m : m = mut.svc BY Zenon
  <2>3. BeginStop(m, "reserve") BY Zenon, <1>1, <2>2
  <2> QED BY Zenon, <1>1, <2>1, <2>3, BeginStopSound DEF ServiceInvariant, ManagerSound, Typed
<1>3. mut.op \in {"restart", "delete", "stop"} BY <1>1 DEF ServiceInvariant, RequestSound, RequestStage
<1>4. RequestSound' BY <1>1, <1>3, StageSound DEF MutPcs
<1> QED BY Zenon, <1>2, <1>4 DEF ServiceInvariant

\* The stop has ended, and the request goes on or ends.
LEMMA StoppedSound ==
  ASSUME ServiceInvariant, Stopped
  PROVE  ServiceInvariant'
<1>1. /\ mut.pc = "stopping"
      /\ UNCHANGED <<saved, def, svc, call, stop, requirements, dependents, tasks, deferred>>
  BY Zenon DEF Stopped, managerRest
<1>2. ManagerSound' BY Zenon, <1>1, ManagerRests DEF ServiceInvariant
<1>3. mut.op \in {"restart", "delete", "stop"} BY <1>1 DEF ServiceInvariant, RequestSound, RequestStage
<1>4. \/ End
      \/ Goto("save") /\ mut.op # "stop" /\ UNCHANGED reload
  BY Zenon DEF Stopped
<1>5. CASE End
  <2>1. RequestSound' BY <1>1, <1>5, StopsHere
  <2> QED BY Zenon, <1>2, <2>1 DEF ServiceInvariant
<1>6. CASE Goto("save") /\ mut.op # "stop" /\ UNCHANGED reload
  <2>1. RequestSound' BY <1>1, <1>3, <1>6, StageSound DEF MutPcs
  <2> QED BY Zenon, <1>2, <2>1 DEF ServiceInvariant
<1> QED BY Zenon, <1>4, <1>5, <1>6

\* The request writes its change to the store.
LEMMA SaveSound ==
  ASSUME ServiceInvariant, Save
  PROVE  ServiceInvariant'
<1>1. /\ mut.pc = "save" /\ Goto("apply")
      /\ UNCHANGED <<reload, def, call, stop, requirements, dependents, tasks, deferred>>
  BY Zenon DEF Save, managerRest
<1>2. PICK m \in Services, d \in Definition : m = mut.svc /\ d = mut.def BY <1>1, Requesting
<1>3. /\ Typed /\ Definitions(saved) /\ Loaded \subseteq Services
      /\ reload.st # "open" /\ reload.st # "apply"
      /\ reload = [st |-> reload.st, defs |-> reload.defs] /\ Definitions(reload.defs)
      /\ \A s \in Loaded : Marked(s) \/ Unapplied(s)
  BY <1>1, Requesting
<1>4. \A s \in Loaded : Marked(s) BY <1>1, <1>3 DEF Unapplied
<1>5. /\ mut.op \in {"create", "update", "restart", "delete"}
      /\ mut.op = "create" => m \notin DOMAIN saved
  BY <1>1, <1>2 DEF ServiceInvariant, RequestSound, RequestStage
<1>6. /\ mut' \in [pc : MutPcs, op : {"create", "update", "restart", "delete", "start", "stop"},
                   svc : Services \cup {NoMut.svc}, def : Definition]
      /\ mut'.pc = "apply" /\ mut'.op = mut.op /\ mut'.svc = m /\ mut'.def = d
  <2>1. "apply" \in MutPcs \ {"none"} /\ mut.pc # "none" BY <1>1 DEF MutPcs
  <2> QED BY Zenon, <1>1, <1>2, <2>1, GotoSound DEF ServiceInvariant
<1>7. /\ svc' \in [Services -> Info] /\ (mut.op = "delete" /\ m \in Loaded => svc'[m].inval)
      /\ \A x \in Services : /\ svc'[x].state = svc[x].state /\ svc'[x].err = svc[x].err
                             /\ svc[x].inval => svc'[x].inval
                             /\ svc[x].defErr => svc'[x].defErr
  <2>1. CASE mut.op = "delete"
    <3>1. svc' = invalidate(m) BY Zenon, <1>2, <2>1 DEF Save
    <3> QED BY Zenon, <1>3, <3>1, InvalidateMarks
  <2>2. CASE mut.op # "delete"
    <3>1. svc' = svc BY Zenon, <2>2 DEF Save
    <3> QED BY Zenon, <1>3, <2>2, <3>1 DEF Typed
  <2> QED BY Zenon, <2>1, <2>2
<1>8. ManagerSound' BY Zenon, <1>1, <1>7, ManagerStands DEF ServiceInvariant
<1>9. CASE mut.op = "delete"
  <2>1. saved' = [s \in DOMAIN saved \ {m} |-> saved[s]] BY Zenon, <1>2, <1>9 DEF Save
  <2>2. Definitions(saved') BY <1>3, <2>1 DEF Definitions
  <2>3. \A s \in Loaded : Marked(s)' BY <1>1, <1>3, <1>4, <1>7, <1>9, <2>1 DEF Marked
  <2>4. AcceptedIsApplied' BY <1>6 DEF AcceptedIsApplied
  <2>5. StoreSound' BY <1>1, <1>3, <1>6, <1>9, <2>3, <2>4 DEF StoreSound, Loaded
  <2>6. RequestTyped' BY Zenon, <1>1, <1>3, <1>6, <2>2 DEF RequestTyped
  <2>7. RequestStage' BY <1>1, <1>3, <1>5, <1>6 DEF RequestStage
  <2> QED BY Zenon, <1>8, <2>5, <2>6, <2>7 DEF ServiceInvariant, RequestSound
<1>10. CASE mut.op # "delete"
  <2>1. saved' = [s \in DOMAIN saved \cup {m} |-> IF s = m THEN d ELSE saved[s]]
    BY Zenon, <1>2, <1>10 DEF Save
  <2>2. Definitions(saved') BY <1>3, <2>1 DEF Definitions
  <2>3. ASSUME NEW s \in Loaded PROVE Marked(s)' \/ Unapplied(s)'
    <3>1. CASE s # m BY <1>1, <1>3, <1>4, <1>7, <2>1, <3>1 DEF Marked
    <3>2. CASE s = m /\ mut.op = "create" BY <1>1, <1>3, <1>4, <1>5, <1>7, <3>2 DEF Marked
    <3>3. CASE s = m /\ mut.op # "create" BY <1>5, <1>6, <1>10, <3>3 DEF Unapplied
    <3> QED BY Zenon, <3>1, <3>2, <3>3
  <2>4. AcceptedIsApplied' BY <1>6 DEF AcceptedIsApplied
  <2>5. m \in DOMAIN saved' /\ saved'[m] = d BY <2>1
  <2>6. StoreSound' BY <1>1, <1>3, <1>6, <2>3, <2>4, <2>5 DEF StoreSound, Loaded
  <2>7. RequestTyped' BY Zenon, <1>1, <1>3, <1>6, <2>2 DEF RequestTyped
  <2>8. RequestStage' BY <1>1, <1>3, <1>5, <1>6 DEF RequestStage
  <2> QED BY Zenon, <1>8, <2>6, <2>7, <2>8 DEF ServiceInvariant, RequestSound
<1> QED BY Zenon, <1>9, <1>10

\* The request applies what it has saved (Reservation.Apply).
LEMMA ApplyReservedSound ==
  ASSUME ServiceInvariant, ApplyReserved
  PROVE  ServiceInvariant'
<1>1. /\ mut.pc = "apply" /\ Install(saved) /\ Goto("reconcile")
      /\ UNCHANGED <<saved, reload, stop, requirements, dependents, tasks, deferred>>
  BY Zenon DEF ApplyReserved, managerRest
<1>2. /\ Definitions(saved) /\ reload.st # "open" /\ reload.st # "apply"
      /\ reload = [st |-> reload.st, defs |-> reload.defs] /\ Definitions(reload.defs)
  BY <1>1, Requesting
<1>3. /\ ManagerSound'
      /\ DOMAIN saved \subseteq DOMAIN def'
      /\ \A s \in DOMAIN def' : (s \in DOMAIN saved /\ def'[s] = saved[s]) \/ svc'[s].defErr
  BY Zenon, <1>1, <1>2, InstallSound DEF ServiceInvariant
<1>4. /\ mut' \in [pc : MutPcs, op : {"create", "update", "restart", "delete", "start", "stop"},
                   svc : Services \cup {NoMut.svc}, def : Definition]
      /\ mut'.pc = "reconcile" /\ mut'.op = mut.op /\ mut'.svc = mut.svc /\ mut'.def = mut.def
      /\ mut.svc \in Services
  <2>1. "reconcile" \in MutPcs \ {"none"} /\ mut.pc # "none" BY <1>1 DEF MutPcs
  <2> QED BY Zenon, <1>1, <2>1, GotoSound DEF ServiceInvariant
<1>5. mut.op \in {"create", "update", "restart"} => mut.svc \in DOMAIN saved /\ saved[mut.svc] = mut.def
  BY Zenon, <1>1 DEF ServiceInvariant, RequestSound, StoreSound
<1>6. \A s \in DOMAIN def' : Marked(s)' BY Zenon, <1>1, <1>3 DEF Marked
<1>7. AcceptedIsApplied' BY Zenon, <1>3, <1>4, <1>5 DEF AcceptedIsApplied, Loaded
<1>8. StoreSound' BY <1>1, <1>2, <1>4, <1>6, <1>7 DEF StoreSound, Loaded
<1>9. RequestTyped' BY Zenon, <1>1, <1>2, <1>4 DEF RequestTyped
<1>10. RequestStage' BY <1>1, <1>2, <1>4 DEF RequestStage
<1> QED BY Zenon, <1>3, <1>8, <1>9, <1>10 DEF ServiceInvariant, RequestSound

\* The request has reconciled the service.
LEMMA ReconciledSound ==
  ASSUME ServiceInvariant, Reconciled
  PROVE  ServiceInvariant'
<1>1. /\ mut.pc = "reconcile"
      /\ UNCHANGED <<saved, def, svc, call, stop, requirements, dependents, tasks, deferred>>
  BY Zenon DEF Reconciled, managerRest
<1>2. ManagerSound' BY Zenon, <1>1, ManagerRests DEF ServiceInvariant
<1>3. CASE End
  <2>1. RequestSound' BY <1>1, <1>3, StopsHere
  <2> QED BY Zenon, <1>2, <2>1 DEF ServiceInvariant
<1>4. CASE Goto("start") /\ UNCHANGED reload
  <2>1. RequestSound' BY <1>1, <1>4, StageSound DEF MutPcs
  <2> QED BY Zenon, <1>2, <2>1 DEF ServiceInvariant
<1> QED BY Zenon, <1>3, <1>4 DEF Reconciled

\* The request asks for the start of its service.
LEMMA StartStepSound ==
  ASSUME ServiceInvariant, Start
  PROVE  ServiceInvariant'
<1>1. /\ mut.pc = "start"
      /\ UNCHANGED <<saved, def, svc, stop, requirements, dependents, tasks, deferred>>
  BY Zenon DEF Start, managerRest
<1>2. PICK m \in Services : m = mut.svc BY <1>1, Requesting
<1>3. CASE /\ m \in Loaded /\ Goto("starting") /\ UNCHANGED reload
           /\ call' = [call EXCEPT ![m] = IF InFlight(m) THEN @ ELSE NewCall(m)]
  <2>1. ManagerSound'
    <3>1. CASE InFlight(m)
      <4>1. call' = call BY <1>3, <3>1 DEF ServiceInvariant, ManagerSound, Typed
      <4> QED BY Zenon, <1>1, <4>1, ManagerRests DEF ServiceInvariant
    <3>2. CASE ~InFlight(m)
      <4>1. call' = [call EXCEPT ![m] = NewCall(m)] BY Zenon, <1>3, <3>2
      <4> QED BY Zenon, <1>1, <1>3, <4>1, CallBegins DEF ServiceInvariant
    <3> QED BY Zenon, <3>1, <3>2
  <2>2. RequestSound' BY <1>1, <1>3, StageSound DEF MutPcs
  <2> QED BY Zenon, <2>1, <2>2 DEF ServiceInvariant
<1>4. CASE End /\ UNCHANGED call
  <2>1. ManagerSound' BY Zenon, <1>1, <1>4, ManagerRests DEF ServiceInvariant
  <2>2. RequestSound' BY <1>1, <1>4, StopsHere
  <2> QED BY Zenon, <2>1, <2>2 DEF ServiceInvariant
<1> QED BY Zenon, <1>2, <1>3, <1>4 DEF Start

\* The start has ended, and so does the request.
LEMMA StartedSound ==
  ASSUME ServiceInvariant, Started
  PROVE  ServiceInvariant'
<1>1. /\ mut.pc = "starting" /\ End
      /\ UNCHANGED <<saved, def, svc, call, stop, requirements, dependents, tasks, deferred>>
  BY Zenon DEF Started, managerRest
<1>2. ManagerSound' BY Zenon, <1>1, ManagerRests DEF ServiceInvariant
<1>3. RequestSound' BY <1>1, StopsHere
<1> QED BY Zenon, <1>2, <1>3 DEF ServiceInvariant

\* A reload of the configuration begins, between requests.
LEMMA ReloadServicesSound ==
  ASSUME ServiceInvariant, ReloadServices
  PROVE  ServiceInvariant'
<1>1. /\ mut.pc = "none" /\ mut' = mut /\ saved' = reload'.defs
      /\ UNCHANGED <<def, svc, call, stop, requirements, dependents, tasks, deferred>>
  BY Zenon DEF ReloadServices, ApplyBegin, holdVars
<1>2. PICK d \in Reloads : reload' = [st |-> "apply", defs |-> d] BY Zenon DEF ReloadServices, ApplyBegin
<1>3. reload'.st = "apply" /\ reload'.defs = d /\ Definitions(d) BY <1>2, ManagerConstants
<1>4. ManagerSound' BY Zenon, <1>1, ManagerRests DEF ServiceInvariant
<1>5. RequestTyped BY Zenon DEF ServiceInvariant, RequestSound
<1>6. RequestTyped' BY Zenon, <1>1, <1>2, <1>3, <1>5 DEF RequestTyped
<1>7. RequestStage' BY <1>1, <1>3 DEF RequestStage
<1>8. AcceptedIsApplied' BY <1>1 DEF AcceptedIsApplied
<1>9. StoreSound' BY <1>1, <1>3, <1>8 DEF StoreSound
<1> QED BY Zenon, <1>4, <1>6, <1>7, <1>9 DEF ServiceInvariant, RequestSound

\* It applies the definitions it has read.
LEMMA ApplySound ==
  ASSUME ServiceInvariant, Apply, UNCHANGED mutVars
  PROVE  ServiceInvariant'
<1>1. /\ reload.st = "apply" /\ Install(reload.defs) /\ reload' = NoReload /\ UNCHANGED <<saved, mut>>
      /\ UNCHANGED <<stop, requirements, dependents, tasks, deferred>>
  BY Zenon DEF Apply, holdVars, mutVars
<1>2. RequestTyped /\ RequestStage /\ StoreSound BY Zenon DEF ServiceInvariant, RequestSound
<1>3. reload.defs = saved /\ Definitions(saved) /\ mut.pc = "none"
  BY <1>1, <1>2 DEF StoreSound, RequestTyped, RequestStage
<1>4. /\ ManagerSound'
      /\ \A s \in DOMAIN def' : (s \in DOMAIN saved /\ def'[s] = saved[s]) \/ svc'[s].defErr
  BY Zenon, <1>1, <1>3, InstallSound DEF ServiceInvariant
<1>5. reload'.st = "open" /\ reload' = [st |-> reload'.st, defs |-> reload'.defs] /\ Definitions(reload'.defs)
  BY <1>1, ManagerConstants DEF NoReload
<1>6. \A s \in DOMAIN def' : Marked(s)' BY Zenon, <1>1, <1>4 DEF Marked
<1>7. RequestTyped' BY Zenon, <1>1, <1>2, <1>5 DEF RequestTyped
<1>8. RequestStage' BY <1>1, <1>3, <1>5 DEF RequestStage
<1>9. AcceptedIsApplied' BY <1>1, <1>3 DEF AcceptedIsApplied
<1>10. StoreSound' BY <1>1, <1>3, <1>5, <1>6, <1>9 DEF StoreSound, Loaded
<1> QED BY Zenon, <1>4, <1>7, <1>8, <1>10 DEF ServiceInvariant, RequestSound

-----------------------------------------------------------------------------
(* The invariant, and what follows from it.                                *)

\* The invariant holds at first.
LEMMA InitSound == ASSUME MutInit PROVE ServiceInvariant
<1>1. /\ def = FirstDefs /\ svc = [s \in Services |-> NewService] /\ requirements = {} /\ dependents = {}
      /\ call = [s \in Services |-> NoCall] /\ stop = [s \in Services |-> NoStop]
      /\ tasks = {} /\ deferred = {} /\ reload = NoReload /\ saved = FirstDefs /\ mut = NoMut
  BY Zenon DEF MutInit, Init
<1>2. Definitions(FirstDefs) BY Zenon, ManagerConstants
<1>3. Typed
  <2>1. NewService \in Info BY DEF NewService, Info, States
  <2>2. NoCall \in Call BY DEF NoCall, Call, CallPcs, Definition
  <2>3. NoStop \in [on : BOOLEAN, root : Roots] BY DEF NoStop, Roots
  <2> QED BY <1>1, <1>2, <2>1, <2>2, <2>3 DEF Typed
<1>4. ASSUME NEW o \in Services, NEW r \in Services PROVE HoldSound(o, r)
  BY <1>1 DEF HoldSound
<1>5. ASSUME NEW s \in Services PROVE StartSound(s)
  <2>1. call[s] = NoCall /\ svc[s] = NewService BY <1>1
  <2> QED BY <2>1 DEF StartSound, Settled, InFlight, NoCall, NewService
<1>6. ManagerSound BY Zenon, <1>3, <1>4, <1>5 DEF ManagerSound
<1>7. NoMut.pc = "none" BY DEF NoMut
<1>8. RequestTyped
  <2>1. NoMut \in [pc : MutPcs, op : {"create", "update", "restart", "delete", "start", "stop"},
                   svc : Services \cup {NoMut.svc}, def : Definition]
    BY DEF NoMut, MutPcs, Definition
  <2>2. NoReload = [st |-> NoReload.st, defs |-> NoReload.defs] /\ NoReload.defs = FirstDefs BY DEF NoReload
  <2> HIDE DEF NoMut
  <2> QED BY Zenon, <1>1, <1>2, <1>7, <2>1, <2>2 DEF RequestTyped
<1>9. reload.st = "open" /\ mut.pc = "none" BY Zenon, <1>1, <1>7 DEF NoReload
<1>10. RequestStage BY <1>9 DEF RequestStage
<1>11. AcceptedIsApplied BY <1>9 DEF AcceptedIsApplied
<1>12. StoreSound BY <1>1, <1>9, <1>11 DEF StoreSound, Marked, Loaded
<1> QED BY Zenon, <1>6, <1>8, <1>10, <1>12 DEF ServiceInvariant, RequestSound

\* Every step keeps the invariant.
LEMMA NextSound ==
  ASSUME ServiceInvariant, [MutNext]_allVars
  PROVE  ServiceInvariant'
<1>1. ASSUME UNCHANGED allVars PROVE ServiceInvariant'
  <2>1. UNCHANGED <<def, svc, requirements, dependents, call, stop, tasks, deferred, reload, saved, mut>>
    BY Zenon, <1>1 DEF allVars, vars, mutVars
  <2>2. ManagerSound' BY Zenon, <2>1, ManagerRests DEF ServiceInvariant
  <2>3. RequestSound' BY Zenon, <2>1, RequestStands DEF MarksKept, mutVars
  <2> QED BY Zenon, <2>2, <2>3 DEF ServiceInvariant
<1>2. ASSUME \/ \E s \in Services : \/ Acquire(s) \/ ReleaseTraffic(s) \/ EnsureRunning(s)
                                    \/ StopRequest(s) \/ RuntimeFault(s)
             \/ Background \/ StopIdle \/ RefreshBegin,
             UNCHANGED mutVars
      PROVE  ServiceInvariant'
  <2>1. ManagerSound' /\ MarksKept BY Zenon, <1>2, ManagerStepSound DEF ServiceInvariant
  <2> QED BY Zenon, <1>2, <2>1, RequestStands DEF ServiceInvariant
<1> QED BY Zenon, <1>1, <1>2, RequestBegins, FailSound, ReserveSound, CheckUpdateSound, StopSound,
           StoppedSound, SaveSound, ApplyReservedSound, ReconciledSound, StartStepSound, StartedSound,
           ReloadServicesSound, ApplySound DEF MutNext

\* The invariant above holds whatever starts, stops, releases, refreshes,
\* reloads and requests do in between each other.
THEOREM ServicesSound == MutSpec => []ServiceInvariant
<1>1. MutInit => ServiceInvariant BY InitSound
<1>2. ServiceInvariant /\ [MutNext]_allVars => ServiceInvariant' BY NextSound
<1> QED BY <1>1, <1>2, PTL DEF MutSpec

\* What the invariant says of pairs is HoldsMatch.
LEMMA HoldsMatchFollows == ASSUME ServiceInvariant PROVE HoldsMatch
<1>1. Typed /\ \A o, r \in Services : HoldSound(o, r) BY Zenon DEF ServiceInvariant, ManagerSound
<1>2. ASSUME NEW h \in dependents
      PROVE  /\ h \notin requirements => \E t \in tasks : t.kind = "release" /\ t.live /\ <<t.owner, t.req>> = h
             /\ ~stop[h[2]].on
  <2>1. PICK o \in Services, r \in Services : h = <<o, r>> BY <1>1 DEF Typed
  <2>2. HoldSound(o, r) /\ h[2] = r BY <1>1, <2>1
  <2> QED BY <2>1, <2>2 DEF HoldSound, Releasing, GivesBack
<1>3. ASSUME NEW h \in requirements PROVE h \in dependents
  <2>1. PICK o \in Services, r \in Services : h = <<o, r>> BY <1>1 DEF Typed
  <2> QED BY Zenon, <1>1, <2>1 DEF HoldSound
<1> QED BY Zenon, <1>2, <1>3 DEF HoldsMatch

\* A hold is known to the owner and to what it requires, or a release function
\* that has still to run gives it back; a requirement that is held is not being
\* stopped (holdRequirementLocked, releaseRequirements, stopServiceIfEligible).
THEOREM HoldsAlwaysMatch == MutSpec => []HoldsMatch
<1>1. ServiceInvariant => HoldsMatch BY HoldsMatchFollows
<1> QED BY <1>1, ServicesSound, PTL

\* A service that is shown as running without an error holds all that its
\* definition requires, whoever started it (runEnsure, Refresh, applyReserved).
THEOREM RunningHoldsAll == MutSpec => []RunningHoldsRequirements
<1>1. ServiceInvariant => RunningHoldsRequirements
  BY Zenon, LoadedServices
     DEF ServiceInvariant, ManagerSound, StartSound, Settled, HoldsAll, RunningHoldsRequirements
<1> QED BY <1>1, ServicesSound, PTL

\* Between requests every service runs by its stored definition or is marked,
\* also when a request was cut short after it had saved (Invalidate, Apply).
THEOREM ChangesMarked == MutSpec => []SavedOrMarked
<1>1. ServiceInvariant => SavedOrMarked
  BY DEF ServiceInvariant, RequestSound, RequestStage, StoreSound, Marked, Unapplied, SavedOrMarked
<1> QED BY <1>1, ServicesSound, PTL

\* Once a request that creates or changes a service has been applied, the manager
\* has its definition or shows that it could not take it over (Reservation.Apply).
THEOREM ChangesApplied == MutSpec => []AcceptedIsApplied
<1>1. ServiceInvariant => AcceptedIsApplied BY Zenon DEF ServiceInvariant, RequestSound, StoreSound
<1> QED BY <1>1, ServicesSound, PTL
=============================================================================
