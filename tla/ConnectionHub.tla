----------------------------- MODULE ConnectionHub -----------------------------
(***************************************************************************)
(* The hub that runs the provider of a network connection (a tunnel, a     *)
(* tailnet, ...), the handlers of the control plane that save, delete and  *)
(* sync the connection, and the rows of the store they share.  One         *)
(* connection is modelled: connections share nothing but the admission     *)
(* token.                                                                  *)
(*                                                                         *)
(* A version of the row stands for all that SameConnectionInput compares;  *)
(* every save makes a new one (UpdatedAt).  A run is one generation of the *)
(* provider's instance.  A call is cancelled, or its time is up, at any    *)
(* point where the code looks at its context.                              *)
(***************************************************************************)
EXTENDS Naturals, FiniteSets

CONSTANTS
  Handlers,     \* requests to the control plane
  Starter,      \* the call of Hub.Start
  MaxVersion,   \* bound: versions the row may get
  Budgets       \* bound: how many faults (cancellations, store errors, providers
                \* that fail to open), triggers and closes a behaviour has

Callers == Handlers \cup {Starter}
Versions == 1..MaxVersion
None == 0
RunIds == {1, 2}
NoCaller == "none"

VARIABLES
  row,        \* the version in the store, None when there is no row
  last,       \* the newest version there ever was
  config,     \* the configuration of each version: a save may keep it
  aliases,    \* the configuration whose hostnames are published, or None
  closed,     \* h.closed
  started,    \* h.started
  admission,  \* who holds the token of h.admission
  installed,  \* h.runs of the connection
  runs,       \* the generations, with their goroutines
  status,     \* h.statuses: what the cached status says
  statusRec,  \* h.statusRecords
  failure,    \* h.reloadFailures
  call,       \* the calls under way
  told,       \* versions whose caller was told that they are not loaded
  budget

storeVars == <<row, last, config, aliases>>
hubVars == <<closed, started, installed, runs, status, statusRec, failure>>
vars == <<storeVars, hubVars, admission, call, told, budget>>

\* What a call remembers: expected is the version it was made for (None: any),
\* fresh that the epoch it read is still the epoch of the hub, pending that it
\* saw a generation still draining, old the run it replaced, record the version
\* it goes on with and again that it has reloaded once.
Idle == [op |-> "none", pc |-> "idle", expected |-> None, fresh |-> FALSE,
         pending |-> FALSE, old |-> None, record |-> None, again |-> FALSE]

Free == [version |-> None, st |-> "free", running |-> FALSE, sync |-> "off",
         req |-> NoCaller, trigger |-> FALSE]

\* The calls that hold the admission token.
Admitted == {"stopped", "get", "drain", "bind", "wait", "reread", "open", "install"}

TypeOK ==
  /\ row \in {None} \cup Versions /\ last \in {None} \cup Versions
  /\ config \in [Versions -> Versions] /\ aliases \in {None} \cup Versions
  /\ closed \in BOOLEAN /\ started \in BOOLEAN
  /\ admission \in Callers \cup {NoCaller}
  /\ installed \in {None} \cup RunIds
  /\ runs \in [RunIds -> [version : {None} \cup Versions,
                          st : {"free", "opened", "live", "retired", "closed"},
                          running : BOOLEAN, trigger : BOOLEAN,
                          sync : {"off", "wait", "check", "sync"},
                          req : Callers \cup {NoCaller}]]
  /\ status \in {"none", "unknown", "down", "initial", "synced"}
  /\ statusRec \in {None} \cup Versions
  /\ failure \in {None} \cup Versions
  /\ told \subseteq ({None} \cup Versions)
  /\ \A c \in Callers : admission = c <=> call[c].pc \in Admitted

Init ==
  /\ row \in {None, 1} /\ last = row /\ aliases = None
  /\ config = [v \in Versions |-> v]
  /\ closed = FALSE /\ started = FALSE /\ admission = NoCaller
  /\ installed = None /\ runs = [r \in RunIds |-> Free]
  /\ status = "none" /\ statusRec = None /\ failure = None
  /\ call = [c \in Callers |-> Idle]
  /\ told = {} /\ budget \in Budgets

At(c, pc) == call[c].pc = pc
Goto(c, pc) == call' = [call EXCEPT ![c].pc = pc]
Spend(what) == budget[what] > 0 /\ budget' = [budget EXCEPT ![what] = @ - 1]
Fault == Spend("faults")

Done(c) == [call EXCEPT ![c] = [Idle EXCEPT !.pc = "done"]]
End(c) == call' = Done(c) /\ UNCHANGED told

\* A handler answers, or Start logs, that the version it is about is not loaded.
About(c) == IF c = Starter THEN row ELSE call[c].expected
Announce(c) == told' = told \cup {About(c)}

\* A mutant: a reload that fails keeps the token.
BugFail(c) == call' = Done(c) /\ Announce(c) /\ UNCHANGED admission

\* A reload that fails gives the token back.
Fail(c) == admission' = NoCaller /\ call' = Done(c) /\ Announce(c)

-----------------------------------------------------------------------------
(* The handlers and the store.                                             *)

\* A handler reads the row it is about; without one it answers 404.  A create
\* makes a new id, so a deleted connection does not come back.
Begin(c, op) ==
  /\ At(c, "idle") /\ c # Starter
  /\ IF op = "create" THEN last = None ELSE row # None
  /\ call' = [call EXCEPT ![c].op = op, ![c].expected = row,
                          ![c].pc = IF op = "sync" THEN "sync" ELSE "commit"]
  /\ UNCHANGED <<storeVars, hubVars, admission, told, budget>>

\* A new configuration drops the hostnames that the old one published.
WriteRow(keep) ==
  /\ last < MaxVersion
  /\ last' = last + 1 /\ row' = last + 1
  /\ keep => row # None
  /\ config' = [config EXCEPT ![last + 1] = IF keep THEN config[row] ELSE @]
  /\ aliases' = IF keep THEN aliases ELSE None

\* The save is refused when the row is no longer the one that was read.
SaveConnection(c, keep) ==
  /\ At(c, "commit") /\ call[c].op \in {"create", "update"}
  /\ IF row = call[c].expected
     THEN /\ WriteRow(keep)
          /\ call' = [call EXCEPT ![c].expected = last + 1, ![c].pc = "reload"]
          /\ UNCHANGED told
     ELSE End(c) /\ ~keep /\ UNCHANGED storeVars
  /\ UNCHANGED <<hubVars, admission, budget>>

\* A connection whose hostnames are published is in use and stays.
InUse == aliases # None

DeleteConnection(c) ==
  /\ At(c, "commit") /\ call[c].op = "delete"
  /\ IF row = call[c].expected /\ ~InUse
     THEN /\ row' = None
          /\ call' = [call EXCEPT ![c].expected = None, ![c].pc = "reload"]
          /\ UNCHANGED told
     ELSE End(c) /\ UNCHANGED row
  /\ UNCHANGED <<last, config, aliases, hubVars, admission, budget>>

-----------------------------------------------------------------------------
(* Generations.                                                            *)

\* Replace the installed run by none: the epoch moves on for every call that
\* read it, and the old generation is cancelled and drained.
Replace(newStatus) ==
  /\ installed' = None
  /\ failure' = None
  /\ status' = IF closed THEN status ELSE newStatus
  /\ runs' = IF installed = None THEN runs
             ELSE [runs EXCEPT ![installed].st = "retired"]

Stale(calls) == [c \in Callers |-> [calls[c] EXCEPT !.fresh = FALSE]]

Bind(v) == statusRec' = IF closed THEN statusRec ELSE v

\* The retire goroutine closes the instance once its goroutines are done or the
\* drain timeout is up.
CloseInstance(r) ==
  /\ runs[r].st = "retired"
  /\ runs' = [runs EXCEPT ![r].st = "closed"]
  /\ UNCHANGED <<storeVars, closed, started, installed, status, statusRec, failure,
                 admission, call, told, budget>>

\* A cancelled instance's Run returns.
RunReturns(r) ==
  /\ runs[r].running /\ runs[r].st \in {"retired", "closed"}
  /\ runs' = [runs EXCEPT ![r].running = FALSE]
  /\ UNCHANGED <<storeVars, closed, started, installed, status, statusRec, failure,
                 admission, call, told, budget>>

\* The generation is forgotten when both goroutines have ended.
Drained(r) ==
  /\ runs[r].st = "closed" /\ ~runs[r].running /\ runs[r].sync = "off"
  /\ runs' = [runs EXCEPT ![r] = Free]
  /\ UNCHANGED <<storeVars, closed, started, installed, status, statusRec, failure,
                 admission, call, told, budget>>

-----------------------------------------------------------------------------
(* Reload.                                                                 *)

\* The epoch is read before the token is asked for.
ReadEpoch(c) ==
  /\ At(c, "reload")
  /\ call' = [call EXCEPT ![c].fresh = TRUE, ![c].pc = "enter"]
  /\ UNCHANGED <<storeVars, hubVars, admission, told, budget>>

Enter(c) ==
  /\ At(c, "enter") /\ admission = NoCaller
  /\ admission' = c
  /\ Goto(c, "stopped")
  /\ UNCHANGED <<storeVars, hubVars, told, budget>>

\* The hub has stopped, or the caller's time is up while it waits.
EnterFails(c) ==
  /\ At(c, "enter")
  /\ Fault \/ (closed /\ UNCHANGED budget)
  /\ IF call[c].expected # None THEN Goto(c, "refused") /\ UNCHANGED told
                                ELSE call' = Done(c) /\ Announce(c)
  /\ UNCHANGED <<storeVars, hubVars, admission>>

\* recordAdmissionFailure: nothing is recorded for a version that is no longer
\* the row's.
CheckRefused(c) ==
  /\ At(c, "refused")
  /\ IF row = call[c].expected THEN Goto(c, "record") /\ UNCHANGED told
                               ELSE call' = Done(c) /\ Announce(c)
  /\ UNCHANGED <<storeVars, hubVars, admission, budget>>

\* Nor when a reload has begun since, or the version has been loaded.
RecordFailure(c) ==
  /\ At(c, "record")
  /\ failure' = IF closed \/ ~call[c].fresh
                   \/ (installed # None /\ runs[installed].version = call[c].expected)
                THEN failure ELSE call[c].expected
  /\ call' = Done(c) /\ Announce(c)
  /\ UNCHANGED <<storeVars, closed, started, installed, runs, status, statusRec, admission,
                 budget>>

CheckStopped(c) ==
  /\ At(c, "stopped")
  /\ IF closed \/ ~started THEN Fail(c)
     ELSE /\ call' = [call EXCEPT ![c].pc = "get",
                        ![c].pending = \E r \in RunIds : runs[r].st \in {"retired", "closed"}]
          /\ UNCHANGED <<admission, told>>
  /\ UNCHANGED <<storeVars, hubVars, budget>>

\* The row is gone: so is the run.
GetGone(c) ==
  /\ At(c, "get") /\ row = None
  /\ Replace("down")
  /\ statusRec' = None
  /\ admission' = NoCaller
  /\ call' = Stale(Done(c))
  /\ UNCHANGED <<storeVars, closed, started, told, budget>>

GetError(c) ==
  /\ At(c, "get") /\ Fault
  /\ Replace("down")
  /\ admission' = NoCaller
  /\ call' = Stale(Done(c))
  /\ Announce(c)
  /\ UNCHANGED <<storeVars, closed, started, statusRec>>

Expected(c, v) == call[c].expected \in {None, v}

GetConflict(c) ==
  /\ At(c, "get") /\ row # None /\ ~Expected(c, row)
  /\ Fail(c)
  /\ UNCHANGED <<storeVars, hubVars, budget>>

\* A generation that is still draining is not overtaken.
GetPending(c) ==
  /\ At(c, "get") /\ row # None /\ Expected(c, row) /\ call[c].pending
  /\ Bind(row)
  /\ Goto(c, "drain")
  /\ UNCHANGED <<storeVars, closed, started, installed, runs, status, failure, admission,
                 told, budget>>

DrainPending(c) ==
  /\ At(c, "drain")
  /\ status' = "down"
  /\ Fail(c)
  /\ UNCHANGED <<storeVars, closed, started, installed, runs, statusRec, failure, budget>>

GetRecord(c) ==
  /\ At(c, "get") /\ row # None /\ Expected(c, row) /\ ~call[c].pending
  /\ Replace("unknown")
  /\ call' = Stale([call EXCEPT ![c].pc = "bind", ![c].old = installed, ![c].record = row])
  /\ UNCHANGED <<storeVars, closed, started, statusRec, admission, told, budget>>

BindRecord(c) ==
  /\ At(c, "bind")
  /\ Bind(call[c].record)
  /\ Goto(c, "wait")
  /\ UNCHANGED <<storeVars, closed, started, installed, runs, status, failure, admission,
                 told, budget>>

\* A mutant: the old generation is not waited for.
BugWaitRetired(c) ==
  /\ At(c, "wait") /\ Goto(c, "open")
  /\ UNCHANGED <<storeVars, hubVars, admission, told, budget>>

\* waitRetired: the old run is done, and with it the whole generation.
WaitRetired(c) ==
  /\ At(c, "wait")
  /\ call[c].old # None => runs[call[c].old].st = "free"
  /\ Goto(c, IF call[c].old = None THEN "open" ELSE "reread")
  /\ UNCHANGED <<storeVars, hubVars, admission, told, budget>>

\* Or the wait is over before it is.
WaitEnds(c) ==
  /\ At(c, "wait")
  /\ Fault \/ (closed /\ UNCHANGED budget)
  /\ status' = "down"
  /\ Fail(c)
  /\ UNCHANGED <<storeVars, closed, started, installed, runs, statusRec, failure>>

\* failLoad: nothing is installed.
FailLoad(c) ==
  /\ Replace("down")
  /\ admission' = NoCaller
  /\ call' = Stale(Done(c))
  /\ Announce(c)

\* While the old run drained the row may have changed again.
Reread(c) ==
  /\ At(c, "reread") /\ row # None
  /\ IF Expected(c, row)
     THEN /\ call' = [call EXCEPT ![c].record = row, ![c].pc = "open"]
          /\ Bind(row)
          /\ UNCHANGED <<admission, told>>
     ELSE Fail(c) /\ UNCHANGED statusRec
  /\ UNCHANGED <<storeVars, closed, started, installed, runs, status, failure, budget>>

RereadFails(c) ==
  /\ At(c, "reread")
  /\ Fault \/ (row = None /\ UNCHANGED budget)
  /\ FailLoad(c)
  /\ UNCHANGED <<storeVars, closed, started, statusRec>>

Unused == CHOOSE r \in RunIds : runs[r].st = "free"

\* The provider opens an instance for the record.
Open(c) ==
  /\ At(c, "open")
  /\ runs' = [runs EXCEPT ![Unused] = [Free EXCEPT !.version = call[c].record, !.st = "opened"]]
  /\ Goto(c, "install")
  /\ UNCHANGED <<storeVars, closed, started, installed, status, statusRec, failure, admission,
                 told, budget>>

\* The configuration does not validate, or the instance does not open: what was
\* opened of it is retired without ever having run.
OpenFails(c, partly) ==
  /\ At(c, "open") /\ Fault
  /\ status' = IF closed THEN status ELSE "down"
  /\ failure' = None
  /\ runs' = IF partly THEN [runs EXCEPT ![Unused].st = "retired"] ELSE runs
  /\ admission' = NoCaller
  /\ call' = Stale(Done(c))
  /\ Announce(c)
  /\ UNCHANGED <<storeVars, closed, started, installed, statusRec>>

Opened == CHOOSE r \in RunIds : runs[r].st = "opened"

Install(c) ==
  /\ At(c, "install") /\ ~closed
  /\ failure' = IF failure = call[c].record THEN None ELSE failure
  /\ installed' = Opened
  /\ runs' = [runs EXCEPT ![Opened] = [@ EXCEPT !.st = "live", !.running = TRUE,
                                                !.sync = "wait"]]
  /\ status' = "initial"
  /\ admission' = NoCaller
  /\ IF call[c].op \in {"create", "update", "sync"}
     THEN call' = [call EXCEPT ![c].pc = "sync", ![c].again = TRUE]
     ELSE call' = Done(c)
  /\ UNCHANGED <<storeVars, closed, started, statusRec, told, budget>>

\* The hub was closed meanwhile, or the caller gave up: the instance is retired
\* without ever having run.
InstallRefused(c) ==
  /\ At(c, "install")
  /\ Fault \/ (closed /\ UNCHANGED budget)
  /\ runs' = [runs EXCEPT ![Opened].st = "retired"]
  /\ admission' = NoCaller
  /\ call' = Done(c)
  /\ Announce(c)
  /\ UNCHANGED <<storeVars, closed, started, installed, status, statusRec, failure>>

-----------------------------------------------------------------------------
(* Sync.                                                                   *)

\* The call looks up the run and hands its request over when the sync loop is
\* there to take it.
RequestSync(c) ==
  /\ At(c, "sync") /\ installed # None /\ runs[installed].sync = "wait"
  /\ runs' = [runs EXCEPT ![installed].sync = "check", ![installed].req = c]
  /\ Goto(c, "syncing")
  /\ UNCHANGED <<storeVars, closed, started, installed, status, statusRec, failure,
                 admission, told, budget>>

\* There is no run: the handler of a sync reloads once.
NotConnected(c) ==
  /\ \/ At(c, "sync") /\ installed = None
     \/ At(c, "syncing") /\ \E r \in RunIds : runs[r].req = c /\ runs[r].st # "live"
  /\ IF call[c].op = "sync" /\ ~call[c].again
     THEN Goto(c, "reload") /\ UNCHANGED told
     ELSE call' = Done(c) /\ Announce(c)
  /\ runs' = [r \in RunIds |-> IF runs[r].req = c THEN [runs[r] EXCEPT !.req = NoCaller]
                                                  ELSE runs[r]]
  /\ UNCHANGED <<storeVars, closed, started, installed, status, statusRec, failure,
                 admission, budget>>

SyncCancelled(c) ==
  /\ call[c].pc \in {"sync", "syncing"} /\ Fault
  /\ End(c)
  /\ runs' = [r \in RunIds |-> IF runs[r].req = c THEN [runs[r] EXCEPT !.req = NoCaller]
                                                  ELSE runs[r]]
  /\ UNCHANGED <<storeVars, closed, started, installed, status, statusRec, failure, admission>>

\* A change of an endpoint wakes the loop without a request.
Trigger ==
  /\ installed # None /\ Spend("triggers")
  /\ runs' = [runs EXCEPT ![installed].trigger = TRUE]
  /\ UNCHANGED <<storeVars, closed, started, installed, status, statusRec, failure,
                 admission, call, told>>

Triggered(r) ==
  /\ runs[r].st = "live" /\ runs[r].sync = "wait" /\ runs[r].trigger
  /\ runs' = [runs EXCEPT ![r].sync = "sync", ![r].trigger = FALSE]
  /\ UNCHANGED <<storeVars, closed, started, installed, status, statusRec, failure,
                 admission, call, told, budget>>

\* A request is refused when the row or the run is not the version it expects.
CheckRequest(r) ==
  LET c == runs[r].req IN
  /\ runs[r].sync = "check"
  /\ IF c # NoCaller /\ (row # call[c].expected \/ runs[r].version # call[c].expected)
     THEN /\ runs' = [runs EXCEPT ![r].sync = "wait", ![r].req = NoCaller]
          /\ End(c)
     ELSE /\ runs' = [runs EXCEPT ![r].sync = "sync"]
          /\ UNCHANGED <<call, told>>
  /\ UNCHANGED <<storeVars, closed, started, installed, status, statusRec, failure,
                 admission, budget>>

\* The provider publishes its hostnames if the row is still the run's.
PublishAliases(r) ==
  /\ runs[r].sync = "sync" /\ row = runs[r].version
  /\ aliases' = config[row]
  /\ UNCHANGED <<row, last, config, hubVars, admission, call, told, budget>>

\* The status is kept if the run is still the installed one; ok says whether the
\* provider succeeded.
SyncDone(r, ok) ==
  LET c == runs[r].req
      current == installed = r /\ ~closed IN
  /\ runs[r].sync = "sync"
  /\ status' = IF current THEN IF ok THEN "synced" ELSE "down" ELSE status
  /\ runs' = [runs EXCEPT ![r].sync = "wait", ![r].req = NoCaller]
  /\ IF c = NoCaller THEN UNCHANGED <<call, told>>
     ELSE call' = Done(c) /\ IF current THEN UNCHANGED told ELSE Announce(c)
  /\ UNCHANGED <<storeVars, closed, started, installed, statusRec, failure, admission, budget>>

\* The loop of a cancelled run ends when it is next idle.
SyncLoopEnds(r) ==
  /\ runs[r].st \in {"retired", "closed"} /\ runs[r].sync = "wait"
  /\ runs' = [runs EXCEPT ![r].sync = "off"]
  /\ UNCHANGED <<storeVars, closed, started, installed, status, statusRec, failure,
                 admission, call, told, budget>>

-----------------------------------------------------------------------------
(* Start and Close.                                                        *)

\* Start lists the rows under the token and then reloads each.
Start ==
  /\ At(Starter, "idle") /\ admission = NoCaller
  /\ ~started /\ ~closed
  /\ started' = TRUE
  /\ call' = [call EXCEPT ![Starter] =
       [Idle EXCEPT !.op = "start", !.pc = IF row = None THEN "done" ELSE "reload"]]
  /\ UNCHANGED <<storeVars, closed, installed, runs, status, statusRec, failure, admission,
                 told, budget>>

\* Close does not wait for the token: every generation is cancelled at once.
Close ==
  /\ ~closed /\ Spend("closes")
  /\ closed' = TRUE
  /\ installed' = None /\ status' = "none" /\ statusRec' = None /\ failure' = None
  /\ runs' = [r \in RunIds |-> IF runs[r].st = "live" THEN [runs[r] EXCEPT !.st = "retired"]
                                                      ELSE runs[r]]
  /\ UNCHANGED <<storeVars, started, admission, call, told>>

-----------------------------------------------------------------------------
Reload(c) ==
  \/ ReadEpoch(c) \/ Enter(c) \/ EnterFails(c) \/ CheckRefused(c) \/ RecordFailure(c)
  \/ CheckStopped(c) \/ GetGone(c) \/ GetError(c) \/ GetConflict(c) \/ GetPending(c)
  \/ DrainPending(c) \/ GetRecord(c) \/ BindRecord(c) \/ WaitRetired(c) \/ WaitEnds(c)
  \/ Reread(c) \/ RereadFails(c) \/ Open(c) \/ (\E partly \in BOOLEAN : OpenFails(c, partly))
  \/ Install(c) \/ InstallRefused(c)

Next ==
  \/ \E c \in Callers :
       \/ \E op \in {"create", "update", "delete", "sync"} : Begin(c, op)
       \/ \E keep \in BOOLEAN : SaveConnection(c, keep)
       \/ DeleteConnection(c)
       \/ Reload(c)
       \/ RequestSync(c) \/ NotConnected(c) \/ SyncCancelled(c)
  \/ \E r \in RunIds :
       \/ CloseInstance(r) \/ RunReturns(r) \/ Drained(r)
       \/ Triggered(r) \/ CheckRequest(r) \/ PublishAliases(r) \/ SyncLoopEnds(r)
       \/ \E ok \in BOOLEAN : SyncDone(r, ok)
  \/ Trigger \/ Start \/ Close

Spec == Init /\ [][Next]_vars
-----------------------------------------------------------------------------
\* At most one generation of a connection is served at a time: a reload waits
\* for the one before it, and does not overtake one that drains (pending and
\* waitRetired in reload).
OneGenerationServed ==
  Cardinality({r \in RunIds : runs[r].running \/ runs[r].sync # "off"}) <= 1

\* What the list of connections shows in place of a version's own status
\* (StatusIfCurrent).
Shown(v) == failure = v \/ (statusRec = v /\ status = "down")

\* While no call is under way and the hub is up, the connection that is stored
\* is the one that runs, or its status shows that it is not, or whoever asked
\* for it was told so: also when saves, deletions and syncs overlap and each is
\* refused or cancelled somewhere (expected and the second GetConnection in
\* reload).
ServedOrAnnounced ==
  started /\ ~closed /\ (\A c \in Callers : call[c].pc \in {"idle", "done"}) =>
    \/ row \in told \/ Shown(row)
    \/ IF row = None THEN installed = None
                     ELSE installed # None /\ runs[installed].version = row

\* Published hostnames are those of the stored configuration: a run that was
\* replaced cannot publish its own (ReplaceConnectionAliasesIfCurrent).
AliasesCurrent ==
  aliases # None => row # None /\ aliases = config[row]
=============================================================================
