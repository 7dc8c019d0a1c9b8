------------------------------- MODULE AccessLog -------------------------------
(***************************************************************************)
(* The access log: callers record events without waiting, failed logins    *)
(* are thinned out, and one loop writes the events in batches.  An event is *)
(* its key, when it is a failed login, and its time.                        *)
(***************************************************************************)
EXTENDS Integers, SequencesExt

CONSTANTS
  Keys,          \* failureKey of the failed logins
  Plain,         \* the key of every other event
  QueueSize, BatchSize, Retention,
  FailureRate, FailureBurst, PerKeyWindow, MaxFailureKeys,
  MaxEvents,     \* bound: events recorded
  MaxNow         \* bound: the clock

VARIABLES
  queue, batch,
  stored,                           \* rows of the log
  gone,                             \* events that the retention has ended
  dropped, suppressed, failed,      \* the counters
  tokens, refillAt, lastSeen, purgedAt,
  mode,                             \* the loop: running, draining or returned
  late,                             \* events that came when the loop had returned
  recorded, admitted, now

logVars == <<queue, batch, stored, gone, dropped, suppressed, failed, tokens, refillAt, lastSeen, purgedAt,
             mode, late, recorded, admitted, now>>

limiter == <<tokens, refillAt, lastSeen, purgedAt, admitted>>
counters == <<dropped, suppressed, failed, recorded, late>>

\* lastSeen holds -1 for a key that is not in the map; purgedAt before the start is long ago.
Init ==
  /\ queue = <<>> /\ batch = <<>> /\ stored = <<>> /\ gone = 0
  /\ dropped = 0 /\ suppressed = 0 /\ failed = 0
  /\ tokens = FailureBurst /\ refillAt = 0
  /\ lastSeen = [k \in Keys |-> -1] /\ purgedAt = -PerKeyWindow
  /\ mode = "running" /\ late = 0 /\ recorded = 0 /\ admitted = <<>> /\ now = 0

TypeOK ==
  /\ Len(queue) <= QueueSize /\ Len(batch) < BatchSize
  /\ tokens \in 0 .. FailureBurst /\ Cardinality({k \in Keys : lastSeen[k] >= 0}) <= MaxFailureKeys
  /\ mode \in {"running", "draining", "returned"} /\ recorded \in 0 .. MaxEvents /\ now \in 0 .. MaxNow

-----------------------------------------------------------------------------
Refilled == Min({FailureBurst, tokens + (now - refillAt) * FailureRate})

Recent(k) == lastSeen[k] >= 0 /\ now - lastSeen[k] < PerKeyWindow

\* A mutant: only the shared rate is looked at, not when the key was last seen.
BugAdmits(k) == Refilled >= 1

Admits(k) == ~Recent(k) /\ Refilled >= 1

Known(seen) == {k \in Keys : seen[k] >= 0}

Purges == Cardinality(Known(lastSeen)) >= MaxFailureKeys /\ now - purgedAt >= PerKeyWindow

DropExpiredKeys == [k \in Keys |-> IF Recent(k) THEN lastSeen[k] ELSE -1]

AdmitFailure(k) ==
  LET kept == IF Purges THEN DropExpiredKeys ELSE lastSeen IN
  /\ refillAt' = now
  /\ IF Admits(k)
     THEN /\ tokens' = Refilled - 1
          /\ purgedAt' = IF Purges THEN now ELSE purgedAt
          /\ lastSeen' = IF Cardinality(Known(kept)) < MaxFailureKeys THEN [kept EXCEPT ![k] = now] ELSE kept
          /\ admitted' = Append(admitted, [key |-> k, at |-> now, known |-> Cardinality(Known(kept)) < MaxFailureKeys])
     ELSE tokens' = Refilled /\ UNCHANGED <<purgedAt, lastSeen, admitted>>

Enqueue(e) ==
  IF Len(queue) < QueueSize
  THEN /\ queue' = Append(queue, e) /\ UNCHANGED dropped
       /\ late' = IF mode = "returned" THEN late + 1 ELSE late
  ELSE dropped' = dropped + 1 /\ UNCHANGED <<queue, late>>

Record(k) ==
  /\ recorded < MaxEvents /\ recorded' = recorded + 1
  /\ IF k = Plain THEN UNCHANGED limiter ELSE AdmitFailure(k)
  /\ IF k # Plain /\ ~Admits(k)
     THEN suppressed' = suppressed + 1 /\ UNCHANGED <<queue, dropped, late>>
     ELSE Enqueue([key |-> k, at |-> now]) /\ UNCHANGED suppressed
  /\ UNCHANGED <<batch, stored, gone, failed, mode, now>>

\* The batch is one transaction.
AppendAccessEvents(events) == stored' = stored \o events

\* write: a batch that is not stored is counted as failed.
Write(events) ==
  /\ batch' = <<>>
  /\ \/ AppendAccessEvents(events) /\ UNCHANGED failed
     \/ events # <<>> /\ failed' = failed + Len(events) /\ UNCHANGED stored

Take ==
  /\ mode # "returned" /\ queue # <<>>
  /\ queue' = Tail(queue)
  /\ LET b == Append(batch, Head(queue)) IN
     IF Len(b) >= BatchSize THEN Write(b) ELSE batch' = b /\ UNCHANGED <<stored, failed>>
  /\ UNCHANGED <<gone, dropped, suppressed, recorded, late, limiter, mode, now>>

Flush ==
  /\ mode = "running" /\ Write(batch)
  /\ UNCHANGED <<queue, gone, dropped, suppressed, recorded, late, limiter, mode, now>>

RemoveAll(old) ==
  LET left == SetToSortSeq((1 .. Len(stored)) \ old, <) IN [i \in 1 .. Len(left) |-> stored[left[i]]]

\* PruneAccessEvents deletes in batches and may fail after some of them.
Prune ==
  /\ mode = "running"
  /\ \E old \in SUBSET {i \in 1 .. Len(stored) : stored[i].at < now - Retention} :
       stored' = RemoveAll(old)
  /\ gone' = gone + Len(stored) - Len(stored')
  /\ UNCHANGED <<queue, batch, counters, limiter, mode, now>>

\* A mutant: the loop returns with what it has in hand.
BugDrained ==
  /\ mode = "draining" /\ queue = <<>>
  /\ batch' = <<>> /\ mode' = "returned"
  /\ UNCHANGED <<queue, stored, gone, counters, limiter, now>>

\* ctx.Done: the queue is emptied, and the loop returns when it finds it empty.
Drained ==
  /\ mode = "draining" /\ queue = <<>>
  /\ Write(batch) /\ mode' = "returned"
  /\ UNCHANGED <<queue, gone, dropped, suppressed, recorded, late, limiter, now>>

Stop ==
  /\ mode = "running" /\ mode' = "draining"
  /\ UNCHANGED <<queue, batch, stored, gone, counters, limiter, now>>

Tick ==
  /\ now < MaxNow /\ now' = now + 1
  /\ UNCHANGED <<queue, batch, stored, gone, counters, limiter, mode>>

Next ==
  \/ \E k \in Keys \cup {Plain} : Record(k)
  \/ Take \/ Flush \/ Prune \/ Drained \/ Stop \/ Tick

Spec == Init /\ [][Next]_logVars

-----------------------------------------------------------------------------
(* Properties.                                                             *)

\* Every event that was recorded is on its way, stored, past its retention or in one of
\* the counters; a loop that has returned leaves only what came after; and failed logins
\* get through one to a key and window, as long as the map has room for the key, and no
\* more of them than the burst and the rate allow.
LogAccounted ==
  /\ recorded = Len(queue) + Len(batch) + Len(stored) + gone + dropped + suppressed + failed
  /\ mode = "returned" => batch = <<>> /\ Len(queue) = late
  /\ Len(admitted) <= FailureBurst + FailureRate * now
  /\ \A i, j \in 1 .. Len(admitted) :
       i < j /\ admitted[i].key = admitted[j].key /\ admitted[i].known =>
         admitted[j].at - admitted[i].at >= PerKeyWindow

=============================================================================
