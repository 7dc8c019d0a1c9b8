------------------------------ MODULE UsageMeter ------------------------------
(***************************************************************************)
(* The bytes an organisation moves through the ingress, from the streams   *)
(* that count them to the shared counter the quota is held against: a      *)
(* metered stream collects bytes and hands them to the server's usage      *)
(* tracker, whose loop adds them to the counter in Redis.  The two         *)
(* directions of a stream and its close run concurrently.                  *)
(***************************************************************************)
EXTENDS Integers, FiniteSetsExt

CONSTANTS
  Conns,      \* streams of one organisation
  Pods,       \* servers
  StreamPod,      \* the server a stream is on
  Limit,      \* the organisation's bandwidth quota
  MinFlush, MaxFlush,
  MaxMoved,   \* bound: bytes that are moved
  MaxFaults   \* bound: faults of Redis, crashes of servers

Dirs == {"in", "out", "close"}

VARIABLES
  stream,    \* the metered streams
  tracker,   \* the usage trackers
  counter,   \* the counter in Redis
  moved,     \* bytes that crossed a stream
  twice,     \* bytes added to the counter whose answer was lost
  gone,      \* bytes a crashed server had not handed on
  faults

usageVars == <<stream, tracker, counter, moved, twice, gone, faults>>

NewStream == [st |-> "new", pending |-> 0, flushAt |-> MaxFlush, exceeded |-> FALSE,
              held |-> [d \in Dirs |-> 0], at |-> [d \in Dirs |-> "idle"],
              lock |-> "free", taken |-> 0]
NewTracker == [local |-> 0, pending |-> 0, remote |-> 0, fresh |-> FALSE, sending |-> 0]

FlushThreshold(remaining) ==
  LET quarter == remaining \div 4
      atLeast == IF quarter > MinFlush THEN quarter ELSE MinFlush
  IN  IF atLeast < MaxFlush THEN atLeast ELSE MaxFlush

Init ==
  /\ stream = [c \in Conns |-> NewStream] /\ tracker = [p \in Pods |-> NewTracker]
  /\ counter = 0 /\ moved = 0 /\ twice = 0 /\ gone = 0 /\ faults = 0

-----------------------------------------------------------------------------
(* usageTracker.get: the cached counter, or a new one, or the bytes of this *)
(* server alone when Redis does not answer.                                *)

Fetched(p, t) ==
  IF t.fresh THEN {t}
  ELSE {[t EXCEPT !.remote = counter, !.fresh = TRUE]}
       \cup (IF faults < MaxFaults THEN {[t EXCEPT !.remote = t.local - t.pending, !.fresh = TRUE]} ELSE {})

Usage(t) == t.remote + t.pending

\* bandwidthLimit admits a request and newMeteredConn opens its stream.
Open(c) ==
  /\ stream[c].st = "new"
  /\ \E t \in Fetched(StreamPod[c], tracker[StreamPod[c]]) :
       /\ tracker' = [tracker EXCEPT ![StreamPod[c]] = t]
       /\ IF Usage(t) >= Limit THEN stream' = [stream EXCEPT ![c].st = "closed"]
          ELSE stream' = [stream EXCEPT ![c].st = "open",
                                        ![c].flushAt = FlushThreshold(Limit - Usage(t))]
  /\ UNCHANGED <<counter, moved, twice, gone, faults>>

\* Read and Write of a stream that is not over the quota.
Transfer(c, d, n) ==
  /\ stream[c].st = "open" /\ ~stream[c].exceeded /\ stream[c].at[d] = "idle" /\ d # "close"
  /\ moved + n <= MaxMoved /\ moved' = moved + n
  /\ stream' = [stream EXCEPT ![c].held[d] = n, ![c].at[d] = "account"]
  /\ UNCHANGED <<tracker, counter, twice, gone, faults>>

Account(c, d) ==
  LET sum == stream[c].pending + stream[c].held[d] IN
  /\ stream[c].at[d] = "account"
  /\ stream' = [stream EXCEPT ![c].pending = sum, ![c].held[d] = 0,
                              ![c].at[d] = IF sum >= stream[c].flushAt THEN "flush" ELSE "idle"]
  /\ UNCHANGED <<tracker, counter, moved, twice, gone, faults>>

\* Close closes the stream and flushes what it has, once.
Close(c) ==
  /\ stream[c].st = "open"
  /\ stream' = [stream EXCEPT ![c].st = "closed", ![c].at["close"] = "flush"]
  /\ UNCHANGED <<tracker, counter, moved, twice, gone, faults>>

\* A mutant: the bytes are loaded, and the counter reset when they are added.
BugTake(c, d) ==
  /\ stream[c].at[d] = "flush" /\ stream[c].lock = "free"
  /\ stream' = [stream EXCEPT ![c].lock = d, ![c].taken = stream[c].pending,
                              ![c].at[d] = "add"]
  /\ UNCHANGED <<tracker, counter, moved, twice, gone, faults>>

\* flush: the lock, and the exchange of the pending bytes for none.
Take(c, d) ==
  /\ stream[c].at[d] = "flush" /\ stream[c].lock = "free"
  /\ stream' = IF stream[c].pending = 0 THEN [stream EXCEPT ![c].at[d] = "idle"]
               ELSE [stream EXCEPT ![c].lock = d, ![c].taken = stream[c].pending,
                                   ![c].pending = 0, ![c].at[d] = "add"]
  /\ UNCHANGED <<tracker, counter, moved, twice, gone, faults>>

\* usageTracker.add.
Add(c, d) ==
  /\ stream[c].at[d] = "add"
  /\ tracker' = [tracker EXCEPT ![StreamPod[c]].local = @ + stream[c].taken,
                                ![StreamPod[c]].pending = @ + stream[c].taken]
  /\ stream' = [stream EXCEPT ![c].taken = 0, ![c].at[d] = "check"]
  /\ UNCHANGED <<counter, moved, twice, gone, faults>>

\* The rest of flush: the stream ends when the quota is used up.
Check(c, d) ==
  /\ stream[c].at[d] = "check"
  /\ \E t \in Fetched(StreamPod[c], tracker[StreamPod[c]]) :
       /\ tracker' = [tracker EXCEPT ![StreamPod[c]] = t]
       /\ stream' =
            IF Usage(t) >= Limit
            THEN [stream EXCEPT ![c].exceeded = TRUE, ![c].at[d] = "idle", ![c].lock = "free"]
            ELSE [stream EXCEPT ![c].flushAt = FlushThreshold(Limit - Usage(t)),
                                ![c].at[d] = "idle", ![c].lock = "free"]
  /\ UNCHANGED <<counter, moved, twice, gone, faults>>

-----------------------------------------------------------------------------
(* The loop of a server's tracker.                                         *)

TrackerFlush(p) ==
  /\ tracker[p].sending = 0 /\ tracker[p].pending # 0
  /\ tracker' = [tracker EXCEPT ![p].sending = tracker[p].pending, ![p].pending = 0]
  /\ UNCHANGED <<stream, counter, moved, twice, gone, faults>>

\* A mutant: bytes that could not be sent are dropped.
BugSent(p) ==
  /\ tracker[p].sending # 0
  /\ \/ /\ counter' = counter + tracker[p].sending
        /\ tracker' = [tracker EXCEPT ![p].sending = 0,
                         ![p].remote = IF tracker[p].fresh THEN @ + tracker[p].sending ELSE @]
        /\ UNCHANGED <<twice, faults>>
     \/ /\ faults < MaxFaults /\ faults' = faults + 1
        /\ tracker' = [tracker EXCEPT ![p].sending = 0]
        /\ UNCHANGED <<counter, twice>>
  /\ UNCHANGED <<stream, moved, gone>>

\* The pipeline answers, fails, or is carried out and its answer is lost: what
\* failed is kept for the next flush.
Sent(p) ==
  LET n == tracker[p].sending
      kept == [tracker EXCEPT ![p].sending = 0, ![p].pending = @ + n]
  IN
  /\ n # 0
  /\ \/ /\ counter' = counter + n
        /\ tracker' = [tracker EXCEPT ![p].sending = 0,
                                      ![p].remote = IF tracker[p].fresh THEN @ + n ELSE @]
        /\ UNCHANGED <<twice, faults>>
     \/ /\ faults < MaxFaults /\ faults' = faults + 1
        /\ tracker' = kept
        /\ \/ UNCHANGED <<counter, twice>>
           \/ counter' = counter + n /\ twice' = twice + n
  /\ UNCHANGED <<stream, moved, gone>>

\* The cached counter is older than its lifetime.
Expire(p) ==
  /\ tracker[p].fresh
  /\ tracker' = [tracker EXCEPT ![p].fresh = FALSE, ![p].remote = 0]
  /\ UNCHANGED <<stream, counter, moved, twice, gone, faults>>

Unflushed(c) == stream[c].pending + stream[c].taken + MapThenSumSet(LAMBDA d : stream[c].held[d], Dirs)

\* A server stops without its close: what it had counted is gone.
Crash(p) ==
  LET mine == {c \in Conns : StreamPod[c] = p} IN
  /\ faults < MaxFaults /\ faults' = faults + 1
  /\ gone' = gone + tracker[p].pending + tracker[p].sending + MapThenSumSet(Unflushed, mine)
  /\ tracker' = [tracker EXCEPT ![p] = NewTracker]
  /\ stream' = [c \in Conns |-> IF c \in mine THEN [NewStream EXCEPT !.st = "closed"] ELSE stream[c]]
  /\ UNCHANGED <<counter, moved, twice>>

Next ==
  \/ \E c \in Conns :
       \/ Open(c) \/ Close(c)
       \/ \E d \in Dirs : Account(c, d) \/ Take(c, d) \/ Add(c, d) \/ Check(c, d)
       \/ \E d \in Dirs, n \in 1 .. 2 : Transfer(c, d, n)
  \/ \E p \in Pods : TrackerFlush(p) \/ Sent(p) \/ Expire(p) \/ Crash(p)

Spec == Init /\ [][Next]_usageVars
-----------------------------------------------------------------------------
TypeOK ==
  /\ counter \in Nat /\ moved \in 0 .. MaxMoved /\ twice \in Nat /\ gone \in Nat
  /\ \A c \in Conns : stream[c].st \in {"new", "open", "closed"} /\ stream[c].lock \in Dirs \cup {"free"}
  /\ \A p \in Pods : tracker[p].pending \in Nat /\ tracker[p].sending \in Nat

\* Every byte that crossed a stream is in exactly one place on its way to the
\* counter, or in it, or lost with a server: the two directions, the close and
\* the loop never lose one or count it twice, save that an addition whose answer
\* is lost is made again.
UsageConserved ==
  counter + MapThenSumSet(LAMBDA p : tracker[p].pending + tracker[p].sending, Pods)
    + MapThenSumSet(Unflushed, Conns) + gone = moved + twice
===============================================================================
