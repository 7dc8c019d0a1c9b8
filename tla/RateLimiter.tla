------------------------------ MODULE RateLimiter ------------------------------
(***************************************************************************)
(* The token buckets of the rate limits, in the memory of a server or in   *)
(* Redis, and the guard of an endpoint's password that is built on them:   *)
(* one comparison at a time for a client, none while the client is locked  *)
(* out.  A credit counts in units of time: PerToken of it are one token.   *)
(***************************************************************************)
EXTENDS Integers, FiniteSets, FiniteSetsExt

CONSTANTS
  Reqs,            \* requests that present a password
  VerifyKeys,      \* basicAuthVerifyKey of clients
  RateKeys,        \* keys of the other limits
  Capacity, PerToken,
  MaxPerShard, EvictSamples, SweepInterval,
  CacheTTL,        \* of a password that was right
  MaxStarts,       \* bound: requests that start
  MaxNow           \* bound: the clock

VARIABLES
  shared,          \* the buckets are in Redis
  buckets, lastSweep,
  exact,           \* the credits that a table without a limit would hold
  forgiven,        \* keys whose bucket was evicted before it was full, or whose answer was lost
  locks,           \* keyedLocks: the lock of a key
  held, refs,      \* of the locks, by number
  req,
  lockout,         \* until when a client is locked out
  known,           \* until when the right password is remembered
  compared,        \* passwords that were compared and were wrong, by key
  starts, now

limitVars == <<shared, buckets, lastSweep, exact, forgiven, locks, held, refs, req, lockout, known, compared, starts, now>>
table == <<buckets, lastSweep, exact, forgiven>>
locking == <<locks, held, refs>>

Keys == VerifyKeys \cup RateKeys
LockIds == 1 .. Cardinality(Reqs)
Full == Capacity * PerToken
NoBucket == [credit |-> -1, last |-> 0, fullAt |-> 0]
Idle == [pc |-> "idle", key |-> "none", lock |-> 0, right |-> FALSE]

Init ==
  /\ shared \in BOOLEAN
  /\ buckets = [k \in Keys |-> NoBucket] /\ lastSweep = -SweepInterval
  /\ exact = [k \in Keys |-> [credit |-> Full, last |-> 0]] /\ forgiven = {}
  /\ locks = [k \in VerifyKeys |-> 0]
  /\ held = [l \in LockIds |-> FALSE] /\ refs = [l \in LockIds |-> 0]
  /\ req = [r \in Reqs |-> Idle]
  /\ lockout = [k \in VerifyKeys |-> 0] /\ known = 0
  /\ compared = [k \in VerifyKeys |-> 0]
  /\ starts = 0 /\ now = 0

TypeOK ==
  /\ \A k \in Keys : buckets[k].credit \in -1 .. Full /\ exact[k].credit \in 0 .. Full
  /\ locks \in [VerifyKeys -> LockIds \cup {0}] /\ refs \in [LockIds -> 0 .. Cardinality(Reqs)]
  /\ \A r \in Reqs : req[r].pc \in {"idle", "wait", "guard", "verify", "count"}
  /\ starts \in 0 .. MaxStarts /\ now \in 0 .. MaxNow

-----------------------------------------------------------------------------
(* Allow.                                                                  *)

InTable(t) == {k \in Keys : t[k].credit >= 0}

Without(t, S) == [k \in Keys |-> IF k \in S THEN NoBucket ELSE t[k]]

Swept(t) == Without(t, {k \in InTable(t) : t[k].fullAt <= now})

\* What evict may leave: the map is walked in any order, up to evictSamples buckets.
Evicted(t) ==
  {Without(t, {v}) : v \in
     {k \in InTable(t) :
        \/ t[k].fullAt <= now
        \/ \E S \in SUBSET InTable(t) :
             /\ k \in S /\ Cardinality(S) = Min({EvictSamples, Cardinality(InTable(t))})
             /\ \A j \in S : t[j].fullAt > now /\ t[k].fullAt <= t[j].fullAt}}

Refill(credit, last) == Min({Full, credit + now - last})

Spend(credit) == IF credit >= PerToken THEN credit - PerToken ELSE credit

\* A mutant: the bucket is taken to be full again when one more token is there.
BugBucket(credit) == [credit |-> credit, last |-> now, fullAt |-> now + PerToken]

Bucket(credit) == [credit |-> credit, last |-> now, fullAt |-> now + Full - credit]

\* The table of Memory.Allow after a sweep that is due and an eviction for a new key.
Tables(k) ==
  LET t == IF now - lastSweep >= SweepInterval THEN Swept(buckets) ELSE buckets IN
  IF k \notin InTable(t) /\ Cardinality(InTable(t)) >= MaxPerShard THEN Evicted(t) ELSE {t}

\* bucketScript: the hash of a key expires some time after it would be full.
Expired(t) == Without(t, {k \in InTable(t) : now > t[k].last + Full})

\* The answer is the credit before the request; there is a token or there is not.  The
\* script may fail before or after it ran, and then the request is allowed.
Allow(k, credit) ==
  LET before(t) == IF t[k].credit < 0 THEN Full ELSE Refill(t[k].credit, t[k].last)
      entry(t) == [t EXCEPT ![k] = Bucket(Spend(before(t)))]
      real == Refill(exact[k].credit, exact[k].last)
  IN \/ \E t \in (IF shared THEN {Expired(buckets)} ELSE Tables(k)) :
          /\ buckets' = entry(t)
          /\ lastSweep' = IF ~shared /\ now - lastSweep >= SweepInterval THEN now ELSE lastSweep
          /\ exact' = [exact EXCEPT ![k] = [credit |-> Spend(real), last |-> now]]
          /\ forgiven' = forgiven \cup {j \in InTable(buckets) \ InTable(t) : buckets[j].fullAt > now}
          /\ credit = before(t)
     \/ /\ shared /\ forgiven' = forgiven \cup {k}
        /\ buckets' \in {Expired(buckets), entry(Expired(buckets))}
        /\ credit = PerToken
        /\ UNCHANGED <<lastSweep, exact>>

\* allowRate, authRateAllowed: the answer alone decides.
AllowRate(k) ==
  /\ starts < MaxStarts /\ starts' = starts + 1
  /\ \E credit \in 0 .. Full : Allow(k, credit)
  /\ UNCHANGED <<shared, locking, req, lockout, known, compared, now>>

-----------------------------------------------------------------------------
(* The guard of a password.                                                *)

Unused == CHOOSE l \in LockIds : refs[l] = 0

\* checkBasicAuth, and the first half of acquire: a right password that is remembered
\* is let in; otherwise the request takes a reference to the lock of its client.
CheckBasicAuth(r, k, right) ==
  /\ req[r].pc = "idle" /\ starts < MaxStarts /\ starts' = starts + 1
  /\ IF right /\ now < known
     THEN UNCHANGED <<req, locking>>
     ELSE LET l == IF locks[k] = 0 THEN Unused ELSE locks[k] IN
          /\ locks' = [locks EXCEPT ![k] = l]
          /\ refs' = [refs EXCEPT ![l] = @ + 1]
          /\ req' = [req EXCEPT ![r] = [pc |-> "wait", key |-> k, lock |-> l, right |-> right]]
          /\ UNCHANGED held
  /\ UNCHANGED <<shared, table, lockout, known, compared, now>>

\* A mutant: the lock is dropped from the map with its holder, whoever else waits for it.
BugLeave(r) ==
  LET l == req[r].lock IN
  /\ refs' = [refs EXCEPT ![l] = @ - 1]
  /\ locks' = [locks EXCEPT ![req[r].key] = 0]
  /\ req' = [req EXCEPT ![r] = Idle]

Leave(r) ==
  LET l == req[r].lock IN
  /\ refs' = [refs EXCEPT ![l] = @ - 1]
  /\ locks' = IF refs[l] = 1 THEN [locks EXCEPT ![req[r].key] = 0] ELSE locks
  /\ req' = [req EXCEPT ![r] = Idle]

Release(r) == held' = [held EXCEPT ![req[r].lock] = FALSE] /\ Leave(r)

Acquire(r) ==
  /\ req[r].pc = "wait" /\ ~held[req[r].lock]
  /\ held' = [held EXCEPT ![req[r].lock] = TRUE]
  /\ req' = [req EXCEPT ![r].pc = "guard"]
  /\ UNCHANGED <<shared, table, locks, refs, lockout, known, compared, starts, now>>

\* The client goes away while it waits.
GiveUp(r) ==
  /\ req[r].pc = "wait" /\ Leave(r)
  /\ UNCHANGED <<shared, table, held, lockout, known, compared, starts, now>>

Guard(r) ==
  /\ req[r].pc = "guard"
  /\ IF lockout[req[r].key] > now
     THEN Release(r)
     ELSE req' = [req EXCEPT ![r].pc = "verify"] /\ UNCHANGED locking
  /\ UNCHANGED <<shared, table, lockout, known, compared, starts, now>>

\* verify: a remembered password is not compared again.
Verify(r) ==
  /\ req[r].pc = "verify"
  /\ IF req[r].right
     THEN /\ Release(r) /\ UNCHANGED compared
          /\ known' = IF now < known THEN known ELSE now + CacheTTL
     ELSE /\ compared' = [compared EXCEPT ![req[r].key] = @ + 1]
          /\ req' = [req EXCEPT ![r].pc = "count"]
          /\ UNCHANGED <<known, locking>>
  /\ UNCHANGED <<shared, table, lockout, starts, now>>

Count(r) ==
  /\ req[r].pc = "count"
  /\ \E credit \in 0 .. Full :
       /\ Allow(req[r].key, credit)
       /\ lockout' = IF credit >= PerToken THEN lockout
                     ELSE [lockout EXCEPT ![req[r].key] = now + PerToken - credit]
  /\ Release(r)
  /\ UNCHANGED <<shared, known, compared, starts, now>>

Tick ==
  /\ now < MaxNow /\ now' = now + 1
  /\ UNCHANGED <<shared, table, locking, req, lockout, known, compared, starts>>

Next ==
  \/ \E k \in RateKeys : AllowRate(k)
  \/ \E r \in Reqs :
       \/ \E k \in VerifyKeys, right \in BOOLEAN : CheckBasicAuth(r, k, right)
       \/ Acquire(r) \/ GiveUp(r) \/ Guard(r) \/ Verify(r) \/ Count(r)
  \/ Tick

Spec == Init /\ [][Next]_limitVars

-----------------------------------------------------------------------------
(* Properties.                                                             *)

\* The limiter forgets a bucket only when it is full, but for those that a full table
\* evicts: what it holds is what it would hold without sweeps, limit and expiry.  The
\* requests of one client compare passwords one at a time, with a lock that is in the map
\* as long as anyone refers to it; so a client has no more wrong passwords compared than
\* its tokens, and one more for every time it is locked out.
LimitsHold ==
  /\ ~shared => Cardinality(InTable(buckets)) <= MaxPerShard
  /\ \A k \in Keys \ forgiven :
       Refill(exact[k].credit, exact[k].last) =
         IF buckets[k].credit < 0 THEN Full ELSE Refill(buckets[k].credit, buckets[k].last)
  /\ \A k \in VerifyKeys :
       /\ Cardinality({r \in Reqs : req[r].key = k /\ req[r].pc \in {"guard", "verify", "count"}}) <= 1
       /\ Cardinality({r \in Reqs : req[r].key = k}) = IF locks[k] = 0 THEN 0 ELSE refs[locks[k]]
       /\ k \notin forgiven => compared[k] <= Capacity + 1 + 2 * (now \div PerToken)

=============================================================================
