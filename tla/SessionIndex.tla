----------------------------- MODULE SessionIndex -----------------------------
(***************************************************************************)
(* Token sessions in Redis: SessionStore of store/redis.  A session is a   *)
(* key with a time to live; the sessions of a subject and of an endpoint   *)
(* are listed in index sets, which have a time to live of their own.       *)
(*                                                                         *)
(* One subject and one endpoint.  A pipeline, a transaction and a script   *)
(* are one step each; an operation that takes several of them may be       *)
(* interleaved with any other.  An operation is over long before the       *)
(* clock, which counts in the unit of the lifetimes, moves.                *)
(***************************************************************************)
EXTENDS Integers, FiniteSets

CONSTANTS
  Ids,         \* session ids, each put once
  AtEndpoint,  \* the sessions that belong to the endpoint
  AgentTTL, BrowserTTL,  \* the lifetimes: a browser's session belongs to an endpoint
  MaxTime      \* bound on the clock

Indexes == {"subject", "endpoint"}
sessionIndexes(i) == {"subject"} \cup (IF i \in AtEndpoint THEN {"endpoint"} ELSE {})

ttl == [i \in Ids |-> IF i \in AtEndpoint THEN BrowserTTL ELSE AgentTTL]

VARIABLES
  now,      \* the clock
  expires,  \* expires[i]: when the key of session i expires; 0: no such key
  version,  \* version[i]: the token of session i, counted
  members,  \* members[x]: the index set
  idxExp,   \* idxExp[x]: when the index key expires; 0: it does not
  put,      \* put[i]: where PutTokenSession of i stands
  rotate,   \* rotate[i]: where a RotateTokenSession of i stands
  readTTL,  \* readTTL[i]: the PTTLs i's operation read
  watched,  \* watched[i]: the version a rotation watches
  listed    \* listed: where DeleteEndpointSessions stands

vars == <<now, expires, version, members, idxExp, put, rotate, readTTL, watched, listed>>
keyVars == <<expires, version, members, idxExp>>
opVars == <<put, rotate, readTTL, watched, listed>>

Idle == [st |-> "idle", ids |-> {}]
MaxExp == MaxTime + 1 + CHOOSE t \in {ttl[i] : i \in Ids} : \A i \in Ids : t >= ttl[i]

TypeOK ==
  /\ now \in 1..MaxTime
  /\ expires \in [Ids -> 0..MaxExp]
  /\ version \in [Ids -> 0..2]
  /\ members \in [Indexes -> SUBSET Ids]
  /\ idxExp \in [Indexes -> 0..MaxExp]
  /\ put \in [Ids -> {"new", "read", "done"}]
  /\ rotate \in [Ids -> {"idle", "read"}]
  /\ readTTL \in [Ids -> [Indexes -> -2..MaxExp]]
  /\ watched \in [Ids -> 0..2]
  /\ listed \in [st : {"idle", "members", "live"}, ids : SUBSET Ids]

Init ==
  /\ now = 1
  /\ expires = [i \in Ids |-> 0]
  /\ version = [i \in Ids |-> 0]
  /\ members = [x \in Indexes |-> {}]
  /\ idxExp = [x \in Indexes |-> 0]
  /\ put = [i \in Ids |-> "new"]
  /\ rotate = [i \in Ids |-> "idle"]
  /\ readTTL = [i \in Ids |-> [x \in Indexes |-> -2]]
  /\ watched = [i \in Ids |-> 0]
  /\ listed = Idle

Live(i) == expires[i] > now
PTTL(x) == IF members[x] = {} THEN -2 ELSE IF idxExp[x] = 0 THEN -1 ELSE idxExp[x] - now

-----------------------------------------------------------------------------

\* PTTL of the indexes of session i, in one pipeline.
ReadTTLs(i) == readTTL' = [readTTL EXCEPT ![i] = [x \in Indexes |-> PTTL(x)]]

BugExpireOnlyNew(i, after) ==
  idxExp' = [x \in Indexes |->
    IF x \in sessionIndexes(i) /\ readTTL[i][x] = -2 /\ after[x] # {}
    THEN now + ttl[i] ELSE idxExp[x]]

\* PEXPIRE of the indexes that are to live shorter than the session.  A key
\* that does not exist (its members are given after the step) stays so.
ExtendIndexes(i, after) ==
  idxExp' = [x \in Indexes |->
    IF x \in sessionIndexes(i) /\ readTTL[i][x] < ttl[i] /\ after[x] # {}
    THEN now + ttl[i] ELSE idxExp[x]]

PutRead(i) ==
  /\ put[i] = "new"
  /\ put' = [put EXCEPT ![i] = "read"]
  /\ ReadTTLs(i)
  /\ UNCHANGED <<now, keyVars, rotate, watched, listed>>

\* The transaction of PutTokenSession: SET, and SADD and PEXPIRE per index.
PutExec(i) ==
  LET after == [x \in Indexes |-> IF x \in sessionIndexes(i) THEN members[x] \cup {i}
                                                             ELSE members[x]] IN
  /\ put[i] = "read"
  /\ put' = [put EXCEPT ![i] = "done"]
  /\ expires' = [expires EXCEPT ![i] = now + ttl[i]]
  /\ version' = [version EXCEPT ![i] = 1]
  /\ members' = after
  /\ ExtendIndexes(i, after)
  /\ UNCHANGED <<now, rotate, readTTL, watched, listed>>

\* RotateTokenSession: WATCH, GET and the PTTLs; the caller holds the token.
RotateRead(i) ==
  /\ rotate[i] = "idle"
  /\ put[i] = "done"
  /\ Live(i) /\ version[i] = 1
  /\ rotate' = [rotate EXCEPT ![i] = "read"]
  /\ watched' = [watched EXCEPT ![i] = version[i]]
  /\ ReadTTLs(i)
  /\ UNCHANGED <<now, keyVars, put, listed>>

\* EXEC: nothing happens if the watched key was touched or has expired.
RotateExec(i) ==
  /\ rotate[i] = "read"
  /\ rotate' = [rotate EXCEPT ![i] = "idle"]
  /\ IF Live(i) /\ version[i] = watched[i]
     THEN /\ expires' = [expires EXCEPT ![i] = now + ttl[i]]
          /\ version' = [version EXCEPT ![i] = 2]
          /\ ExtendIndexes(i, members)
     ELSE UNCHANGED <<expires, version, idxExp>>
  /\ UNCHANGED <<now, members, put, readTTL, watched, listed>>

\* Keys of dead sessions; an index that becomes empty is no key any more.
Drop(dead, after) ==
  /\ expires' = [i \in Ids |-> IF i \in dead THEN 0 ELSE expires[i]]
  /\ version' = [i \in Ids |-> IF i \in dead THEN 0 ELSE version[i]]
  /\ members' = after
  /\ idxExp' = [x \in Indexes |-> IF after[x] = {} THEN 0 ELSE idxExp[x]]

\* DeleteTokenSession: a session of this id is never put again, so its GET
\* and its transaction are one step.
DeleteTokenSession(i) ==
  /\ Live(i)
  /\ Drop({i}, [x \in Indexes |-> members[x] \ {i}])
  /\ UNCHANGED <<now, opVars>>

\* deleteSubjectSessionsScript; the endpoint's index is left to be pruned.
DeleteSubjectSessions ==
  /\ members["subject"] # {}
  /\ Drop(members["subject"], [members EXCEPT !["subject"] = {}])
  /\ UNCHANGED <<now, opVars>>

\* endpointSessions: SMEMBERS ...
EndpointMembers ==
  /\ listed.st = "idle"
  /\ members["endpoint"] # {}
  /\ listed' = [st |-> "members", ids |-> members["endpoint"]]
  /\ UNCHANGED <<now, keyVars, put, rotate, readTTL, watched>>

\* ... MGET, and SREM of the ids that have no session (two commands, but what
\* is stale stays stale).
EndpointLive ==
  LET stale == {i \in listed.ids : ~Live(i)} IN
  /\ listed.st = "members"
  /\ listed' = [st |-> "live", ids |-> listed.ids \ stale]
  /\ Drop({}, [members EXCEPT !["endpoint"] = @ \ stale])
  /\ UNCHANGED <<now, put, rotate, readTTL, watched>>

\* ListEndpointSessions ends here.
ListEndpointSessions ==
  /\ listed.st = "live"
  /\ listed' = Idle
  /\ UNCHANGED <<now, keyVars, put, rotate, readTTL, watched>>

\* The transaction of DeleteEndpointSessions.
DeleteEndpointSessions ==
  /\ listed.st = "live"
  /\ listed' = Idle
  /\ Drop(listed.ids, [subject |-> members["subject"] \ listed.ids, endpoint |-> {}])
  /\ UNCHANGED <<now, put, rotate, readTTL, watched>>

\* Time passes while no operation is under way; Redis drops what expired.
Tick ==
  /\ now < MaxTime
  /\ \A i \in Ids : put[i] # "read" /\ rotate[i] = "idle"
  /\ listed = Idle
  /\ now' = now + 1
  /\ expires' = [i \in Ids |-> IF expires[i] <= now' THEN 0 ELSE expires[i]]
  /\ version' = [i \in Ids |-> IF expires[i] <= now' THEN 0 ELSE version[i]]
  /\ members' = [x \in Indexes |-> IF idxExp[x] # 0 /\ idxExp[x] <= now' THEN {} ELSE members[x]]
  /\ idxExp' = [x \in Indexes |-> IF idxExp[x] <= now' THEN 0 ELSE idxExp[x]]
  /\ UNCHANGED opVars

-----------------------------------------------------------------------------

Next ==
  \/ \E i \in Ids : \/ PutRead(i) \/ PutExec(i) \/ RotateRead(i) \/ RotateExec(i)
                    \/ DeleteTokenSession(i)
  \/ DeleteSubjectSessions
  \/ EndpointMembers \/ EndpointLive \/ ListEndpointSessions \/ DeleteEndpointSessions
  \/ Tick

Spec == Init /\ [][Next]_vars

-----------------------------------------------------------------------------

\* A session that can be used can be found by its subject, so that
\* DeleteSubjectSessions reaches it.
SubjectIndexed == \A i \in Ids : Live(i) => i \in members["subject"]

\* A session that was deleted does not come back: a rotation that read it
\* before fails (WATCH in RotateTokenSession).
StaysDeleted == \A i \in Ids : put[i] = "done" /\ ~Live(i) => expires'[i] = 0
=============================================================================
