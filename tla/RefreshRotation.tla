--------------------------- MODULE RefreshRotation ---------------------------
(***************************************************************************)
(* Rotating refresh tokens: RefreshAgentUser and refreshWithinGrace of     *)
(* identity, the refresh grant of the control plane, and CredentialStore   *)
(* of the agent, which keeps the tokens in a file behind a lock.           *)
(*                                                                         *)
(* One agent session.  The ids of its refresh tokens form a chain, because *)
(* nextTokenID is a function of the one before: 0, 1, 2, ...  A request    *)
(* may be lost on the way back, time out at the client while the server    *)
(* is still at it, or fail in the store.  The lock admits one client call  *)
(* at a time; the requests it gave up on go on at the server.              *)
(***************************************************************************)
EXTENDS Naturals, FiniteSets

CONSTANTS
  Reqs,    \* refresh requests
  MaxTid   \* bound on the rotations

VARIABLES
  live,      \* the session is in the store
  tid,       \* TokenSession.TokenID; PrevTokenID is the one before
  grace,     \* the rotations that are younger than RefreshGrace
  claimed,   \* the tokens whose rgrace key was claimed
  file,      \* the refresh token in the credentials file
  client,    \* the request the lock holder waits for, if any
  settled,   \* the file was written since the last refresh (needsRefresh is false)
  req,       \* req[q]: where the handler of q stands
  pres,      \* pres[q]: the token q presents
  snap,      \* snap[q]: TokenID of the session as q read it
  reused,    \* the session was revoked by ErrRefreshReused
  late       \* some request came to the grace check too late

vars == <<live, tid, grace, claimed, file, client, settled, req, pres, snap, reused, late>>
sessVars == <<live, tid, grace, claimed, reused, late>>
clientVars == <<file, client, settled>>

Tids == 0..MaxTid
Stages == {"new", "verify", "rotate", "superseded", "revoke", "active",
           "ok", "invalid", "unavailable"}

TypeOK ==
  /\ live \in BOOLEAN /\ reused \in BOOLEAN /\ late \in BOOLEAN /\ settled \in BOOLEAN
  /\ tid \in Tids /\ file \in Tids
  /\ grace \subseteq Tids /\ claimed \subseteq Tids
  /\ client \subseteq Reqs /\ Cardinality(client) <= 1
  /\ req \in [Reqs -> Stages]
  /\ pres \in [Reqs -> Tids] /\ snap \in [Reqs -> Tids]

\* The agent has logged in: IssueAgentUser, Save.
Init ==
  /\ live = TRUE /\ reused = FALSE /\ late = FALSE /\ settled = FALSE
  /\ tid = 0 /\ file = 0
  /\ grace = {} /\ claimed = {}
  /\ client = {}
  /\ req = [q \in Reqs |-> "new"]
  /\ pres = [q \in Reqs |-> 0] /\ snap = [q \in Reqs |-> 0]

Done == {"ok", "invalid", "unavailable"}
AtServer == {q \in Reqs : req[q] \notin Done \cup {"new"}}

-----------------------------------------------------------------------------
(* The agent.                                                              *)

BugSendUnlocked(q) ==
  /\ ~settled
  /\ req[q] = "new"
  /\ client' = client \cup {q}
  /\ req' = [req EXCEPT ![q] = "verify"]
  /\ pres' = [pres EXCEPT ![q] = file]
  /\ UNCHANGED <<sessVars, file, settled, snap>>

\* AccessToken: the lock is taken and the token of the file presented.
Send(q) ==
  /\ client = {} /\ ~settled
  /\ req[q] = "new"
  /\ client' = {q}
  /\ req' = [req EXCEPT ![q] = "verify"]
  /\ pres' = [pres EXCEPT ![q] = file]
  /\ UNCHANGED <<sessVars, file, settled, snap>>

\* Half of the access token's life is over: by then no request is left.
NeedsRefresh ==
  /\ settled
  /\ AtServer = {}
  /\ settled' = FALSE
  /\ UNCHANGED <<sessVars, file, client, req, pres, snap>>

\* The answer arrives.  A new token is written before the lock is released;
\* on any other answer the file stays as it is.
Receive(q) ==
  /\ q \in client
  /\ req[q] \in Done
  /\ client' = {}
  /\ file' = IF req[q] = "ok" THEN snap[q] ELSE file
  /\ settled' = (req[q] = "ok")
  /\ UNCHANGED <<sessVars, req, pres, snap>>

\* The answer is lost, the client times out or dies before the write.
GiveUp(q) ==
  /\ q \in client
  /\ client' = {}
  /\ UNCHANGED <<sessVars, file, settled, req, pres, snap>>

-----------------------------------------------------------------------------
(* The server.                                                             *)

At(q, from, to) == req[q] = from /\ req' = [req EXCEPT ![q] = to]

\* verify: the session as the store has it now.
Verify(q) ==
  /\ \/ ~live /\ At(q, "verify", "invalid")
     \/ live /\ tid = pres[q] /\ At(q, "verify", "rotate")
     \/ live /\ tid # pres[q] /\ At(q, "verify", "superseded")
  /\ snap' = [snap EXCEPT ![q] = tid]
  /\ UNCHANGED <<sessVars, clientVars, pres>>

BugRotateBlindly(q) ==
  /\ tid < MaxTid
  /\ At(q, "rotate", "active")
  /\ live' = TRUE
  /\ tid' = snap[q] + 1
  /\ grace' = grace \cup {tid'}
  /\ snap' = [snap EXCEPT ![q] = tid']
  /\ UNCHANGED <<claimed, reused, late, clientVars, pres>>

\* RotateTokenSession: compare and swap on the previous token; a request that
\* comes second starts again.
Rotate(q) ==
  /\ tid < MaxTid
  /\ \/ /\ live /\ tid = snap[q]
        /\ At(q, "rotate", "active")
        /\ tid' = tid + 1
        /\ grace' = grace \cup {tid'}
        /\ snap' = [snap EXCEPT ![q] = tid']
     \/ /\ ~(live /\ tid = snap[q])
        /\ At(q, "rotate", "verify")
        /\ UNCHANGED <<tid, grace, snap>>
  /\ UNCHANGED <<live, claimed, reused, late, clientVars, pres>>

\* RotatedAt + RefreshGrace has passed.
GraceEnds(t) ==
  /\ t \in grace
  /\ grace' = grace \ {t}
  /\ UNCHANGED <<live, tid, claimed, reused, late, clientVars, req, pres, snap>>

BugRotateInGrace(q) ==
  LET inGrace == pres[q] + 1 = snap[q] /\ snap[q] \in grace /\ pres[q] \notin claimed IN
  /\ At(q, "superseded", IF inGrace THEN "rotate" ELSE "revoke")
  /\ claimed' = IF inGrace THEN claimed \cup {pres[q]} ELSE claimed
  /\ UNCHANGED <<live, tid, grace, reused, late, clientVars, pres, snap>>

\* refreshWithinGrace: the previous token, once, gets the current tokens.
WithinGrace(q) ==
  LET isPrev == pres[q] + 1 = snap[q]
      inGrace == isPrev /\ snap[q] \in grace
      first == pres[q] \notin claimed
  IN
  /\ At(q, "superseded", IF inGrace /\ first THEN "active" ELSE "revoke")
  /\ claimed' = IF inGrace THEN claimed \cup {pres[q]} ELSE claimed
  /\ late' = (late \/ (isPrev /\ ~inGrace))
  /\ UNCHANGED <<live, tid, grace, reused, clientVars, pres, snap>>

\* RevokeSession, ErrRefreshReused.
Revoke(q) ==
  /\ At(q, "revoke", "invalid")
  /\ live' = FALSE
  /\ reused' = TRUE
  /\ UNCHANGED <<tid, grace, claimed, late, clientVars, pres, snap>>

\* agentUserActive: the member is active, and the tokens are sent.
Active(q) ==
  /\ At(q, "active", "ok")
  /\ UNCHANGED <<sessVars, clientVars, pres, snap>>

\* agentUserActive: the member is gone; its session is revoked.
NotActive(q) ==
  /\ At(q, "active", "invalid")
  /\ live' = FALSE
  /\ UNCHANGED <<tid, grace, claimed, reused, late, clientVars, pres, snap>>

\* A store does not answer, at any of the steps above.
Unavailable(q) ==
  /\ q \in AtServer
  /\ req' = [req EXCEPT ![q] = "unavailable"]
  /\ UNCHANGED <<sessVars, clientVars, pres, snap>>

\* Another revocation of the session (RevokeToken, RevokeSubject), or its end.
SessionEnds ==
  /\ live
  /\ live' = FALSE
  /\ UNCHANGED <<tid, grace, claimed, reused, late, clientVars, req, pres, snap>>

-----------------------------------------------------------------------------

Next ==
  \/ \E q \in Reqs : \/ Send(q) \/ Receive(q) \/ GiveUp(q)
                     \/ Verify(q) \/ Rotate(q) \/ WithinGrace(q) \/ Revoke(q)
                     \/ Active(q) \/ NotActive(q) \/ Unavailable(q)
  \/ \E t \in Tids : GraceEnds(t)
  \/ NeedsRefresh \/ SessionEnds

Spec == Init /\ [][Next]_vars

-----------------------------------------------------------------------------

\* The file is at most one rotation behind the server: whatever answers are
\* lost, the client can only present the current token or the one before,
\* which is the one the grace period forgives (write under the lock, rotate
\* by compare and swap).
ClientWithinOne == tid \in {file, file + 1}

\* A session that was revoked stays revoked: a rotation that read it before
\* does not put it back (RotateTokenSession).
StaysRevoked == ~live => ~live'
=============================================================================
