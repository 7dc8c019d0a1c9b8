---------------------------- MODULE FlowRevocation ----------------------------
(***************************************************************************)
(* Flows of sessions that end: the session half of Tracker in              *)
(* connect/flows (Track, Attach, Revoke and the sweep loop), with          *)
(* RevokeSession, publish and deliver of identity and the bus in between.  *)
(*                                                                         *)
(* A session ends by a revocation, which is delivered to the subscribers   *)
(* of its pod and published to the other pods, or by expiring, which tells *)
(* nobody.  Every flow is tracked before its session is looked up.         *)
(***************************************************************************)
EXTENDS Naturals, FiniteSets

CONSTANTS
  Pods,       \* the server processes
  Flows,      \* flows
  Sessions,   \* token sessions
  NoSession,  \* the empty session id of an agent's own flow
  flowPod,    \* flowPod[f]: the pod that carries f
  flowSess,   \* flowSess[f]: its session, or NoSession
  home,       \* home[s]: the pod that serves the revocation of s
  Lossy       \* the pods whose event subscription may miss an event

VARIABLES
  live,      \* sessions in the session store that have not expired
  revoking,  \* revoking[s]: where the revocation of s stands
  inbox,     \* inbox[p]: revoked sessions on the bus for pod p
  flow,      \* where the handler of a flow stands
  tracked,   \* Tracker.flows
  revoked,   \* the flows whose revoked flag is set
  sweeping,  \* the pods whose Tracker.sweeping is set
  loop,      \* loop[p]: the sweep loop
  refs       \* refs[p]: sessions the sweep has still to look up

vars == <<live, revoking, inbox, flow, tracked, revoked, sweeping, loop, refs>>
flowVars == <<flow, tracked, revoked>>
sweepVars == <<sweeping, loop, refs>>

TypeOK ==
  /\ live \subseteq Sessions
  /\ revoking \in [Sessions -> {"no", "deliver", "publish", "done"}]
  /\ inbox \in [Pods -> SUBSET Sessions]
  /\ flow \in [Flows -> {"new", "tracked", "checked", "spliced", "closed"}]
  /\ tracked \subseteq Flows
  /\ revoked \subseteq Flows
  /\ sweeping \subseteq Pods
  /\ loop \in [Pods -> {"off", "wait", "sweep"}]
  /\ refs \in [Pods -> SUBSET Sessions]

Init ==
  /\ live = Sessions
  /\ revoking = [s \in Sessions |-> "no"]
  /\ inbox = [p \in Pods |-> {}]
  /\ flow = [f \in Flows |-> "new"]
  /\ tracked = {}
  /\ revoked = {}
  /\ sweeping = {}
  /\ loop = [p \in Pods |-> "off"]
  /\ refs = [p \in Pods |-> {}]

\* The flows at pod p that are tracked.
At(p) == {f \in tracked : flowPod[f] = p}

-----------------------------------------------------------------------------
(* The handler of a flow.                                                  *)

\* Track: the first flow of a session at a pod starts the sweep loop.
Track(f) ==
  LET p == flowPod[f]
      startSweep == flowSess[f] # NoSession /\ p \notin sweeping
  IN
  /\ flow[f] = "new"
  /\ flow' = [flow EXCEPT ![f] = "tracked"]
  /\ tracked' = tracked \cup {f}
  /\ sweeping' = IF startSweep THEN sweeping \cup {p} ELSE sweeping
  /\ loop' = IF startSweep THEN [loop EXCEPT ![p] = "wait"] ELSE loop
  /\ UNCHANGED <<live, revoking, inbox, revoked, refs>>

BugSkipLookup(f) ==
  /\ flow[f] = "tracked"
  /\ flow' = [flow EXCEPT ![f] = "checked"]
  /\ UNCHANGED <<live, revoking, inbox, tracked, revoked, sweepVars>>

\* The session facts of the decision, or GetTokenSession in trackUpgrade.
Lookup(f) ==
  /\ flow[f] = "tracked"
  /\ flowSess[f] \in live \cup {NoSession}
  /\ flow' = [flow EXCEPT ![f] = "checked"]
  /\ UNCHANGED <<live, revoking, inbox, tracked, revoked, sweepVars>>

\* Attach, after the dial or the handshake.
Attach(f) ==
  /\ flow[f] = "checked"
  /\ f \notin revoked
  /\ flow' = [flow EXCEPT ![f] = "spliced"]
  /\ UNCHANGED <<live, revoking, inbox, tracked, revoked, sweepVars>>

\* Refused or ended: untrack, and the connections are closed.
Close(f) ==
  /\ flow[f] \in {"tracked", "checked", "spliced"}
  /\ flow' = [flow EXCEPT ![f] = "closed"]
  /\ tracked' = tracked \ {f}
  /\ UNCHANGED <<live, revoking, inbox, revoked, sweepVars>>

-----------------------------------------------------------------------------
(* The end of a session.                                                   *)

\* RevokeSession: the session is deleted before anybody is told.
RevokeSession(s) ==
  /\ s \in live
  /\ live' = live \ {s}
  /\ revoking' = [revoking EXCEPT ![s] = "deliver"]
  /\ UNCHANGED <<inbox, flowVars, sweepVars>>

\* Tracker.Revoke: the flows tracked now.
Revoke(p, s) == revoked' = revoked \cup {f \in At(p) : flowSess[f] = s}

\* publish: deliver to the subscribers of this pod ...
Deliver(s) ==
  /\ revoking[s] = "deliver"
  /\ revoking' = [revoking EXCEPT ![s] = "publish"]
  /\ Revoke(home[s], s)
  /\ UNCHANGED <<live, inbox, flow, tracked, sweepVars>>

\* ... then broadcastRevocation.
Broadcast(s) ==
  /\ revoking[s] = "publish"
  /\ revoking' = [revoking EXCEPT ![s] = "done"]
  /\ \E missing \in SUBSET (Lossy \ {home[s]}) :
       inbox' = [p \in Pods |-> IF p \in missing \cup {home[s]} THEN inbox[p]
                                                              ELSE inbox[p] \cup {s}]
  /\ UNCHANGED <<live, flowVars, sweepVars>>

HandleRemoteRevoke(p, s) ==
  /\ s \in inbox[p]
  /\ inbox' = [inbox EXCEPT ![p] = @ \ {s}]
  /\ Revoke(p, s)
  /\ UNCHANGED <<live, revoking, flow, tracked, sweepVars>>

ExpireSession(s) ==
  /\ s \in live
  /\ live' = live \ {s}
  /\ UNCHANGED <<revoking, inbox, flowVars, sweepVars>>

-----------------------------------------------------------------------------
(* The sweep.                                                              *)

\* A tick: liveSessions collects the sessions, or ends the loop.
LiveSessions(p) ==
  /\ loop[p] = "wait"
  /\ IF At(p) = {}
     THEN /\ loop' = [loop EXCEPT ![p] = "off"]
          /\ sweeping' = sweeping \ {p}
          /\ UNCHANGED refs
     ELSE /\ loop' = [loop EXCEPT ![p] = "sweep"]
          /\ refs' = [refs EXCEPT ![p] =
               {flowSess[f] : f \in At(p) \ revoked} \ {NoSession}]
          /\ UNCHANGED sweeping
  /\ UNCHANGED <<live, revoking, inbox, flowVars>>

BugSweepLive(p, s) ==
  /\ s \in refs[p]
  /\ refs' = [refs EXCEPT ![p] = @ \ {s}]
  /\ UNCHANGED <<live, revoking, inbox, flowVars, sweeping, loop>>

\* sweepSession: SessionActive answers.
SweepSession(p, s) ==
  /\ s \in refs[p]
  /\ refs' = [refs EXCEPT ![p] = @ \ {s}]
  /\ IF s \in live THEN UNCHANGED revoked ELSE Revoke(p, s)
  /\ UNCHANGED <<live, revoking, inbox, flow, tracked, sweeping, loop>>

\* sweepSession: the session store does not answer.
SweepFails(p, s) ==
  /\ s \in refs[p]
  /\ refs' = [refs EXCEPT ![p] = @ \ {s}]
  /\ UNCHANGED <<live, revoking, inbox, flowVars, sweeping, loop>>

NextTick(p) ==
  /\ loop[p] = "sweep"
  /\ refs[p] = {}
  /\ loop' = [loop EXCEPT ![p] = "wait"]
  /\ UNCHANGED <<live, revoking, inbox, flowVars, sweeping, refs>>

-----------------------------------------------------------------------------

Next ==
  \/ \E f \in Flows : Track(f) \/ Lookup(f) \/ Attach(f) \/ Close(f)
  \/ \E s \in Sessions : RevokeSession(s) \/ Deliver(s) \/ Broadcast(s) \/ ExpireSession(s)
  \/ \E p \in Pods, s \in Sessions :
       HandleRemoteRevoke(p, s) \/ SweepSession(p, s) \/ SweepFails(p, s)
  \/ \E p \in Pods : LiveSessions(p) \/ NextTick(p)

Spec == Init /\ [][Next]_vars

-----------------------------------------------------------------------------

\* A revoked session's spliced flow is marked, or the revocation is on its way
\* to the flow's pod: a flow that is being set up while its session is revoked
\* is either seen by Revoke or sees the session gone (Track before the lookup,
\* delete before publish).
RevokedFlowNoticed ==
  \A f \in Flows :
    LET s == flowSess[f]
        p == flowPod[f]
    IN flow[f] = "spliced" /\ s # NoSession /\ p \notin Lossy =>
         \/ revoking[s] = "no" \/ f \in revoked
         \/ revoking[s] = "deliver"
         \/ p # home[s] /\ (revoking[s] = "publish" \/ s \in inbox[p])

\* The flow of a session that is gone ends, even at a pod that missed the
\* event or when the session just expired.
EndedFlowCloses ==
  \A f \in Flows :
    (flow[f] = "spliced" /\ flowSess[f] \notin live \cup {NoSession}) ~>
      flow[f] = "closed"
=============================================================================
