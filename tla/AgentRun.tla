------------------------------ MODULE AgentRun ------------------------------
(***************************************************************************)
(* The agent's connection loop: Agent.Run, connectOnce, readControl,       *)
(* handleAck, pingLoop and handleStream of agent/agent.go, with a gateway  *)
(* that acknowledges registrations and opens streams.                      *)
(*                                                                         *)
(* Control messages and data streams of a session are not ordered: the     *)
(* gateway opens a stream for an endpoint as soon as it has registered it. *)
(* The goroutine that reads a session's control stream may have an         *)
(* acknowledgement in hand when the session, and even the next one, is     *)
(* over.                                                                   *)
(***************************************************************************)
EXTENDS Naturals, FiniteSets

CONSTANTS
  Refs,      \* the configured endpoints
  Static,    \* those that keep their endpoint id from session to session
  Streams,   \* streams the gateway opens
  MaxSess    \* bound on the sessions

Sessions == 1..MaxSess
EndpointID(r, s) == <<r, IF r \in Static THEN 0 ELSE s>>
IDs == Refs \X (0..MaxSess)

\* initialBackoff and maxBackoff, in seconds
InitialBackoff == 1
MaxBackoff == 30
Min2(a, b) == IF a < b THEN a ELSE b

VARIABLES
  phase,       \* where Run stands: dialing, up, ended, sleeping or stopped
  sess,        \* the number of sessions so far
  backoff,     \* Run's backoff
  cause,       \* the cause that Run's context was cancelled with
  fate,        \* how Run ended
  ack,         \* ack[s]: the acknowledgement: none, sent, read or handled
  bindings,    \* bindings[s]: the endpoints the gateway registered
  acked,       \* Agent.acked
  targets,     \* Agent.targets: the endpoint ids with a local target
  registered,  \* the sessions whose registered channel is closed
  streams      \* the streams: their session, endpoint id, state

vars == <<phase, sess, backoff, cause, fate, ack, bindings, acked, targets, registered, streams>>
loopVars == <<phase, sess, backoff, fate>>
ackVars == <<ack, bindings, acked, targets, registered>>

NoStream == [st |-> "none", sess |-> 1, id |-> CHOOSE i \in IDs : TRUE]

TypeOK ==
  /\ phase \in {"dialing", "up", "ended", "sleeping", "stopped"}
  /\ sess \in 0..MaxSess
  /\ backoff \in InitialBackoff..MaxBackoff
  /\ cause \in {"none", "login", "registration", "parent"}
  /\ fate \in {"running", "login", "registration", "parent", "rejected"}
  /\ ack \in [Sessions -> {"none", "sent", "read", "handled"}]
  /\ bindings \in [Sessions -> SUBSET Refs]
  /\ acked \in BOOLEAN
  /\ targets \subseteq IDs
  /\ registered \subseteq Sessions
  /\ streams \in [Streams -> [st : {"none", "waiting", "ready", "late", "served", "refused"},
                              sess : Sessions, id : IDs]]

Init ==
  /\ phase = "dialing" /\ sess = 0 /\ backoff = InitialBackoff
  /\ cause = "none" /\ fate = "running"
  /\ ack = [s \in Sessions |-> "none"]
  /\ bindings = [s \in Sessions |-> {}]
  /\ acked = FALSE /\ targets = {} /\ registered = {}
  /\ streams = [x \in Streams |-> NoStream]

Cancelled == cause # "none"

\* context.WithCancelCause keeps the first cause.
Cancel(c) == cause' = IF Cancelled THEN cause ELSE c

-----------------------------------------------------------------------------
(* connectOnce                                                             *)

\* No credentials any more: fail and return.
LoginRequired ==
  /\ phase = "dialing"
  /\ phase' = "ended"
  /\ Cancel("login")
  /\ UNCHANGED <<sess, backoff, fate, ackVars, streams>>

\* A dial, or the set-up of the session, fails.
DialFails ==
  /\ phase = "dialing"
  /\ phase' = "ended"
  /\ UNCHANGED <<sess, backoff, cause, fate, ackVars, streams>>

\* The gateway refuses the token (classifyDialError), after the causes of the
\* context were looked at.
DialRejected ==
  /\ phase = "dialing" /\ ~Cancelled
  /\ phase' = "stopped" /\ fate' = "rejected"
  /\ UNCHANGED <<sess, backoff, cause, ackVars, streams>>

Connect ==
  /\ phase = "dialing" /\ ~Cancelled
  /\ sess < MaxSess
  /\ phase' = "up"
  /\ sess' = sess + 1
  /\ UNCHANGED <<backoff, cause, fate, ackVars, streams>>

\* The session breaks, pingLoop finds that the host was suspended, or the
\* context is cancelled.
SessionEnds ==
  /\ phase = "up"
  /\ phase' = "ended"
  /\ UNCHANGED <<sess, backoff, cause, fate, ackVars, streams>>

-----------------------------------------------------------------------------
(* Run                                                                     *)

BugRetryForever ==
  /\ phase = "ended"
  /\ phase' = "sleeping"
  /\ \E stable \in BOOLEAN : backoff' = IF stable THEN InitialBackoff ELSE backoff
  /\ UNCHANGED <<sess, cause, fate, ackVars, streams>>

\* connectOnce has returned: stop, or sleep for about backoff; a session that
\* lasted stableSessionAfter starts over.
Returned ==
  /\ phase = "ended"
  /\ \/ /\ Cancelled
        /\ phase' = "stopped" /\ fate' = cause
        /\ UNCHANGED backoff
     \/ /\ ~Cancelled
        /\ phase' = "sleeping"
        /\ \E stable \in BOOLEAN : backoff' = IF stable THEN InitialBackoff ELSE backoff
        /\ UNCHANGED fate
  /\ UNCHANGED <<sess, cause, ackVars, streams>>

\* The delay is over, or the context is.
Awake ==
  /\ phase = "sleeping"
  /\ \/ /\ phase' = "dialing"
        /\ backoff' = Min2(2 * backoff, MaxBackoff)
        /\ UNCHANGED fate
     \/ /\ Cancelled
        /\ phase' = "stopped" /\ fate' = cause
        /\ UNCHANGED backoff
  /\ UNCHANGED <<sess, cause, ackVars, streams>>

\* The process is asked to stop.
Stop ==
  /\ ~Cancelled
  /\ cause' = "parent"
  /\ UNCHANGED <<loopVars, ackVars, streams>>

-----------------------------------------------------------------------------
(* The gateway and readControl                                             *)

Register ==
  /\ phase = "up" /\ ack[sess] = "none"
  /\ \E ok \in SUBSET Refs : bindings' = [bindings EXCEPT ![sess] = ok]
  /\ ack' = [ack EXCEPT ![sess] = "sent"]
  /\ UNCHANGED <<loopVars, cause, acked, targets, registered, streams>>

\* readControl receives the acknowledgement.
Recv(s) ==
  /\ ack[s] = "sent" /\ phase = "up" /\ s = sess
  /\ ack' = [ack EXCEPT ![s] = "read"]
  /\ UNCHANGED <<loopVars, cause, bindings, acked, targets, registered, streams>>

BugCloseFirst(s) ==
  /\ ack[s] = "read"
  /\ ack' = [ack EXCEPT ![s] = IF s \in registered THEN "handled" ELSE "read"]
  /\ registered' = registered \cup {s}
  /\ IF s \in registered
     THEN targets' = targets \cup {EndpointID(r, s) : r \in bindings[s]}
     ELSE UNCHANGED targets
  /\ UNCHANGED <<loopVars, cause, bindings, acked, streams>>

BugForgetAck(s) ==
  LET failed == Refs \ bindings[s] IN
  /\ ack[s] = "read"
  /\ ack' = [ack EXCEPT ![s] = "handled"]
  /\ targets' = targets \cup {EndpointID(r, s) : r \in bindings[s]}
  /\ IF failed # {} /\ ~acked THEN Cancel("registration") /\ acked' = TRUE
     ELSE UNCHANGED <<cause, acked>>
  /\ registered' = registered \cup {s}
  /\ UNCHANGED <<loopVars, bindings, streams>>

\* handleAck: the targets of the registered endpoints; failures are fatal in
\* the first acknowledgement only; then the registered channel is closed.
handleAck(s) ==
  LET failed == Refs \ bindings[s] IN
  /\ ack[s] = "read"
  /\ ack' = [ack EXCEPT ![s] = "handled"]
  /\ targets' = targets \cup {EndpointID(r, s) : r \in bindings[s]}
  /\ IF failed # {} /\ ~acked THEN Cancel("registration") ELSE UNCHANGED cause
  /\ acked' = TRUE
  /\ registered' = registered \cup {s}
  /\ UNCHANGED <<loopVars, bindings, streams>>

-----------------------------------------------------------------------------
(* handleStream                                                            *)

Accept(x) ==
  /\ streams[x].st = "none"
  /\ phase = "up" /\ ack[sess] # "none"
  /\ \E r \in bindings[sess] :
       streams' = [streams EXCEPT ![x] = [st |-> "waiting", sess |-> sess, id |-> EndpointID(r, sess)]]
  /\ UNCHANGED <<loopVars, cause, ackVars>>

\* The wait for the registration ends: with it, or after registrationWait.
Proceed(x) ==
  /\ streams[x].st = "waiting"
  /\ \/ /\ streams[x].sess \in registered
        /\ streams' = [streams EXCEPT ![x].st = "ready"]
     \/ /\ streams[x].sess \notin registered
        /\ streams' = [streams EXCEPT ![x].st = "late"]
  /\ UNCHANGED <<loopVars, cause, ackVars>>

\* resolveStreamTarget, for the target of the endpoint; a stream that waited in
\* vain is over either way.
Resolve(x) ==
  /\ streams[x].st \in {"ready", "late"}
  /\ \/ /\ streams[x].id \in targets
        /\ streams' = [streams EXCEPT ![x].st = "served"]
     \/ /\ streams[x].id \notin targets
        /\ streams' = [streams EXCEPT ![x].st = IF @ = "late" THEN "none" ELSE "refused"]
  /\ UNCHANGED <<loopVars, cause, ackVars>>

-----------------------------------------------------------------------------

Next ==
  \/ LoginRequired \/ DialFails \/ DialRejected \/ Connect \/ SessionEnds
  \/ Returned \/ Awake \/ Stop \/ Register
  \/ \E s \in Sessions : Recv(s) \/ handleAck(s)
  \/ \E x \in Streams : Accept(x) \/ Proceed(x) \/ Resolve(x)

Spec == Init /\ [][Next]_vars

RunStep ==
  \/ Connect \/ DialFails \/ DialRejected \/ Returned \/ Awake
  \/ Cancelled /\ SessionEnds

-----------------------------------------------------------------------------

\* A stream for an endpoint that the gateway registered is refused as unknown
\* only if it waited for the acknowledgement in vain: handleAck stores the
\* targets before the channel that streams wait for is closed.
RegisteredStreamServed ==
  \A x \in Streams : streams[x].st # "refused"

\* Failed endpoints end the agent in its first acknowledgement only: an agent
\* that was acknowledged once keeps running whatever later sessions, or late
\* acknowledgements of earlier ones, say (Agent.acked).
FirstAckOnly ==
  cause' = "registration" /\ cause = "none" => \A s \in Sessions : ack[s] # "handled"

\* A fatal cause, whoever sets it and whenever, ends Run; after a transient
\* failure the loop goes on until a session is up again.
StopsOrReconnects ==
  /\ (cause # "none") ~> (phase = "stopped")
  /\ (phase = "sleeping") ~> (phase \in {"up", "stopped"} \/ sess = MaxSess)
=============================================================================
