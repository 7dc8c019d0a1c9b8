---------------------------- MODULE AgentSessions ----------------------------
(***************************************************************************)
(* The tunnel sessions of one agent across the gateway pods of a cluster:  *)
(* HandleAgentConnect and serve of internal/gateway, the redis-backed      *)
(* ClusterConnStore that records which pod owns the agent, the clean-up of *)
(* ephemeral endpoints after a disconnect, the startup sweep, and drain.   *)
(*                                                                         *)
(* Every redis key and every map entry these handlers touch is keyed by    *)
(* the agent's id, so the sessions of different agents do not interact and *)
(* the module follows a single agent.  Virtual (cluster-local) agents are  *)
(* left out: the handlers below return before they reach redis for those.  *)
(***************************************************************************)
EXTENDS Integers, FiniteSets, TLC

CONSTANTS
    Nodes,       \* gateway pods
    Conns,       \* tunnel sessions the agent opens, each used once
    Sweepers,    \* pod start-ups, each runs SweepOrphanedEphemeral once
    Drainers,    \* pod shutdowns, each runs Drain once
    Endpoints,   \* endpoint ids
    Ephemeral,   \* the endpoints with the ephemeral lifecycle
    Named,       \* the endpoints a later session finds again by name
    HomesOf,     \* HomesOf[c]: the pods the load balancer may give session c
    NoNode, NoConn, NoEp,
    MaxFaults,   \* bound on redis errors, lost kicks, wipes and crashes
    MaxForced    \* bound on forced kicks (RemoteAgent.Close)

ASSUME ConstantsAssumption ==
    /\ NoNode \notin Nodes /\ NoConn \notin Conns /\ NoEp \notin Endpoints
    /\ Conns \cap Sweepers = {} /\ Conns \cap Drainers = {}
    /\ Sweepers \cap Drainers = {}
    /\ HomesOf \in [Conns -> SUBSET Nodes]
    /\ Ephemeral \subseteq Endpoints /\ Named \subseteq Endpoints
    /\ MaxFaults \in Nat /\ MaxForced \in Nat

VARIABLES
    pc,        \* pc[w]: where the goroutine of worker w stands
    home,      \* home[w]: the pod worker w runs on
    open,      \* the sessions whose tunnel is open
    victim,    \* victim[w]: the session w has taken out of the map to close
    reg,       \* reg[c]: the endpoint session c is registering
    todo,      \* todo[w]: endpoints (or their keys) w has still to handle
    cur,       \* cur[w]: the endpoint w is deciding about
    agents,    \* agents[n]: c.agents of pod n, the session it serves
    bound,     \* bound[n]: c.endpoints of pod n
    hb,        \* hb[n]: the session heartbeat has in its snapshot
    kicking,   \* kicking[n]: the session handleKick is about to decide on
    owner,     \* redis: the pod in the agent's ownership key
    epKey,     \* redis: the endpoints whose binding key exists
    kicks,     \* redis pub/sub: plain kicks on their way to each pod
    forced,    \* redis pub/sub: forced kicks on their way to each pod
    eps,       \* database: the endpoint rows of the agent
    creator,   \* history: the session that created each row
    latest,    \* history: the last session whose claim reached redis
    faults,    \* faults injected so far
    forcedN    \* forced kicks sent so far

sessVars  == <<home, open, victim, reg>>
taskVars  == <<todo, cur>>
podVars   == <<agents, bound>>
loopVars  == <<hb, kicking>>
redisVars == <<owner, epKey>>
msgVars   == <<kicks, forced>>
dbVars    == <<eps, creator>>
auxVars   == <<latest, faults, forcedN>>
vars == <<pc, sessVars, taskVars, podVars, loopVars, redisVars, msgVars,
          dbVars, auxVars>>

Workers == Conns \cup Sweepers \cup Drainers

InMap == {"super", "serve", "bind", "bindkey"}
Stage == InMap \cup {"off", "claim", "insert", "remove", "release", "delkeys",
                     "chk1", "chk2", "chk3", "list", "pick", "del", "done",
                     "exit"}

TypeOK ==
    /\ pc \in [Workers -> Stage]
    /\ home \in [Workers -> Nodes \cup {NoNode}]
    /\ open \subseteq Conns
    /\ victim \in [Workers -> Conns \cup {NoConn}]
    /\ reg \in [Conns -> Endpoints \cup {NoEp}]
    /\ todo \in [Workers -> SUBSET Endpoints]
    /\ cur \in [Workers -> Endpoints \cup {NoEp}]
    /\ agents \in [Nodes -> Conns \cup {NoConn}]
    /\ bound \in [Nodes -> SUBSET Endpoints]
    /\ hb \in [Nodes -> Conns \cup {NoConn}]
    /\ kicking \in [Nodes -> Conns \cup {NoConn}]
    /\ owner \in Nodes \cup {NoNode}
    /\ epKey \subseteq Endpoints
    /\ kicks \in [Nodes -> Nat]
    /\ forced \in [Nodes -> Nat]
    /\ eps \subseteq Endpoints
    /\ creator \in [Endpoints -> Conns \cup {NoConn}]
    /\ latest \in Conns \cup {NoConn}
    /\ faults \in 0 .. MaxFaults
    /\ forcedN \in 0 .. MaxForced

Init ==
    /\ pc = [w \in Workers |-> "off"]
    /\ home = [w \in Workers |-> NoNode]
    /\ open = {}
    /\ victim = [w \in Workers |-> NoConn]
    /\ reg = [c \in Conns |-> NoEp]
    /\ todo = [w \in Workers |-> {}]
    /\ cur = [w \in Workers |-> NoEp]
    /\ agents = [n \in Nodes |-> NoConn]
    /\ bound = [n \in Nodes |-> {}]
    /\ hb = [n \in Nodes |-> NoConn]
    /\ kicking = [n \in Nodes |-> NoConn]
    /\ owner = NoNode
    /\ epKey = {}
    /\ kicks = [n \in Nodes |-> 0]
    /\ forced = [n \in Nodes |-> 0]
    /\ eps = {}
    /\ creator = [e \in Endpoints |-> NoConn]
    /\ latest = NoConn
    /\ faults = 0
    /\ forcedN = 0

(***************************************************************************)
(* Faults.  Fault is a conjunct of every step a redis error, a lost        *)
(* message or a crash makes possible; MaxFaults bounds how many happen.    *)
(***************************************************************************)
Fault   == faults < MaxFaults /\ faults' = faults + 1
NoFault == UNCHANGED faults

Goto(w, s) == pc' = [pc EXCEPT ![w] = s]

\* conn.Close(), of no effect when there is no session to close.
Close(x) == open' = open \ {x}

\* A pod accepts agents from the moment its startup sweep has ended until
\* it drains.
Starting(n) == \E s \in Sweepers : home[s] = n /\ pc[s] \notin {"off", "done"}
Draining(n) == \E d \in Drainers : home[d] = n /\ pc[d] \notin {"off", "done"}

(***************************************************************************)
(* A session's life: HandleAgentConnect, AddAgent, serve.                  *)
(***************************************************************************)
Dial(c, n) ==
    /\ pc[c] = "off" /\ n \in HomesOf[c]
    /\ ~Starting(n) /\ ~Draining(n)
    /\ home' = [home EXCEPT ![c] = n]
    /\ open' = open \cup {c}
    /\ Goto(c, "claim")
    /\ UNCHANGED <<victim, reg, taskVars, podVars, loopVars, redisVars,
                   msgVars, dbVars, auxVars>>

\* swapOwnerScript: SET the key to this pod and learn the previous owner; a
\* kick goes to the previous owner unless that is this very pod.
claimAgent(c) ==
    /\ pc[c] = "claim"
    /\ Goto(c, "insert")
    /\ \/ /\ owner' = home[c] /\ latest' = c
          /\ \/ /\ kicks' = IF owner \in Nodes \ {home[c]}
                            THEN [kicks EXCEPT ![owner] = @ + 1] ELSE kicks
                /\ NoFault
             \/ owner \in Nodes \ {home[c]} /\ Fault /\ UNCHANGED kicks
       \/ Fault /\ UNCHANGED <<owner, latest, kicks>>
    /\ UNCHANGED <<sessVars, taskVars, podVars, loopVars, epKey, forced,
                   dbVars, forcedN>>

AddAgent(c) ==
    /\ pc[c] = "insert"
    /\ victim' = [victim EXCEPT ![c] = agents[home[c]]]
    /\ agents' = [agents EXCEPT ![home[c]] = c]
    /\ Goto(c, "super")
    /\ UNCHANGED <<home, open, reg, taskVars, bound, loopVars, redisVars,
                   msgVars, dbVars, auxVars>>

CloseSuperseded(c) ==
    /\ pc[c] = "super"
    /\ Close(victim[c])
    /\ victim' = [victim EXCEPT ![c] = NoConn]
    /\ Goto(c, "serve")
    /\ UNCHANGED <<home, reg, taskVars, podVars, loopVars, redisVars,
                   msgVars, dbVars, auxVars>>

\* The network drops the tunnel, the agent closes it, or no control stream
\* arrives within firstControlTimeout.
Drop(c) ==
    /\ c \in open /\ Close(c)
    /\ UNCHANGED <<pc, home, victim, reg, taskVars, podVars, loopVars,
                   redisVars, msgVars, dbVars, auxVars>>

\* createEndpoint: a row with a new id, then BindEndpoint.
RegisterNew(c, e) ==
    /\ pc[c] = "serve" /\ c \in open
    /\ creator[e] = NoConn
    /\ eps' = eps \cup {e}
    /\ creator' = [creator EXCEPT ![e] = c]
    /\ reg' = [reg EXCEPT ![c] = e]
    /\ Goto(c, "bind")
    /\ UNCHANGED <<home, open, victim, taskVars, podVars, loopVars, redisVars,
                   msgVars, auxVars>>

\* bindExisting: the row of an earlier session is found by its name.
RegisterExisting(c, e) ==
    /\ pc[c] = "serve" /\ c \in open
    /\ e \in eps \cap Named
    /\ reg' = [reg EXCEPT ![c] = e]
    /\ Goto(c, "bind")
    /\ UNCHANGED <<home, open, victim, taskVars, podVars, loopVars, redisVars,
                   msgVars, dbVars, auxVars>>

BindEndpoint(c) ==
    \/ /\ pc[c] = "bind"
       /\ bound' = [bound EXCEPT ![home[c]] = @ \cup {reg[c]}]
       /\ Goto(c, "bindkey")
       /\ UNCHANGED <<sessVars, taskVars, agents, loopVars, redisVars, msgVars,
                      dbVars, auxVars>>
    \/ /\ pc[c] = "bindkey"
       /\ \/ epKey' = epKey \cup {reg[c]} /\ NoFault
          \/ Fault /\ UNCHANGED epKey
       /\ reg' = [reg EXCEPT ![c] = NoEp]
       /\ Goto(c, "serve")
       /\ UNCHANGED <<home, open, victim, taskVars, podVars, loopVars, owner,
                      msgVars, dbVars, latest, forcedN>>

\* ctrl.Recv fails: the session was closed, or only its control stream was.
EndServe(c) ==
    /\ pc[c] = "serve"
    /\ Goto(c, "remove")
    /\ UNCHANGED <<sessVars, taskVars, podVars, loopVars, redisVars, msgVars,
                   dbVars, auxVars>>

(***************************************************************************)
(* RemoveAgent, called by serve's deferred function for its own session    *)
(* and by Drain for the sessions it found.                                 *)
(***************************************************************************)
Removed(w) == IF w \in Conns THEN w ELSE victim[w]

BugRemoveAny(w)   == TRUE
BugRemoveNever(w) == FALSE

\* The entry in the map is still the session to be removed.
Holds(w) == agents[home[w]] = Removed(w)

\* serve closes the session once RemoveAgent has returned, then cleans up;
\* Drain is followed by the exit of the process.
AfterRemove(w) ==
    /\ Goto(w, IF w \in Conns THEN "chk1" ELSE "exit")
    /\ Close(w)
    /\ todo' = [todo EXCEPT ![w] = {}]

RemoveAgent(w) ==
    /\ pc[w] = "remove"
    /\ LET n == home[w] IN
       \/ /\ ~Holds(w)
          /\ AfterRemove(w)
          /\ UNCHANGED podVars
       \/ /\ Holds(w)
          /\ agents' = [agents EXCEPT ![n] = NoConn]
          /\ todo' = [todo EXCEPT ![w] = bound[n]]
          /\ bound' = [bound EXCEPT ![n] = {}]
          /\ Goto(w, "release")
          /\ UNCHANGED open
    /\ UNCHANGED <<home, victim, reg, cur, loopVars, redisVars, msgVars,
                   dbVars, auxVars>>

BugReleaseAny(w) == owner # NoNode

\* releaseOwnerScript: DEL the key if it still names this pod.
Owns(w) == owner = home[w]

releaseOwner(w) ==
    /\ pc[w] = "release"
    /\ \/ /\ Owns(w)
          /\ owner' = NoNode
          /\ Goto(w, "delkeys")
          /\ NoFault /\ UNCHANGED <<open, todo>>
       \/ ~Owns(w) /\ AfterRemove(w) /\ NoFault /\ UNCHANGED owner
       \/ Fault /\ AfterRemove(w) /\ UNCHANGED owner
    /\ UNCHANGED <<home, victim, reg, cur, podVars, loopVars, epKey, msgVars,
                   dbVars, latest, forcedN>>

DelEndpointKeys(w) ==
    /\ pc[w] = "delkeys"
    /\ \/ \E e \in todo[w] :
             /\ todo' = [todo EXCEPT ![w] = @ \ {e}]
             /\ \/ epKey' = epKey \ {e} /\ NoFault
                \/ Fault /\ UNCHANGED epKey
             /\ UNCHANGED <<pc, open>>
       \/ todo[w] = {} /\ AfterRemove(w) /\ NoFault /\ UNCHANGED epKey
    /\ UNCHANGED <<home, victim, reg, cur, podVars, loopVars, owner, msgVars,
                   dbVars, latest, forcedN>>

(***************************************************************************)
(* cleanupEphemeral and SweepOrphanedEphemeral.  agentHasLiveSession reads *)
(* the pod's own map, then redis (remoteAgent), then redis once more       *)
(* (OwnedElsewhere); serve asks it once before it lists the endpoints and  *)
(* again before each endpoint, the sweep asks it for each endpoint.        *)
(***************************************************************************)
BugNeverElsewhere(n) == FALSE

OwnerElsewhere(n) == owner \in Nodes \ {n}

\* serve and cleanupEphemeral return, the sweep goes on to the next endpoint.
Live(w) ==
    /\ Goto(w, IF w \in Conns THEN "done" ELSE "pick")
    /\ todo' = [todo EXCEPT ![w] = IF w \in Conns THEN {} ELSE @ \ {cur[w]}]
    /\ cur' = [cur EXCEPT ![w] = NoEp]

NotLive(w) ==
    /\ Goto(w, IF cur[w] = NoEp THEN "list" ELSE "del")
    /\ UNCHANGED taskVars

agentHasLiveSession(w) ==
    /\ LET n == home[w] IN
       \/ /\ pc[w] = "chk1" /\ NoFault
          /\ \/ agents[n] # NoConn /\ Live(w)
             \/ agents[n] = NoConn /\ Goto(w, "chk2") /\ UNCHANGED taskVars
       \/ /\ pc[w] = "chk2"
          /\ \/ OwnerElsewhere(n) /\ Live(w) /\ NoFault
             \/ ~OwnerElsewhere(n) /\ Goto(w, "chk3") /\ NoFault /\ UNCHANGED taskVars
             \/ Fault /\ Goto(w, "chk3") /\ UNCHANGED taskVars
       \/ /\ pc[w] = "chk3"
          /\ \/ OwnerElsewhere(n) /\ Live(w) /\ NoFault
             \/ ~OwnerElsewhere(n) /\ NotLive(w) /\ NoFault
             \/ Fault /\ Live(w)
    /\ UNCHANGED <<sessVars, podVars, loopVars, redisVars, msgVars,
                   dbVars, latest, forcedN>>

ListEndpoints(w) ==
    /\ pc[w] = "list"
    /\ todo' = [todo EXCEPT ![w] = eps]
    /\ Goto(w, "pick")
    /\ UNCHANGED <<sessVars, cur, podVars, loopVars, redisVars, msgVars,
                   dbVars, auxVars>>

NextEndpoint(w) ==
    /\ pc[w] = "pick"
    /\ \/ \E e \in todo[w] :
             IF w \in Sweepers /\ e \notin Ephemeral
             THEN /\ todo' = [todo EXCEPT ![w] = @ \ {e}]
                  /\ UNCHANGED <<pc, cur>>
             ELSE /\ cur' = [cur EXCEPT ![w] = e]
                  /\ Goto(w, "chk1")
                  /\ UNCHANGED todo
       \/ todo[w] = {} /\ Goto(w, "done") /\ UNCHANGED <<todo, cur>>
    /\ UNCHANGED <<sessVars, podVars, loopVars, redisVars, msgVars, dbVars,
                   auxVars>>

DeleteEndpoint(w) ==
    /\ pc[w] = "del"
    /\ eps' = eps \ ({cur[w]} \cap Ephemeral)
    /\ todo' = [todo EXCEPT ![w] = @ \ {cur[w]}]
    /\ cur' = [cur EXCEPT ![w] = NoEp]
    /\ Goto(w, "pick")
    /\ UNCHANGED <<sessVars, podVars, loopVars, redisVars, msgVars, creator,
                   auxVars>>

\* The sweep runs before the pod's listeners are up.
StartSweep(s, n) ==
    /\ pc[s] = "off"
    /\ \A w \in Workers : home[w] = n => pc[w] = "done"
    /\ home' = [home EXCEPT ![s] = n]
    /\ Goto(s, "list")
    /\ UNCHANGED <<open, victim, reg, taskVars, podVars, loopVars, redisVars,
                   msgVars, dbVars, auxVars>>

(***************************************************************************)
(* The loops of ClusterConnStore: heartbeat and kick.                      *)
(***************************************************************************)
HeartbeatSnapshot(n) ==
    /\ hb[n] = NoConn /\ agents[n] # NoConn
    /\ hb' = [hb EXCEPT ![n] = agents[n]]
    /\ UNCHANGED <<pc, sessVars, taskVars, podVars, kicking, redisVars, msgVars,
                   dbVars, auxVars>>

BugExtendOnly(n) == owner = n

\* refreshOwnerScript: the key is missing or names this pod.
Refreshes(n) == owner \in {NoNode, n}

\* heartbeat: claim a missing key, extend one's own, and close the
\* session in the snapshot when another pod owns the agent.  The endpoint
\* keys are only extended, see ExpireEndpointKey.
heartbeat(n) ==
    /\ hb[n] # NoConn
    /\ hb' = [hb EXCEPT ![n] = NoConn]
    /\ \/ Refreshes(n) /\ owner' = n /\ NoFault /\ UNCHANGED open
       \/ /\ OwnerElsewhere(n) /\ NoFault
          /\ Close(hb[n])
          /\ UNCHANGED owner
       \/ Fault /\ UNCHANGED <<owner, open>>
    /\ UNCHANGED <<pc, home, victim, reg, taskVars, podVars, kicking, epKey,
                   msgVars, dbVars, latest, forcedN>>

\* handleKick takes the local session first, asks redis for the owner and
\* then closes the session it took.  A forced kick does not ask.
handleKick(n) ==
    /\ kicking[n] = NoConn
    /\ \/ /\ kicks[n] > 0
          /\ kicks' = [kicks EXCEPT ![n] = @ - 1]
          /\ kicking' = [kicking EXCEPT ![n] = agents[n]]
          /\ UNCHANGED <<open, forced>>
       \/ /\ forced[n] > 0
          /\ forced' = [forced EXCEPT ![n] = @ - 1]
          /\ Close(agents[n])
          /\ UNCHANGED <<kicking, kicks>>
    /\ UNCHANGED <<pc, home, victim, reg, taskVars, podVars, hb, redisVars,
                   dbVars, auxVars>>

handleKickClose(n) ==
    /\ kicking[n] # NoConn
    /\ kicking' = [kicking EXCEPT ![n] = NoConn]
    /\ \/ owner = n /\ NoFault /\ UNCHANGED open
       \/ /\ owner # n /\ NoFault
          /\ Close(kicking[n])
       \/ Fault /\ Close(kicking[n])
    /\ UNCHANGED <<pc, home, victim, reg, taskVars, podVars, hb, redisVars,
                   msgVars, dbVars, latest, forcedN>>

\* RemoteAgent.Close, called on a pod that does not hold the session.
ForceKick ==
    /\ owner # NoNode /\ forcedN < MaxForced
    /\ forced' = [forced EXCEPT ![owner] = @ + 1]
    /\ forcedN' = forcedN + 1
    /\ UNCHANGED <<pc, sessVars, taskVars, podVars, loopVars, redisVars, kicks,
                   dbVars, latest, faults>>

(***************************************************************************)
(* Drain, process exit and crash.                                          *)
(***************************************************************************)
Drain(d, n) ==
    /\ pc[d] = "off" /\ ~Starting(n)
    /\ home' = [home EXCEPT ![d] = n]
    /\ victim' = [victim EXCEPT ![d] = agents[n]]
    /\ Close(agents[n])
    /\ Goto(d, IF agents[n] = NoConn THEN "exit" ELSE "remove")
    /\ UNCHANGED <<reg, taskVars, podVars, loopVars, redisVars, msgVars, dbVars,
                   auxVars>>

\* Everything in the memory of pod n is gone, and so are the messages its
\* subscription had not read.
Stop(n) ==
    /\ pc' = [w \in Workers |-> IF home[w] = n THEN "done" ELSE pc[w]]
    /\ open' = {c \in open : home[c] # n}
    /\ todo' = [w \in Workers |-> IF home[w] = n THEN {} ELSE todo[w]]
    /\ cur' = [w \in Workers |-> IF home[w] = n THEN NoEp ELSE cur[w]]
    /\ victim' = [w \in Workers |-> IF home[w] = n THEN NoConn ELSE victim[w]]
    /\ reg' = [c \in Conns |-> IF home[c] = n THEN NoEp ELSE reg[c]]
    /\ agents' = [agents EXCEPT ![n] = NoConn]
    /\ bound' = [bound EXCEPT ![n] = {}]
    /\ hb' = [hb EXCEPT ![n] = NoConn]
    /\ kicking' = [kicking EXCEPT ![n] = NoConn]
    /\ kicks' = [kicks EXCEPT ![n] = 0]
    /\ forced' = [forced EXCEPT ![n] = 0]
    /\ UNCHANGED <<home, redisVars, dbVars, latest, forcedN>>

Exit(d) == pc[d] = "exit" /\ NoFault /\ Stop(home[d])

Crash(n) == Fault /\ Stop(n)

(***************************************************************************)
(* Redis: keys expire when no heartbeat extends them, pub/sub messages may *)
(* be lost, and the whole store may lose its data.  A pod that has a       *)
(* session in its map extends the keys every third of their lifetime, so   *)
(* they do not expire under it.                                            *)
(***************************************************************************)
Expire ==
    /\ owner # NoNode /\ agents[owner] = NoConn
    /\ \A c \in Conns : home[c] = owner => pc[c] # "insert"
    /\ owner' = NoNode
    /\ UNCHANGED <<pc, sessVars, taskVars, podVars, loopVars, epKey, msgVars,
                   dbVars, auxVars>>

ExpireEndpointKey(e) ==
    /\ e \in epKey
    /\ \A n \in Nodes : agents[n] = NoConn \/ e \notin bound[n]
    /\ epKey' = epKey \ {e}
    /\ UNCHANGED <<pc, sessVars, taskVars, podVars, loopVars, owner, msgVars,
                   dbVars, auxVars>>

LoseKick(n) ==
    /\ Fault
    /\ \/ kicks[n] > 0 /\ kicks' = [kicks EXCEPT ![n] = @ - 1] /\ UNCHANGED forced
       \/ forced[n] > 0 /\ forced' = [forced EXCEPT ![n] = @ - 1] /\ UNCHANGED kicks
    /\ UNCHANGED <<pc, sessVars, taskVars, podVars, loopVars, redisVars, dbVars,
                   latest, forcedN>>

WipeRedis ==
    /\ Fault /\ owner' = NoNode /\ epKey' = {}
    /\ UNCHANGED <<pc, sessVars, taskVars, podVars, loopVars, msgVars, dbVars,
                   latest, forcedN>>

ConnStep(c) ==
    \/ claimAgent(c) \/ AddAgent(c) \/ CloseSuperseded(c) \/ BindEndpoint(c)
    \/ c \notin open /\ EndServe(c)

TaskStep(w) ==
    \/ RemoveAgent(w) \/ releaseOwner(w) \/ DelEndpointKeys(w)
    \/ agentHasLiveSession(w) \/ ListEndpoints(w) \/ NextEndpoint(w)
    \/ DeleteEndpoint(w)

LoopStep(n) == HeartbeatSnapshot(n) \/ heartbeat(n) \/ handleKick(n) \/ handleKickClose(n)

Next ==
    \/ \E c \in Conns, n \in Nodes : Dial(c, n)
    \/ \E c \in Conns : ConnStep(c) \/ Drop(c) \/ EndServe(c)
    \/ \E c \in Conns, e \in Endpoints : RegisterNew(c, e) \/ RegisterExisting(c, e)
    \/ \E w \in Workers : TaskStep(w)
    \/ \E s \in Sweepers, n \in Nodes : StartSweep(s, n)
    \/ \E d \in Drainers, n \in Nodes : Drain(d, n)
    \/ \E d \in Drainers : Exit(d)
    \/ \E n \in Nodes : LoopStep(n) \/ LoseKick(n) \/ Crash(n)
    \/ ForceKick \/ Expire \/ WipeRedis
    \/ \E e \in Endpoints : ExpireEndpointKey(e)

Spec == Init /\ [][Next]_vars

\* The goroutines run, the tickers fire, the subscription delivers and redis
\* expires keys; faults, dials and disconnects are under no obligation.
Fairness ==
    /\ \A c \in Conns : WF_vars(ConnStep(c))
    /\ \A w \in Workers : WF_vars(TaskStep(w))
    /\ \A d \in Drainers : WF_vars(Exit(d))
    /\ \A n \in Nodes :
          /\ WF_vars(HeartbeatSnapshot(n) \/ heartbeat(n))
          /\ WF_vars(handleKick(n) \/ handleKickClose(n))
    /\ WF_vars(Expire)

LiveSpec == Spec /\ Fairness

-----------------------------------------------------------------------------
\* A session that is open and being served is the one its pod's map points
\* to, unless the session that replaced it is just about to close it: no
\* tunnel stays up that AddAgent and RemoveAgent have lost track of and that
\* neither a kick, a heartbeat nor a drain could ever close.
NoOrphanSession ==
    \A c \in Conns :
        pc[c] \in InMap /\ c \in open =>
            \/ agents[home[c]] = c
            \/ \E d \in Conns : pc[d] = "super" /\ victim[d] = c /\ home[d] = home[c]

\* The map entry of a pod always belongs to a session of that pod whose
\* goroutine has yet to call RemoveAgent, so a finished session never stays
\* in c.agents, where heartbeat would go on renewing its ownership.
MapEntryServed ==
    \A n \in Nodes : agents[n] # NoConn =>
        home[agents[n]] = n /\ pc[agents[n]] \in InMap \cup {"remove"}

\* c's claim is the last one that reached redis and c is in, or on its way
\* into, its pod's map.
Current(c) ==
    latest = c /\ (pc[c] = "insert" \/ agents[home[c]] = c)

\* As long as redis answers, the ownership key names the pod of the newest
\* session for as long as that session is in the map, whatever the kicks,
\* heartbeats, releases and drains of older sessions do meanwhile.  (It
\* needs the sessions to be on different pods: see HomesDiffer.)
NewestOwns ==
    faults = 0 => \A c \in Conns : Current(c) => owner = home[c]

\* As long as redis answers, no clean-up of an older session and no startup
\* sweep on another pod deletes an endpoint that the newest session created
\* and still serves.
LiveEndpointSurvives ==
    faults = 0 => \A c \in Conns, e \in Endpoints :
        Current(c) /\ creator[e] = c => e \in eps

\* No two sessions of the agent land on the same pod.
HomesDiffer == \A c, d \in Conns : c # d => HomesOf[c] \cap HomesOf[d] = {}

\* Once the agent stops opening sessions, all but at most one of those it
\* had are closed, even when kicks are lost: the kick or the heartbeat that
\* finds another owner closes the others.
ConvergesToOneSession == <>[](Cardinality(open) <= 1)

\* Ownership that names a pod without a session does not last: it moves to
\* another pod, it expires, or a session arrives.
Served(n) == \E c \in Conns : home[c] = n /\ pc[c] \in InMap \cup {"insert", "remove"}

NoBlackHole == \A n \in Nodes : owner = n /\ ~Served(n) ~> owner # n \/ Served(n)

\* A session that stays up ends up owning the agent, also after redis lost
\* its data or refused the claim.
StableSessionOwns ==
    \A c \in Conns, n \in Nodes :
        <>[](agents[n] = c /\ c \in open) => <>[](owner = n)

\* README.md, on the startup sweep: "On startup the server deletes ephemeral
\* endpoints whose agent has no live session (in cluster mode, only those
\* owned by no pod)."  The sweep of a pod never sets out to delete an endpoint
\* that the agent's newest, live session has created.
SweepSparesLiveAgent ==
    \A s \in Sweepers, c \in Conns :
        pc[s] = "del" /\ latest = c /\ c \in open /\ agents[home[c]] = c
            => creator[cur[s]] # c

-----------------------------------------------------------------------------
\* Values of HomesOf for TLC: any session may reach any pod, or each reaches a
\* pod of its own.
AnyHome == [c \in Conns |-> Nodes]
OwnHome ==
    LET pod == CHOOSE f \in [Conns -> Nodes] : \A c, d \in Conns : c # d => f[c] # f[d]
    IN  [c \in Conns |-> {pod[c]}]

NodeSymmetry == Permutations(Nodes)
=============================================================================
