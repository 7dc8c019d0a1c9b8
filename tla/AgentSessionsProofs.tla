------------------------ MODULE AgentSessionsProofs ------------------------
(***************************************************************************)
(* Proofs about AgentSessions, for any number of pods, sessions, endpoints *)
(* and faults.                                                             *)
(***************************************************************************)
EXTENDS AgentSessions, TLAPS

Cleaning == {"list", "pick", "chk1", "chk2", "chk3", "del"}

\* Where each kind of worker can stand, and on which pod.
StageInv ==
    /\ \A c \in Conns : pc[c] # "exit"
    /\ \A s \in Sweepers : pc[s] \in Cleaning \cup {"off", "done"}
    /\ \A d \in Drainers : pc[d] \in {"off", "remove", "release", "delkeys", "exit", "done"}
    /\ \A w \in Workers : home[w] \in Nodes <=> pc[w] # "off"
    /\ \A c \in Conns : pc[c] # "off" => home[c] \in HomesOf[c]
    /\ \A c \in Conns : pc[c] \in {"bind", "bindkey"} => reg[c] \in Endpoints

\* A drain closed the session it is about to remove.
DrainInv ==
    \A d \in Drainers : pc[d] = "remove" =>
        victim[d] # NoConn /\ victim[d] \notin open /\ pc[victim[d]] # "off"

SessionInv == TypeOK /\ StageInv /\ DrainInv /\ MapEntryServed /\ NoOrphanSession

\* AfterRemove only moves the worker on, closes its session and clears its
\* work list.
LEMMA AfterRemoveType ==
    ASSUME TypeOK, NEW w \in Workers, AfterRemove(w)
    PROVE  /\ pc' \in [Workers -> Stage]
           /\ open' \subseteq Conns
           /\ todo' \in [Workers -> SUBSET Endpoints]
<1>1. {"chk1", "exit"} \subseteq Stage /\ Conns \subseteq Workers
  BY Zenon DEF Stage, Workers
<1> QED BY Zenon, <1>1 DEF TypeOK, Close, AfterRemove, Goto

\* Every action keeps the variables in their types.
LEMMA TypeStep ==
    ASSUME TypeOK, StageInv, [Next]_vars
    PROVE  TypeOK'
<1>a. \A w \in Workers : pc[w] # "off" => home[w] \in Nodes
  BY Zenon DEF StageInv
<1>b. \A c \in Conns : pc[c] \in {"bind", "bindkey"} => reg[c] \in Endpoints
  BY Zenon DEF StageInv
<1>c. /\ {"claim", "insert", "super", "serve", "bind", "bindkey", "remove",
          "release", "delkeys", "exit", "done"} \subseteq Stage
      /\ {"chk1", "chk2", "chk3", "list", "pick", "del"} \subseteq Stage
      /\ Conns \subseteq Workers /\ Sweepers \subseteq Workers /\ Drainers \subseteq Workers
      /\ MaxFaults \in Nat /\ MaxForced \in Nat
      /\ Workers = Conns \cup (Workers \ Conns)
  BY Zenon, ConstantsAssumption DEF Stage, InMap, Workers
<1> USE <1>c DEF TypeOK, Close, sessVars, taskVars, podVars, loopVars, redisVars, msgVars, dbVars, auxVars
<1>1. ASSUME NEW c \in Conns, NEW n \in Nodes, Dial(c, n) PROVE TypeOK'
    BY Zenon, <1>1 DEF Dial, Goto
<1>2. ASSUME NEW c \in Conns, claimAgent(c) PROVE TypeOK'
    BY <1>2, <1>a DEF claimAgent, Goto, Fault, NoFault
<1>3. ASSUME NEW c \in Conns, AddAgent(c) PROVE TypeOK'
    BY Zenon, <1>3, <1>a DEF AddAgent, Goto
<1>4. ASSUME NEW c \in Conns, CloseSuperseded(c) PROVE TypeOK'
    BY Zenon, <1>4 DEF CloseSuperseded, Goto
<1>5. ASSUME NEW c \in Conns, Drop(c) PROVE TypeOK'
    BY Zenon, <1>5 DEF Drop
<1>6. ASSUME NEW c \in Conns, NEW e \in Endpoints, RegisterNew(c, e) PROVE TypeOK'
    BY Zenon, <1>6 DEF RegisterNew, Goto
<1>7. ASSUME NEW c \in Conns, NEW e \in Endpoints, RegisterExisting(c, e) PROVE TypeOK'
    BY Zenon, <1>7 DEF RegisterExisting, Goto
<1>8. ASSUME NEW c \in Conns, BindEndpoint(c) PROVE TypeOK'
  <2>1. CASE pc[c] = "bind"
    BY <1>8, <2>1, <1>a, <1>b DEF BindEndpoint, Goto
  <2>2. CASE pc[c] = "bindkey"
    <3>1. epKey' \subseteq Endpoints /\ faults' \in 0 .. MaxFaults
      BY <1>8, <2>2, <1>b DEF BindEndpoint, Fault, NoFault
    <3>2. reg' \in [Conns -> Endpoints \cup {NoEp}] /\ pc' \in [Workers -> Stage]
      BY <1>8, <2>2 DEF BindEndpoint, Goto
    <3> QED BY Zenon, <1>8, <2>2, <3>1, <3>2 DEF BindEndpoint
  <2> QED BY Zenon, <1>8, <2>1, <2>2 DEF BindEndpoint
<1>9. ASSUME NEW c \in Conns, EndServe(c) PROVE TypeOK'
    BY Zenon, <1>9 DEF EndServe, Goto
<1>10. ASSUME NEW w \in Workers, RemoveAgent(w) PROVE TypeOK'
  <2>1. CASE AfterRemove(w)
    BY Zenon, <1>10, <1>a, <2>1, AfterRemoveType DEF RemoveAgent, Holds, Removed, Goto
  <2>2. CASE ~AfterRemove(w)
    <3>1. agents' \in [Nodes -> Conns \cup {NoConn}] /\ bound' \in [Nodes -> SUBSET Endpoints]
      BY <1>10, <1>a, <2>2 DEF RemoveAgent
    <3>2. todo' \in [Workers -> SUBSET Endpoints]
      BY <1>10, <1>a, <2>2 DEF RemoveAgent
    <3>3. pc' \in [Workers -> Stage]
      BY <1>10, <1>a, <2>2 DEF RemoveAgent, Goto
    <3> QED BY Zenon, <1>10, <2>2, <3>1, <3>2, <3>3 DEF RemoveAgent
  <2> QED BY Zenon, <2>1, <2>2
<1>11. ASSUME NEW w \in Workers, releaseOwner(w) PROVE TypeOK'
  <2>1. CASE AfterRemove(w)
    BY <1>11, <2>1, AfterRemoveType DEF releaseOwner, Owns, Goto, Fault, NoFault
  <2>2. CASE ~AfterRemove(w)
    BY <1>11, <2>2 DEF releaseOwner, Owns, Goto, Fault, NoFault
  <2> QED BY Zenon, <2>1, <2>2
<1>12. ASSUME NEW w \in Workers, DelEndpointKeys(w) PROVE TypeOK'
  <2>1. CASE AfterRemove(w)
    BY <1>12, <2>1, AfterRemoveType DEF DelEndpointKeys, Goto, Fault, NoFault
  <2>2. CASE ~AfterRemove(w)
    BY <1>12, <2>2 DEF DelEndpointKeys, Goto, Fault, NoFault
  <2> QED BY Zenon, <2>1, <2>2
<1>13. ASSUME NEW w \in Workers, agentHasLiveSession(w) PROVE TypeOK'
    BY <1>13 DEF agentHasLiveSession, Live, NotLive, OwnerElsewhere, Goto, Fault, NoFault
<1>14. ASSUME NEW w \in Workers, ListEndpoints(w) PROVE TypeOK'
    BY Zenon, <1>14 DEF ListEndpoints, Goto
<1>15. ASSUME NEW w \in Workers, NextEndpoint(w) PROVE TypeOK'
    BY <1>15 DEF NextEndpoint, Goto
<1>16. ASSUME NEW w \in Workers, DeleteEndpoint(w) PROVE TypeOK'
    BY Zenon, <1>16 DEF DeleteEndpoint, Goto
<1>17. ASSUME NEW s \in Sweepers, NEW n \in Nodes, StartSweep(s, n) PROVE TypeOK'
    BY Zenon, <1>17 DEF StartSweep, Goto
<1>18. ASSUME NEW d \in Drainers, NEW n \in Nodes, Drain(d, n) PROVE TypeOK'
    BY Zenon, <1>18 DEF Drain, Goto
<1>19. ASSUME NEW d \in Drainers, Exit(d) PROVE TypeOK'
    BY Zenon, <1>19, <1>a DEF Exit, Stop, NoFault
<1>20. ASSUME NEW n \in Nodes, Crash(n) PROVE TypeOK'
    BY <1>20 DEF Crash, Stop, Fault
<1>21. ASSUME NEW n \in Nodes, HeartbeatSnapshot(n) PROVE TypeOK'
    BY Zenon, <1>21 DEF HeartbeatSnapshot
<1>22. ASSUME NEW n \in Nodes, heartbeat(n) PROVE TypeOK'
  <2>1. open' \subseteq Conns
    BY Zenon, <1>22 DEF heartbeat, Refreshes, OwnerElsewhere, Fault, NoFault
  <2> QED
    BY <1>22, <2>1 DEF heartbeat, Refreshes, OwnerElsewhere, Fault, NoFault
<1>23. ASSUME NEW n \in Nodes, handleKick(n) PROVE TypeOK'
  <2>1. open' \subseteq Conns
    BY Zenon, <1>23 DEF handleKick
  <2>2. kicks' \in [Nodes -> Nat] /\ forced' \in [Nodes -> Nat]
    BY <1>23 DEF handleKick
  <2>3. kicking' \in [Nodes -> Conns \cup {NoConn}]
    BY Zenon, <1>23 DEF handleKick
  <2> QED
    BY Zenon, <1>23, <2>1, <2>2, <2>3 DEF handleKick
<1>24. ASSUME NEW n \in Nodes, handleKickClose(n) PROVE TypeOK'
  <2>1. open' \subseteq Conns
    BY Zenon, <1>24 DEF handleKickClose, Fault, NoFault
  <2> QED
    BY <1>24, <2>1 DEF handleKickClose, Fault, NoFault
<1>25. ASSUME NEW n \in Nodes, LoseKick(n) PROVE TypeOK'
    BY <1>25 DEF LoseKick, Fault
<1>26. ASSUME ForceKick PROVE TypeOK'
    BY <1>26 DEF ForceKick
<1>27. ASSUME Expire PROVE TypeOK'
    BY Zenon, <1>27 DEF Expire
<1>28. ASSUME WipeRedis PROVE TypeOK'
    BY <1>28 DEF WipeRedis, Fault
<1>29. ASSUME NEW e \in Endpoints, ExpireEndpointKey(e) PROVE TypeOK'
    BY Zenon, <1>29 DEF ExpireEndpointKey
<1>30. ASSUME UNCHANGED vars PROVE TypeOK'
    BY Zenon, <1>30 DEF vars
<1> HIDE DEF TypeOK, sessVars, taskVars, podVars, loopVars, redisVars, msgVars, dbVars, auxVars
<1> QED
    BY Zenon, <1>1, <1>2, <1>3, <1>4, <1>5, <1>6, <1>7, <1>8, <1>9, <1>10, <1>11,
       <1>12, <1>13, <1>14, <1>15, <1>16, <1>17, <1>18, <1>19, <1>20, <1>21,
       <1>22, <1>23, <1>24, <1>25, <1>26, <1>27, <1>28, <1>29, <1>30
    DEF Next, ConnStep, TaskStep, LoopStep

(***************************************************************************)
(* Interleaving.  A worker's own variables change in its own steps and     *)
(* when its pod stops; each shared variable changes in a few actions only. *)
(***************************************************************************)
OwnStep(w) ==
    \/ w \in Conns /\ (ConnStep(w) \/ EndServe(w))
    \/ w \in Conns /\ \E n \in Nodes : Dial(w, n)
    \/ w \in Conns /\ \E e \in Endpoints : RegisterNew(w, e) \/ RegisterExisting(w, e)
    \/ TaskStep(w)
    \/ w \in Sweepers /\ \E n \in Nodes : StartSweep(w, n)
    \/ w \in Drainers /\ \E n \in Nodes : Drain(w, n)

StopStep == (\E d \in Drainers : Exit(d)) \/ (\E n \in Nodes : Crash(n))

Untouched(w) ==
    /\ pc'[w] = pc[w] /\ home'[w] = home[w] /\ victim'[w] = victim[w]
    /\ todo'[w] = todo[w] /\ cur'[w] = cur[w]
    /\ w \in Conns => reg'[w] = reg[w]

\* No step of one worker touches the locals of another.
LEMMA OthersUntouched ==
    ASSUME TypeOK, NEW x \in Workers, NEW w \in Workers, x # w, OwnStep(x)
    PROVE  Untouched(w)
<1>0. /\ pc \in [Workers -> Stage]
      /\ home \in [Workers -> Nodes \cup {NoNode}]
      /\ victim \in [Workers -> Conns \cup {NoConn}]
      /\ reg \in [Conns -> Endpoints \cup {NoEp}]
      /\ todo \in [Workers -> SUBSET Endpoints]
      /\ cur \in [Workers -> Endpoints \cup {NoEp}]
    BY Zenon DEF TypeOK
<1> USE <1>0 DEF OwnStep, Untouched, Goto, sessVars, taskVars
<1>1. CASE x \in Conns /\ (ConnStep(x) \/ EndServe(x))
  BY Zenon, <1>1 DEF ConnStep, claimAgent, AddAgent, CloseSuperseded, BindEndpoint, EndServe
<1>2. CASE TaskStep(x)
  BY Zenon, <1>2 DEF TaskStep, RemoveAgent, AfterRemove, releaseOwner, DelEndpointKeys,
              agentHasLiveSession, Live, NotLive, ListEndpoints, NextEndpoint,
              DeleteEndpoint
<1> QED
  BY Zenon, <1>1, <1>2 DEF Dial, RegisterNew, RegisterExisting, StartSweep, Drain

EnvStep ==
    \/ \E c \in Conns : Drop(c)
    \/ \E n \in Nodes : LoopStep(n) \/ LoseKick(n)
    \/ ForceKick \/ Expire \/ WipeRedis
    \/ \E e \in Endpoints : ExpireEndpointKey(e)
    \/ UNCHANGED vars

\* The loops of the pods and redis move no worker; they close tunnels and
\* never open one.
LEMMA EnvEffect ==
    ASSUME EnvStep
    PROVE  /\ UNCHANGED <<pc, home, victim, reg, todo, cur, agents, eps, creator, latest>>
           /\ open' \subseteq open
<1> USE DEF sessVars, taskVars, podVars, dbVars, auxVars, Close
<1>1. CASE \E n \in Nodes : LoopStep(n)
  BY Zenon, <1>1 DEF LoopStep, HeartbeatSnapshot, heartbeat, handleKick, handleKickClose
<1>2. CASE ForceKick \/ Expire \/ WipeRedis \/ \E n \in Nodes : LoseKick(n)
  BY Zenon, <1>2 DEF ForceKick, Expire, WipeRedis, LoseKick
<1> QED BY Zenon, <1>1, <1>2 DEF EnvStep, Drop, ExpireEndpointKey, vars

\* A step is one of a session or the sweep, the end of a pod, or one of redis.
LEMMA NextCases ==
    ASSUME [Next]_vars
    PROVE  (\E w \in Workers : OwnStep(w)) \/ StopStep \/ EnvStep
BY Zenon DEF Next, OwnStep, StopStep, EnvStep, Workers

\* Only its own steps and the end of its pod move a worker.
LEMMA WorkerStep ==
    ASSUME TypeOK, [Next]_vars, NEW w \in Workers
    PROVE  Untouched(w) \/ OwnStep(w) \/ StopStep
<1>1. CASE EnvStep
  BY Zenon, <1>1, EnvEffect DEF Untouched
<1> QED BY Zenon, <1>1, NextCases, OthersUntouched

\* Where a step of w's own leads: from a stage to one of its successors, on
\* the pod where w started.
After(w)  == IF w \in Conns THEN "chk1" ELSE "exit"
Spared(w) == IF w \in Conns THEN "done" ELSE "pick"

Starts(w) ==
    /\ pc[w] = "off" /\ home'[w] \in Nodes
    /\ \/ w \in Conns /\ Dial(w, home'[w]) /\ pc'[w] = "claim" /\ home'[w] \in HomesOf[w]
       \/ w \in Sweepers /\ StartSweep(w, home'[w]) /\ pc'[w] = "list"
       \/ w \in Drainers /\ Drain(w, home'[w]) /\ pc'[w] \in {"remove", "exit"}

Serves(w) ==
    /\ w \in Conns /\ home'[w] = home[w]
    /\ \/ pc[w] = "claim" /\ claimAgent(w) /\ pc'[w] = "insert"
       \/ pc[w] = "insert" /\ AddAgent(w) /\ pc'[w] = "super"
       \/ pc[w] = "super" /\ CloseSuperseded(w) /\ pc'[w] = "serve"
       \/ pc[w] = "serve" /\ pc'[w] = "bind" /\ reg'[w] \in Endpoints
       \/ pc[w] = "bind" /\ pc'[w] = "bindkey" /\ reg'[w] = reg[w]
       \/ pc[w] = "bindkey" /\ pc'[w] = "serve"
       \/ pc[w] = "serve" /\ pc'[w] = "remove"

Cleans(w) ==
    /\ home'[w] = home[w]
    /\ \/ pc[w] = "remove" /\ RemoveAgent(w) /\ pc'[w] \in {"release", After(w)}
       \/ pc[w] \in {"release", "delkeys"} /\ pc'[w] \in {"delkeys", After(w)}
       \/ pc[w] = "chk1" /\ pc'[w] \in {"chk2", Spared(w)}
       \/ pc[w] = "chk2" /\ pc'[w] \in {"chk3", Spared(w)}
       \/ pc[w] = "chk3" /\ pc'[w] \in {"list", "del", Spared(w)}
       \/ pc[w] = "list" /\ pc'[w] = "pick"
       \/ pc[w] = "pick" /\ pc'[w] \in {"pick", "chk1", "done"}
       \/ pc[w] = "del" /\ pc'[w] = "pick"

\* What a step of a worker does to its stage: it starts, serves or cleans up.
LEMMA OwnMoves ==
    ASSUME TypeOK, NEW w \in Workers, OwnStep(w)
    PROVE  Starts(w) \/ Serves(w) \/ Cleans(w)
<1>0. /\ pc \in [Workers -> Stage]
      /\ home \in [Workers -> Nodes \cup {NoNode}]
      /\ reg \in [Conns -> Endpoints \cup {NoEp}]
      /\ w \in Conns => HomesOf[w] \subseteq Nodes
    BY Zenon, ConstantsAssumption DEF TypeOK
<1> USE <1>0 DEF Goto, sessVars
<1>1. CASE w \in Conns /\ (ConnStep(w) \/ EndServe(w))
  <2>1. /\ claimAgent(w) => pc[w] = "claim" /\ pc'[w] = "insert" /\ home'[w] = home[w]
        /\ AddAgent(w) => pc[w] = "insert" /\ pc'[w] = "super" /\ home'[w] = home[w]
        /\ CloseSuperseded(w) => pc[w] = "super" /\ pc'[w] = "serve" /\ home'[w] = home[w]
    BY Zenon, <1>1 DEF claimAgent, AddAgent, CloseSuperseded
  <2>2. CASE BindEndpoint(w) \/ EndServe(w)
    BY Zenon, <1>1, <2>2 DEF Serves, BindEndpoint, EndServe
  <2> QED BY Zenon, <1>1, <2>1, <2>2 DEF Serves, ConnStep
<1>2. CASE RemoveAgent(w)
  <2>1. pc[w] = "remove" /\ pc'[w] \in {"release", After(w)} /\ home'[w] = home[w]
    BY Zenon, <1>2 DEF After, RemoveAgent, AfterRemove
  <2> QED BY Zenon, <1>2, <2>1 DEF Cleans
<1>8. CASE releaseOwner(w) \/ DelEndpointKeys(w)
  BY Zenon, <1>8 DEF Cleans, After, AfterRemove, releaseOwner, DelEndpointKeys
<1>3. CASE agentHasLiveSession(w)
  BY Zenon, <1>3 DEF Cleans, Spared, agentHasLiveSession, Live, NotLive
<1>4. CASE ListEndpoints(w) \/ NextEndpoint(w) \/ DeleteEndpoint(w)
  BY Zenon, <1>4 DEF Cleans, ListEndpoints, NextEndpoint, DeleteEndpoint
<1>5. ASSUME w \in Conns, NEW n \in Nodes, Dial(w, n) PROVE Starts(w)
  <2>1. pc[w] = "off" /\ home'[w] = n /\ n \in HomesOf[w] /\ pc'[w] = "claim"
    BY Zenon, <1>5 DEF Dial
  <2> QED BY Zenon, <1>5, <2>1 DEF Starts
<1>6. ASSUME w \in Sweepers, NEW n \in Nodes, StartSweep(w, n) PROVE Starts(w)
  <2>1. pc[w] = "off" /\ home'[w] = n /\ pc'[w] = "list"
    BY Zenon, <1>6 DEF StartSweep
  <2> QED BY Zenon, <1>6, <2>1 DEF Starts
<1>9. ASSUME w \in Drainers, NEW n \in Nodes, Drain(w, n) PROVE Starts(w)
  <2>1. pc[w] = "off" /\ home'[w] = n /\ pc'[w] \in {"remove", "exit"}
    BY Zenon, <1>9 DEF Drain
  <2> QED BY Zenon, <1>9, <2>1 DEF Starts
<1>7. CASE w \in Conns /\ \E e \in Endpoints : RegisterNew(w, e) \/ RegisterExisting(w, e)
  BY Zenon, <1>7 DEF Serves, RegisterNew, RegisterExisting
<1> QED
  BY Zenon, <1>1, <1>2, <1>3, <1>4, <1>5, <1>6, <1>7, <1>8, <1>9
  DEF OwnStep, TaskStep

\* The map changes when a session is inserted or removed, and only Dial opens
\* a tunnel.
LEMMA OwnChanges ==
    ASSUME NEW w \in Workers, OwnStep(w)
    PROVE  /\ UNCHANGED agents \/ (w \in Conns /\ AddAgent(w)) \/ RemoveAgent(w)
           /\ open' \subseteq open \/ (w \in Conns /\ \E n \in Nodes : Dial(w, n))
<1> USE DEF sessVars, podVars, Close
<1>1. CASE w \in Conns /\ (ConnStep(w) \/ EndServe(w))
  <2>1. CASE AddAgent(w)
    BY Zenon, <1>1, <2>1 DEF AddAgent
  <2> QED
    BY Zenon, <1>1, <2>1 DEF ConnStep, claimAgent, CloseSuperseded, BindEndpoint, EndServe
<1>2. CASE TaskStep(w)
  <2>1. CASE RemoveAgent(w)
    <3>1. open' \subseteq open
      BY Zenon, <2>1 DEF RemoveAgent, AfterRemove
    <3> QED BY Zenon, <2>1, <3>1
  <2> QED
    BY Zenon, <1>2, <2>1 DEF TaskStep, releaseOwner, AfterRemove, DelEndpointKeys,
       agentHasLiveSession, ListEndpoints, NextEndpoint, DeleteEndpoint
<1>3. CASE w \in Conns /\ \E n \in Nodes : Dial(w, n)
  <2>1. UNCHANGED agents
    BY Zenon, <1>3 DEF Dial
  <2> QED BY Zenon, <1>3, <2>1
<1> QED
  BY Zenon, <1>1, <1>2, <1>3 DEF OwnStep, StartSweep, Drain, RegisterNew, RegisterExisting

\* A stopping pod ends its workers, empties its map and closes its tunnels,
\* and leaves everything else alone.
LEMMA StopEffect ==
    ASSUME TypeOK, StageInv, StopStep
    PROVE  \E n \in Nodes :
              /\ home' = home /\ UNCHANGED <<owner, eps, creator, latest>>
              /\ agents' = [agents EXCEPT ![n] = NoConn]
              /\ open' = {c \in open : home[c] # n}
              /\ \A w \in Workers : home[w] = n =>
                    pc'[w] = "done" /\ victim'[w] = NoConn /\ todo'[w] = {} /\ cur'[w] = NoEp
              /\ \A w \in Workers : home[w] # n => Untouched(w)
<1>1. PICK n \in Nodes : Stop(n)
  BY Zenon DEF StopStep, Exit, Crash, StageInv, TypeOK, Workers
<1>2. Conns \subseteq Workers /\ pc \in [Workers -> Stage]
  BY Zenon DEF Workers, TypeOK
<1>3. /\ home' = home /\ UNCHANGED <<owner, eps, creator, latest>>
      /\ agents' = [agents EXCEPT ![n] = NoConn]
      /\ open' = {c \in open : home[c] # n}
  BY Zenon, <1>1 DEF Stop, redisVars, dbVars
<1>4. ASSUME NEW w \in Workers, home[w] = n
      PROVE  pc'[w] = "done" /\ victim'[w] = NoConn /\ todo'[w] = {} /\ cur'[w] = NoEp
  BY Zenon, <1>1, <1>2, <1>4 DEF Stop
<1>5. ASSUME NEW w \in Workers, home[w] # n PROVE Untouched(w)
  BY Zenon, <1>1, <1>2, <1>5 DEF Stop, Untouched
<1> QED BY Zenon, <1>3, <1>4, <1>5

\* Every worker stays at a stage of its kind, on the pod it started on.
LEMMA StageStep ==
    ASSUME TypeOK, StageInv, [Next]_vars
    PROVE  StageInv'
<1> USE ConstantsAssumption DEF StageInv, Workers, Cleaning
<1>1. ASSUME NEW w \in Workers, OwnStep(w)
      PROVE  /\ w \in Conns => pc'[w] # "exit" /\ home'[w] \in HomesOf[w]
             /\ w \in Conns /\ pc'[w] \in {"bind", "bindkey"} => reg'[w] \in Endpoints
             /\ w \in Sweepers => pc'[w] \in Cleaning \cup {"off", "done"}
             /\ w \in Drainers => pc'[w] \in {"off", "remove", "release", "delkeys", "exit", "done"}
             /\ home'[w] \in Nodes /\ pc'[w] # "off"
  BY Zenon, <1>1, OwnMoves DEF Starts, Serves, Cleans, After, Spared
<1>2. CASE StopStep
  BY <1>2, StopEffect DEF Untouched, TypeOK
<1>3. CASE ~StopStep
  BY Zenon, <1>1, <1>3, WorkerStep DEF Untouched
<1> QED BY Zenon, <1>2, <1>3

\* A worker never goes back to its start and never changes pods.
LEMMA Onward ==
    ASSUME TypeOK, StageInv, [Next]_vars, NEW w \in Workers, pc[w] # "off"
    PROVE  pc'[w] # "off" /\ home'[w] = home[w]
<1>1. CASE StopStep
  BY Zenon, <1>1, StopEffect DEF Untouched
<1>2. CASE OwnStep(w)
  BY Zenon, <1>2, OwnMoves DEF Starts, Serves, Cleans, After, Spared
<1> QED BY Zenon, <1>1, <1>2, WorkerStep DEF Untouched

\* A closed tunnel stays closed.
LEMMA StaysClosed ==
    ASSUME TypeOK, StageInv, [Next]_vars, NEW c \in Conns, pc[c] # "off", c \notin open
    PROVE  c \notin open'
<1>1. CASE StopStep
  BY Zenon, <1>1, StopEffect
<1>2. CASE EnvStep
  BY Zenon, <1>2, EnvEffect
<1>3. ASSUME NEW w \in Workers, OwnStep(w) PROVE c \notin open'
  <2>1. CASE \E n \in Nodes : Dial(w, n)
    BY Zenon, <2>1 DEF Dial
  <2> QED BY Zenon, <1>3, <2>1, OwnChanges
<1> QED BY Zenon, <1>1, <1>2, <1>3, NextCases

\* Nothing reopens a session a drain has closed.
LEMMA DrainStep ==
    ASSUME TypeOK, TypeOK', StageInv, DrainInv, MapEntryServed, [Next]_vars
    PROVE  DrainInv'
<1> SUFFICES ASSUME NEW d \in Drainers, pc'[d] = "remove"
             PROVE  victim'[d] # NoConn /\ victim'[d] \notin open' /\ pc'[victim'[d]] # "off"
  BY Zenon DEF DrainInv
<1>0. d \in Workers /\ Conns \subseteq Workers /\ NoConn \notin Conns
      /\ victim[d] \in Conns \cup {NoConn} /\ d \notin Conns
  BY Zenon, ConstantsAssumption DEF Workers, TypeOK
<1>1. CASE Untouched(d)
  BY Zenon, <1>0, <1>1, Onward, StaysClosed DEF DrainInv, Untouched
<1>2. CASE OwnStep(d)
  <2>1. Drain(d, home'[d]) /\ home'[d] \in Nodes
    BY Zenon, <1>0, <1>2, OwnMoves, ConstantsAssumption DEF Starts, Serves, Cleans, After, Spared
  <2> DEFINE v == agents[home'[d]]
  <2>2. v \in Conns /\ pc[v] # "off"
    <3>1. v # NoConn /\ v \in Conns \cup {NoConn}
      BY Zenon, <1>0, <2>1 DEF Drain, Goto, TypeOK
    <3> QED BY Zenon, <1>0, <2>1, <3>1 DEF MapEntryServed, InMap
  <2>3. victim'[d] = v /\ v \notin open'
    BY Zenon, <1>0, <2>1 DEF Drain, Close, TypeOK
  <2> QED BY Zenon, <1>0, <2>2, <2>3, Onward
<1>3. CASE StopStep
  BY Zenon, <1>0, <1>1, <1>3, StopEffect
<1> QED BY Zenon, <1>0, <1>1, <1>2, <1>3, WorkerStep

\* Only the session in the map, or a drain of it, takes the entry out.
LEMMA MapStep ==
    ASSUME TypeOK, TypeOK', StageInv, MapEntryServed, [Next]_vars
    PROVE  MapEntryServed'
<1> SUFFICES ASSUME NEW n \in Nodes, agents'[n] # NoConn
             PROVE  home'[agents'[n]] = n /\ pc'[agents'[n]] \in InMap \cup {"remove"}
  BY Zenon DEF MapEntryServed
<1> DEFINE x == agents'[n]
<1>0. x \in Conns /\ Conns \subseteq Workers /\ agents \in [Nodes -> Conns \cup {NoConn}]
  BY Zenon DEF TypeOK, Workers
<1>1. CASE agents[n] = x /\ Untouched(x)
  BY Zenon, <1>0, <1>1 DEF MapEntryServed, Untouched
<1>2. CASE EnvStep
  BY Zenon, <1>0, <1>1, <1>2, EnvEffect DEF Untouched
<1>3. CASE StopStep
  BY <1>0, <1>1, <1>3, StopEffect DEF MapEntryServed
<1>4. ASSUME NEW w \in Conns, AddAgent(w), OwnStep(w)
      PROVE  home'[x] = n /\ pc'[x] \in InMap \cup {"remove"}
  <2>1. pc[w] = "insert" /\ home[w] \in Nodes /\ home'[w] = home[w] /\ pc'[w] = "super"
        /\ agents' = [agents EXCEPT ![home[w]] = w]
    BY Zenon, <1>0, <1>4 DEF AddAgent, Goto, StageInv, TypeOK
  <2>2. CASE n = home[w]
    BY Zenon, <1>0, <2>1, <2>2 DEF InMap
  <2>3. CASE n # home[w]
    <3>1. agents[n] = x /\ x # w
      BY Zenon, <1>0, <2>1, <2>3 DEF MapEntryServed
    <3> QED BY Zenon, <1>0, <1>1, <1>4, <3>1, OthersUntouched
  <2> QED BY Zenon, <2>2, <2>3
<1>5. ASSUME NEW w \in Workers, OwnStep(w), UNCHANGED agents \/ RemoveAgent(w)
      PROVE  home'[x] = n /\ pc'[x] \in InMap \cup {"remove"}
  <2>1. agents[n] = x
    <3>1. CASE UNCHANGED agents
      BY Zenon, <3>1
    <3>2. CASE RemoveAgent(w)
      <4>1. agents' = agents \/ agents' = [agents EXCEPT ![home[w]] = NoConn]
        BY Zenon, <3>2 DEF RemoveAgent, podVars
      <4> QED BY Zenon, <1>0, <4>1
    <3> QED BY Zenon, <1>5, <3>1, <3>2
  <2>2. home[x] = n /\ pc[x] \in InMap \cup {"remove"}
    BY Zenon, <1>0, <2>1 DEF MapEntryServed
  <2>3. ~RemoveAgent(x)
    <3> SUFFICES ASSUME RemoveAgent(x) PROVE FALSE
      OBVIOUS
    <3>1. Holds(x)
      BY Zenon, <1>0, <2>1, <2>2 DEF Holds, Removed
    <3> QED BY Zenon, <1>0, <2>2, <3>1 DEF RemoveAgent
  <2>4. CASE x = w
    BY Zenon, <1>0, <1>5, <2>2, <2>3, <2>4, OwnMoves DEF Starts, Serves, Cleans, InMap
  <2> QED BY Zenon, <1>0, <1>1, <1>5, <2>1, <2>4, OthersUntouched
<1> QED BY Zenon, <1>2, <1>3, <1>4, <1>5, NextCases, OwnChanges

\* Whoever takes an open session out of the map closes it.
LEMMA OrphanStep ==
    ASSUME TypeOK, TypeOK', StageInv, DrainInv, MapEntryServed, NoOrphanSession,
           [Next]_vars
    PROVE  NoOrphanSession'
<1> SUFFICES ASSUME NEW x \in Conns, pc'[x] \in InMap, x \in open'
             PROVE  \/ agents'[home'[x]] = x
                    \/ \E d \in Conns : pc'[d] = "super" /\ victim'[d] = x /\ home'[d] = home'[x]
  BY Zenon DEF NoOrphanSession
<1>0. /\ Conns \subseteq Workers /\ Workers = Conns \cup Sweepers \cup Drainers
      /\ agents \in [Nodes -> Conns \cup {NoConn}] /\ victim \in [Workers -> Conns \cup {NoConn}]
      /\ \A w \in Workers : pc[w] # "off" => home[w] \in Nodes
  BY Zenon DEF TypeOK, Workers, StageInv
<1>1. CASE pc[x] = "insert"
  <2>1. AddAgent(x)
    <3>1. ~StopStep /\ ~Untouched(x)
      BY Zenon, <1>0, <1>1, StopEffect DEF InMap, Untouched
    <3> QED BY Zenon, <1>0, <1>1, <3>1, WorkerStep, OwnMoves DEF Starts, Serves, Cleans
  <2> QED BY Zenon, <1>0, <1>1, <2>1 DEF AddAgent, sessVars
<1>2. CASE pc[x] # "insert"
  <2>1. pc[x] \in InMap
    <3>1. CASE StopStep
      BY Zenon, <1>0, <3>1, StopEffect DEF Untouched, InMap
    <3>2. CASE OwnStep(x)
      BY Zenon, <1>0, <1>2, <3>2, OwnMoves DEF Starts, Serves, Cleans, InMap, After, Spared
    <3> QED BY Zenon, <1>0, <3>1, <3>2, WorkerStep DEF Untouched
  <2>2. x \in open /\ home'[x] = home[x] /\ home[x] \in Nodes
    BY Zenon, <1>0, <2>1, StaysClosed, Onward DEF InMap
  <2>3. CASE agents[home[x]] = x
    <3>1. CASE EnvStep
      BY Zenon, <2>2, <2>3, <3>1, EnvEffect
    <3>2. CASE StopStep
      BY <1>0, <2>2, <2>3, <3>2, StopEffect
    <3>3. ASSUME NEW w \in Conns, AddAgent(w)
          PROVE  \/ agents'[home[x]] = x
                 \/ pc'[w] = "super" /\ victim'[w] = x /\ home'[w] = home[x]
      BY Zenon, <1>0, <2>2, <2>3, <3>3 DEF AddAgent, Goto, TypeOK
    <3>4. ASSUME NEW w \in Workers, RemoveAgent(w) PROVE agents'[home[x]] = x
      <4>1. Removed(w) # x
        <5>1. pc[w] = "remove"
          BY Zenon, <3>4 DEF RemoveAgent
        <5>2. w \notin Sweepers
          BY Zenon, <5>1 DEF StageInv, Cleaning
        <5> QED BY Zenon, <1>0, <2>1, <2>2, <5>1, <5>2 DEF Removed, DrainInv, InMap
      <4>2. agents' = agents \/ (Holds(w) /\ agents' = [agents EXCEPT ![home[w]] = NoConn])
        BY Zenon, <3>4 DEF RemoveAgent, podVars
      <4> QED BY Zenon, <1>0, <2>2, <2>3, <4>1, <4>2 DEF Holds
    <3> QED BY Zenon, <2>2, <2>3, <3>1, <3>2, <3>3, <3>4, NextCases, OwnChanges
  <2>4. ASSUME NEW d \in Conns, pc[d] = "super", victim[d] = x, home[d] = home[x]
        PROVE  pc'[d] = "super" /\ victim'[d] = x /\ home'[d] = home'[x]
    <3>1. CASE StopStep
      BY Zenon, <1>0, <2>2, <2>4, <3>1, StopEffect DEF Untouched
    <3>2. ~CloseSuperseded(d)
      BY Zenon, <2>4 DEF CloseSuperseded, Close
    <3>3. CASE OwnStep(d)
      BY Zenon, <1>0, <2>4, <3>2, <3>3, OwnMoves DEF Starts, Serves, Cleans
    <3> QED BY Zenon, <1>0, <2>2, <2>4, <3>1, <3>3, WorkerStep DEF Untouched
  <2> QED BY Zenon, <2>1, <2>2, <2>3, <2>4 DEF NoOrphanSession
<1> QED BY Zenon, <1>1, <1>2

\* The inductive invariant behind SessionsTracked.
THEOREM SessionInvariant == Spec => []SessionInv
<1> USE ConstantsAssumption
<1>1. Init => SessionInv
  BY DEF Init, SessionInv, TypeOK, StageInv, DrainInv, MapEntryServed,
         NoOrphanSession, Workers, InMap, Stage, Cleaning
<1>2. SessionInv /\ [Next]_vars => SessionInv'
  BY Zenon, TypeStep, StageStep, DrainStep, MapStep, OrphanStep DEF SessionInv
<1> QED BY <1>1, <1>2, PTL DEF Spec

\* No open tunnel escapes its pod's map, and no finished session stays in
\* it, for any number of pods, sessions, faults, drains and restarts.
THEOREM SessionsTracked == Spec => [](TypeOK /\ MapEntryServed /\ NoOrphanSession)
<1>1. SessionInv => TypeOK /\ MapEntryServed /\ NoOrphanSession
  BY Zenon DEF SessionInv
<1> QED BY <1>1, SessionInvariant, PTL

(***************************************************************************)
(* Ownership and endpoints of the newest session.                          *)
(***************************************************************************)

\* A pod that is starting up has no session; a drain that has emptied the
\* map of a pod leaves no session on its way into it.
PodInv ==
    /\ \A s \in Sweepers, c \in Conns :
          pc[s] \in Cleaning /\ home[c] = home[s] => pc[c] = "done"
    /\ \A d \in Drainers, c \in Conns :
          pc[d] = "release" /\ home[c] = home[d] =>
              pc[c] \notin {"claim", "insert"} /\ agents[home[d]] # c
    /\ latest # NoConn => pc[latest] \notin {"off", "claim"}

\* Endpoint ids are handed out once, and only serving sessions create them.
EndpointInv ==
    /\ \A e \in Endpoints : creator[e] = NoConn =>
          /\ e \notin eps
          /\ \A w \in Workers :
                cur[w] # e /\ (pc[w] \in Cleaning \cup {"off"} => e \notin todo[w])
    /\ \A c \in Conns, e \in Endpoints :
          creator[e] = c => pc[c] \notin {"off", "claim", "insert"}

\* No worker gets past the last look at redis with an endpoint of the newest
\* session in its hands.
CleanerInv ==
    faults = 0 => \A c \in Conns, e \in Endpoints, w \in Workers :
        Current(c) /\ creator[e] = c /\ pc[w] \in {"chk3", "del"} => cur[w] # e

OwnerInv == PodInv /\ EndpointInv /\ NewestOwns /\ CleanerInv /\ LiveEndpointSurvives

\* Which steps of a worker reach redis and the database.
LEMMA OwnStores ==
    ASSUME NEW w \in Workers, OwnStep(w)
    PROVE  /\ \/ UNCHANGED <<eps, creator>>
              \/ w \in Conns /\ \E e \in Endpoints : RegisterNew(w, e)
              \/ DeleteEndpoint(w)
           /\ UNCHANGED owner \/ (w \in Conns /\ claimAgent(w)) \/ releaseOwner(w)
           /\ UNCHANGED latest \/ (w \in Conns /\ claimAgent(w))
<1> USE DEF redisVars, dbVars, auxVars
<1>1. CASE w \in Conns /\ (ConnStep(w) \/ EndServe(w))
  <2>1. CASE claimAgent(w)
    <3>1. UNCHANGED <<eps, creator>>
      BY Zenon, <2>1 DEF claimAgent
    <3> QED BY Zenon, <1>1, <2>1, <3>1
  <2> QED
    BY Zenon, <1>1, <2>1 DEF ConnStep, AddAgent, CloseSuperseded, BindEndpoint, EndServe
<1>2. CASE TaskStep(w)
  <2>1. CASE releaseOwner(w)
    <3>1. UNCHANGED <<eps, creator, latest>>
      BY Zenon, <2>1 DEF releaseOwner
    <3> QED BY Zenon, <2>1, <3>1
  <2>2. CASE DeleteEndpoint(w)
    <3>1. UNCHANGED <<owner, latest>>
      BY Zenon, <2>2 DEF DeleteEndpoint
    <3> QED BY Zenon, <2>2, <3>1
  <2> QED
    BY Zenon, <1>2, <2>1, <2>2 DEF TaskStep, RemoveAgent, DelEndpointKeys,
       agentHasLiveSession, ListEndpoints, NextEndpoint
<1>3. ASSUME w \in Conns, NEW e \in Endpoints, RegisterNew(w, e)
      PROVE  UNCHANGED <<owner, latest>>
  BY Zenon, <1>3 DEF RegisterNew
<1> QED
  BY Zenon, <1>1, <1>2, <1>3 DEF OwnStep, StartSweep, Drain, Dial, RegisterExisting

\* Which loops and redis events change the ownership key.
LEMMA EnvOwner ==
    ASSUME EnvStep
    PROVE  UNCHANGED owner \/ (\E n \in Nodes : heartbeat(n)) \/ Expire \/ WipeRedis
BY Zenon DEF EnvStep, LoopStep, HeartbeatSnapshot, handleKick, handleKickClose, Drop,
   LoseKick, ForceKick, ExpireEndpointKey, vars, redisVars

\* Without a fault in this step there was none before it.
LEMMA FaultsGrow ==
    ASSUME TypeOK, [Next]_vars, faults' = 0
    PROVE  faults = 0
<1>0. faults \in Nat
  BY ConstantsAssumption DEF TypeOK
<1>1. faults' = faults \/ faults' = faults + 1
  <2> USE DEF Fault, NoFault, auxVars
  <2>1. CASE EnvStep
    BY Zenon, <2>1 DEF EnvStep, LoopStep, HeartbeatSnapshot, heartbeat, handleKick,
       handleKickClose, Drop, LoseKick, ForceKick, Expire, WipeRedis, ExpireEndpointKey, vars
  <2>2. CASE StopStep
    BY Zenon, <2>2 DEF StopStep, Exit, Crash
  <2>3. ASSUME NEW w \in Workers, TaskStep(w) PROVE faults' = faults \/ faults' = faults + 1
    BY Zenon, <2>3 DEF TaskStep, RemoveAgent, releaseOwner, DelEndpointKeys,
       agentHasLiveSession, ListEndpoints, NextEndpoint, DeleteEndpoint
  <2>4. ASSUME NEW w \in Workers, OwnStep(w), ~TaskStep(w)
        PROVE  faults' = faults \/ faults' = faults + 1
    BY Zenon, <2>4 DEF OwnStep, ConnStep, claimAgent, AddAgent, CloseSuperseded, BindEndpoint,
       EndServe, Dial, RegisterNew, RegisterExisting, StartSweep, Drain
  <2> QED BY Zenon, <2>1, <2>2, <2>3, <2>4, NextCases
<1> QED BY <1>0, <1>1

\* How a worker that is cleaning up comes by the endpoints it handles.
LEMMA CleanEffect ==
    ASSUME TypeOK, NEW w \in Workers, OwnStep(w)
    PROVE  /\ pc'[w] \in Cleaning =>
                 \/ todo'[w] = {}
                 \/ pc[w] \in Cleaning \cup {"off"} /\ todo'[w] \subseteq todo[w] \cup eps
           /\ \/ cur'[w] \in {cur[w], NoEp}
              \/ pc[w] = "pick" /\ pc'[w] = "chk1" /\ cur'[w] \in todo[w]
           /\ pc'[w] \in {"chk3", "del"} => agentHasLiveSession(w)
<1>0. /\ pc \in [Workers -> Stage]
      /\ todo \in [Workers -> SUBSET Endpoints]
      /\ cur \in [Workers -> Endpoints \cup {NoEp}]
    BY Zenon DEF TypeOK
<1> USE <1>0 DEF Goto, taskVars
<1>1. CASE w \in Conns /\ (ConnStep(w) \/ EndServe(w))
  BY Zenon, <1>1 DEF Cleaning, ConnStep, claimAgent, AddAgent, CloseSuperseded, BindEndpoint, EndServe
<1>2. CASE RemoveAgent(w) \/ releaseOwner(w) \/ DelEndpointKeys(w)
  <2>1. UNCHANGED cur
    BY Zenon, <1>2 DEF RemoveAgent, releaseOwner, DelEndpointKeys
  <2>2. pc'[w] \in {"release", "delkeys"} \/ AfterRemove(w)
    BY Zenon, <1>2 DEF RemoveAgent, releaseOwner, DelEndpointKeys
  <2>3. AfterRemove(w) => todo'[w] = {} /\ pc'[w] \in {"chk1", "exit"}
    BY Zenon DEF AfterRemove
  <2> QED BY Zenon, <2>1, <2>2, <2>3 DEF Cleaning
<1>3. CASE agentHasLiveSession(w)
  <2>1. pc[w] \in {"chk1", "chk2", "chk3"} /\ (Live(w) \/ UNCHANGED <<todo, cur>>)
    BY Zenon, <1>3 DEF agentHasLiveSession, NotLive
  <2>2. Live(w) => todo'[w] \subseteq todo[w] /\ cur'[w] = NoEp
    BY DEF Live
  <2> QED BY Zenon, <1>3, <2>1, <2>2 DEF Cleaning
<1>4. CASE ListEndpoints(w) \/ NextEndpoint(w) \/ DeleteEndpoint(w)
  BY Zenon, <1>4 DEF Cleaning, ListEndpoints, NextEndpoint, DeleteEndpoint
<1>5. CASE /\ ~TaskStep(w)
           /\ ~(w \in Conns /\ (ConnStep(w) \/ EndServe(w)))
  BY Zenon, <1>5 DEF OwnStep, Cleaning, Dial, RegisterNew, RegisterExisting, StartSweep, Drain
<1> QED BY Zenon, <1>1, <1>2, <1>3, <1>4, <1>5 DEF TaskStep

\* Sessions come from Dial and enter the map from claimAgent.
LEMMA Forward ==
    ASSUME TypeOK, StageInv, [Next]_vars, NEW c \in Conns
    PROVE  /\ pc'[c] = "claim" => pc[c] \in {"off", "claim"}
           /\ pc'[c] = "insert" => pc[c] = "insert" \/ claimAgent(c)
           /\ pc[c] = "off" => pc'[c] = "off" \/ Dial(c, home'[c])
           /\ pc[c] = "off" /\ pc'[c] = "off" => home'[c] = home[c]
           /\ pc[c] = "done" => pc'[c] = "done"
<1>0. c \in Workers
  BY Zenon DEF Workers
<1>1. CASE StopStep
  <2>1. pc[c] = "off" => Untouched(c)
    BY Zenon, <1>0, <1>1, StopEffect DEF StageInv
  <2> QED BY Zenon, <1>0, <1>1, <2>1, StopEffect DEF Untouched
<1>2. CASE OwnStep(c)
  BY Zenon, <1>0, <1>2, OwnMoves, ConstantsAssumption DEF Starts, Serves, Cleans, After, Spared
<1> QED BY Zenon, <1>0, <1>1, <1>2, WorkerStep DEF Untouched

\* A session becomes current only by its own claim.
LEMMA CurrentStep ==
    ASSUME TypeOK, StageInv, MapEntryServed, PodInv, [Next]_vars,
           NEW c \in Conns, Current(c)', ~claimAgent(c)
    PROVE  Current(c) /\ pc[c] # "off" /\ home'[c] = home[c] /\ home[c] \in Nodes
<1>0. /\ Conns \subseteq Workers /\ NoConn \notin Conns
      /\ agents \in [Nodes -> Conns \cup {NoConn}]
      /\ \A w \in Workers : home[w] \in Nodes <=> pc[w] # "off"
  BY Zenon, ConstantsAssumption DEF TypeOK, Workers, StageInv
<1>1. latest = c
  <2>1. ASSUME NEW d \in Conns, claimAgent(d) PROVE latest' = latest \/ latest' = d
    BY Zenon, <2>1 DEF claimAgent
  <2>2. UNCHANGED latest \/ \E d \in Conns : claimAgent(d)
    BY Zenon, NextCases, OwnStores, EnvEffect, StopEffect
  <2> QED BY Zenon, <2>1, <2>2 DEF Current
<1>2. pc[c] # "off" /\ home'[c] = home[c] /\ home[c] \in Nodes
  BY Zenon, <1>0, <1>1, Onward DEF PodInv
<1>3. pc'[c] = "insert" => pc[c] = "insert"
  BY Zenon, Forward
<1>4. ASSUME agents'[home[c]] = c PROVE pc[c] = "insert" \/ agents[home[c]] = c
  <2>1. CASE StopStep
    BY Zenon, <1>0, <1>2, <1>4, <2>1, StopEffect
  <2>2. ASSUME NEW w \in Conns, AddAgent(w) PROVE pc[c] = "insert" \/ agents[home[c]] = c
    BY Zenon, <1>0, <1>2, <1>4, <2>2 DEF AddAgent
  <2>3. ASSUME NEW w \in Workers, RemoveAgent(w) PROVE agents[home[c]] = c
    <3>1. agents' = agents \/ agents' = [agents EXCEPT ![home[w]] = NoConn]
      BY Zenon, <2>3 DEF RemoveAgent, podVars
    <3> QED BY Zenon, <1>0, <1>2, <1>4, <3>1
  <2> QED BY Zenon, <1>4, <2>1, <2>2, <2>3, NextCases, OwnChanges, EnvEffect
<1> QED BY Zenon, <1>1, <1>2, <1>3, <1>4 DEF Current

\* A starting pod admits no session, and when sessions land on different
\* pods a drain that has emptied the map is alone on its pod.
LEMMA PodStep ==
    ASSUME HomesDiffer, TypeOK, TypeOK', StageInv, StageInv', DrainInv, MapEntryServed,
           PodInv, [Next]_vars
    PROVE  PodInv'
<1>0. /\ Conns \subseteq Workers /\ Sweepers \subseteq Workers /\ Drainers \subseteq Workers
      /\ \A x \in Sweepers \cup Drainers : x \notin Conns
      /\ \A x \in Sweepers : x \notin Drainers
      /\ NoConn \notin Conns
      /\ agents \in [Nodes -> Conns \cup {NoConn}]
      /\ victim \in [Workers -> Conns \cup {NoConn}]
      /\ \A w \in Workers : home[w] \in Nodes <=> pc[w] # "off"
      /\ \A w \in Workers : home'[w] \in Nodes <=> pc'[w] # "off"
  BY Zenon, ConstantsAssumption DEF TypeOK, Workers, StageInv
<1>1. ASSUME NEW s \in Sweepers, NEW c \in Conns, pc'[s] \in Cleaning, home'[c] = home'[s]
      PROVE  pc'[c] = "done"
  <2>0. pc'[s] \notin {"off", "done", "exit"}
    BY Zenon, <1>1 DEF Cleaning
  <2>1. CASE pc[s] \in Cleaning
    <3>1. pc[s] \notin {"off", "done"} /\ home'[s] = home[s]
      BY Zenon, <1>0, <2>1, Onward DEF Cleaning
    <3>2. ~Dial(c, home'[c])
      BY Zenon, <1>1, <3>1 DEF Dial, Starting
    <3>3. pc[c] # "off"
      BY Zenon, <1>0, <1>1, <2>0, <3>2, Forward
    <3> QED BY Zenon, <1>0, <1>1, <2>1, <3>1, <3>3, Onward, Forward DEF PodInv
  <2>2. CASE pc[s] \notin Cleaning
    <3>1. ~StopStep /\ ~Untouched(s)
      BY Zenon, <1>0, <1>1, <2>0, <2>2, StopEffect DEF Untouched
    <3>2. OwnStep(s)
      BY Zenon, <1>0, <3>1, WorkerStep
    <3>3. StartSweep(s, home'[s])
      BY Zenon, <1>0, <2>2, <3>2, OwnMoves DEF Starts, Serves, Cleans, Cleaning, StageInv
    <3>4. Untouched(c)
      BY Zenon, <1>0, <3>2, OthersUntouched
    <3> QED BY Zenon, <1>0, <1>1, <3>3, <3>4 DEF StartSweep, Untouched
  <2> QED BY Zenon, <2>1, <2>2
<1>2. ASSUME NEW d \in Drainers, NEW c \in Conns, pc'[d] = "release", home'[c] = home'[d]
      PROVE  pc'[c] \notin {"claim", "insert"} /\ agents'[home'[d]] # c
  <2>1. CASE pc[d] = "release"
    <3>1. home'[d] = home[d] /\ home[d] \in Nodes
      BY Zenon, <1>0, <2>1, Onward
    <3>2. ~Dial(c, home'[c])
      BY Zenon, <1>2, <2>1, <3>1 DEF Dial, Draining
    <3>3. pc[c] # "off" /\ home'[c] = home[c]
      BY Zenon, <1>0, <1>2, <3>1, <3>2, Forward, Onward
    <3>4. pc[c] \notin {"off", "claim", "insert"} /\ agents[home[d]] # c
      BY Zenon, <1>2, <2>1, <3>1, <3>3 DEF PodInv
    <3>5. pc'[c] \notin {"claim", "insert"}
      BY Zenon, <3>4, Forward DEF claimAgent
    <3>6. agents'[home[d]] # c
      <4>1. CASE StopStep
        BY Zenon, <1>0, <3>1, <3>4, <4>1, StopEffect
      <4>2. ASSUME NEW w \in Conns, AddAgent(w) PROVE agents'[home[d]] # c
        BY Zenon, <1>0, <3>1, <3>4, <4>2 DEF AddAgent
      <4>3. ASSUME NEW w \in Workers, RemoveAgent(w) PROVE agents'[home[d]] # c
        <5>1. agents' = agents \/ agents' = [agents EXCEPT ![home[w]] = NoConn]
          BY Zenon, <4>3 DEF RemoveAgent, podVars
        <5> QED BY Zenon, <1>0, <3>1, <3>4, <5>1
      <4> QED BY Zenon, <3>4, <4>1, <4>2, <4>3, NextCases, OwnChanges, EnvEffect
    <3> QED BY Zenon, <3>1, <3>5, <3>6
  <2>2. CASE pc[d] # "release"
    <3>1. ~StopStep /\ ~Untouched(d)
      BY Zenon, <1>0, <1>2, <2>2, StopEffect DEF Untouched
    <3>2. OwnStep(d)
      BY Zenon, <1>0, <3>1, WorkerStep
    <3>3. RemoveAgent(d) /\ home'[d] = home[d] /\ pc[d] = "remove"
      BY Zenon, <1>0, <1>2, <2>2, <3>2, OwnMoves DEF Starts, Serves, Cleans, After, Spared
    <3>4. Untouched(c)
      BY Zenon, <1>0, <3>2, OthersUntouched
    <3>5. agents[home[d]] = victim[d] /\ agents'[home[d]] = NoConn
      BY Zenon, <1>0, <1>2, <3>3 DEF RemoveAgent, Holds, Removed, AfterRemove, Goto, TypeOK
    <3>6. victim[d] \in Conns /\ home[victim[d]] = home[d] /\ pc[victim[d]] \in InMap \cup {"remove"}
      BY Zenon, <1>0, <3>3, <3>5 DEF DrainInv, MapEntryServed
    <3>7. c = victim[d]
      <4>1. home[c] = home[d] /\ pc[c] # "off" /\ pc[victim[d]] # "off"
        BY Zenon, <1>0, <1>2, <3>3, <3>4, <3>6 DEF Untouched, InMap
      <4> QED BY Zenon, <3>6, <4>1 DEF HomesDiffer, StageInv
    <3> QED BY Zenon, <1>0, <3>3, <3>4, <3>5, <3>6, <3>7 DEF Untouched, InMap
  <2> QED BY Zenon, <2>1, <2>2
<1>3. ASSUME latest' # NoConn PROVE pc'[latest'] \notin {"off", "claim"}
  <2>1. ASSUME NEW c \in Conns, claimAgent(c) PROVE latest' = latest \/ (latest' = c /\ pc'[c] = "insert")
    BY Zenon, <1>0, <2>1 DEF claimAgent, Goto, TypeOK
  <2>2. UNCHANGED latest \/ \E c \in Conns : claimAgent(c)
    BY Zenon, NextCases, OwnStores, EnvEffect, StopEffect
  <2>3. CASE latest' = latest
    <3>1. latest \in Conns /\ pc[latest] \notin {"off", "claim"}
      BY Zenon, <1>3, <2>3 DEF PodInv, TypeOK
    <3> QED BY Zenon, <1>0, <2>3, <3>1, Onward, Forward
  <2> QED BY Zenon, <2>1, <2>2, <2>3
<1> QED BY Zenon, <1>1, <1>2, <1>3 DEF PodInv

\* Endpoint ids are never reused.
LEMMA EndpointStep ==
    ASSUME TypeOK, StageInv, EndpointInv, [Next]_vars
    PROVE  EndpointInv'
<1>0. /\ Conns \subseteq Workers /\ NoConn \notin Conns /\ NoEp \notin Endpoints
      /\ creator \in [Endpoints -> Conns \cup {NoConn}]
      /\ \A w \in Workers : home[w] \in Nodes <=> pc[w] # "off"
  BY Zenon, ConstantsAssumption DEF TypeOK, Workers, StageInv
<1>1. ASSUME NEW w \in Conns, NEW f \in Endpoints, RegisterNew(w, f)
      PROVE  /\ creator' = [creator EXCEPT ![f] = w] /\ eps' = eps \cup {f}
             /\ pc'[w] = "bind"
  BY Zenon, <1>0, <1>1 DEF RegisterNew, Goto, TypeOK
<1>2. ASSUME NEW w \in Workers, DeleteEndpoint(w)
      PROVE  creator' = creator /\ eps' \subseteq eps
  BY Zenon, <1>2 DEF DeleteEndpoint
<1>3. ASSUME NEW e \in Endpoints, creator'[e] = NoConn
      PROVE  creator[e] = NoConn /\ e \notin eps'
  <2>1. CASE UNCHANGED <<eps, creator>>
    BY Zenon, <1>3, <2>1 DEF EndpointInv
  <2>2. ASSUME NEW w \in Conns, NEW f \in Endpoints, RegisterNew(w, f)
        PROVE  creator[e] = NoConn /\ e \notin eps'
    BY <1>0, <1>1, <1>3, <2>2 DEF EndpointInv
  <2>3. ASSUME NEW w \in Workers, DeleteEndpoint(w)
        PROVE  creator[e] = NoConn /\ e \notin eps'
    BY Zenon, <1>2, <1>3, <2>3 DEF EndpointInv
  <2> QED BY Zenon, <2>1, <2>2, <2>3, NextCases, OwnStores, EnvEffect, StopEffect
<1>4. ASSUME NEW e \in Endpoints, creator'[e] = NoConn, NEW w \in Workers
      PROVE  cur'[w] # e /\ (pc'[w] \in Cleaning \cup {"off"} => e \notin todo'[w])
  <2>0. creator[e] = NoConn /\ cur[w] # e /\ e # NoEp /\ e \notin eps
        /\ (pc[w] \in Cleaning \cup {"off"} => e \notin todo[w])
    BY Zenon, <1>0, <1>3, <1>4 DEF EndpointInv
  <2>1. CASE Untouched(w)
    BY Zenon, <2>0, <2>1 DEF Untouched
  <2>2. CASE OwnStep(w)
    <3>1. pc'[w] # "off"
      BY Zenon, <2>2, OwnMoves DEF Starts, Serves, Cleans, After, Spared
    <3>2. "pick" \in Cleaning
      BY Zenon DEF Cleaning
    <3> QED BY <2>0, <2>2, <3>1, <3>2, CleanEffect
  <2>3. CASE StopStep
    BY Zenon, <2>0, <2>1, <2>3, StopEffect
  <2> QED BY Zenon, <2>1, <2>2, <2>3, WorkerStep
<1>5. ASSUME NEW c \in Conns, NEW e \in Endpoints, creator'[e] = c
      PROVE  pc'[c] \notin {"off", "claim", "insert"}
  <2>1. CASE creator[e] = c
    <3>1. pc[c] \notin {"off", "claim", "insert"}
      BY Zenon, <2>1 DEF EndpointInv
    <3> QED BY Zenon, <1>0, <3>1, Onward, Forward DEF claimAgent
  <2>2. CASE creator[e] # c
    BY Zenon, <1>0, <1>1, <1>2, <1>5, <2>2, NextCases, OwnStores, EnvEffect, StopEffect
  <2> QED BY Zenon, <2>1, <2>2
<1> QED BY Zenon, <1>3, <1>4, <1>5 DEF EndpointInv

\* Only the newest session itself gives its ownership up.
LEMMA OwnerStep ==
    ASSUME HomesDiffer, TypeOK, StageInv, MapEntryServed, PodInv, NewestOwns,
           [Next]_vars
    PROVE  NewestOwns'
<1> SUFFICES ASSUME faults' = 0, NEW c \in Conns, Current(c)'
             PROVE  owner' = home'[c]
  BY Zenon DEF NewestOwns
<1>0. /\ Conns \subseteq Workers /\ NoConn \notin Conns /\ NoNode \notin Nodes
      /\ agents \in [Nodes -> Conns \cup {NoConn}]
      /\ faults = 0 /\ faults' # faults + 1
      /\ Workers = Conns \cup Sweepers \cup Drainers
  BY FaultsGrow, ConstantsAssumption DEF TypeOK, Workers
<1>1. CASE claimAgent(c)
  <2>1. latest # c
    BY Zenon, <1>1, ConstantsAssumption DEF claimAgent, PodInv
  <2> QED BY Zenon, <1>0, <1>1, <2>1 DEF claimAgent, Current, Fault, sessVars
<1>2. CASE ~claimAgent(c)
  <2>1. Current(c) /\ pc[c] # "off" /\ home'[c] = home[c] /\ home[c] \in Nodes
    BY Zenon, <1>2, CurrentStep
  <2>2. owner = home[c]
    BY Zenon, <1>0, <2>1 DEF NewestOwns
  <2>3. pc[c] = "insert" \/ (agents[home[c]] = c /\ pc[c] \in InMap \cup {"remove"})
    BY Zenon, <1>0, <2>1 DEF Current, MapEntryServed
  <2>4. ASSUME NEW d \in Conns, claimAgent(d) PROVE owner' = owner
    BY Zenon, <1>2, <2>4 DEF claimAgent, Current
  <2>5. ASSUME NEW w \in Workers, releaseOwner(w) PROVE owner' = owner
    <3>0. pc[w] = "release"
      BY Zenon, <2>5 DEF releaseOwner
    <3>1. SUFFICES ASSUME home[w] = owner PROVE FALSE
      BY Zenon, <2>5 DEF releaseOwner, Owns
    <3>2. CASE w \in Conns
      <4>1. w # c
        BY Zenon, <2>3, <3>0 DEF InMap
      <4> QED BY Zenon, <1>0, <2>1, <2>2, <3>0, <3>1, <3>2, <4>1 DEF HomesDiffer, StageInv
    <3>3. CASE w \in Drainers
      BY Zenon, <2>2, <2>3, <3>0, <3>1, <3>3 DEF PodInv
    <3>4. w \notin Sweepers
      BY Zenon, <3>0 DEF StageInv, Cleaning
    <3> QED BY Zenon, <1>0, <3>2, <3>3, <3>4
  <2>6. ASSUME NEW n \in Nodes, heartbeat(n) PROVE owner' = owner
    BY Zenon, <1>0, <2>1, <2>2, <2>6 DEF heartbeat, Refreshes
  <2>7. ~Expire
    BY Zenon, <2>1, <2>2, <2>3, <1>0 DEF Expire
  <2>8. ~WipeRedis
    BY Zenon, <1>0 DEF WipeRedis, Fault
  <2>9. owner' = owner
    BY Zenon, <2>4, <2>5, <2>6, <2>7, <2>8, NextCases, OwnStores, EnvOwner, StopEffect
  <2> QED BY Zenon, <2>1, <2>2, <2>9
<1> QED BY Zenon, <1>1, <1>2

\* A clean-up that holds an endpoint of the newest session runs on another
\* pod, where agentHasLiveSession finds the owner in redis.
LEMMA CleanerStep ==
    ASSUME HomesDiffer, TypeOK, StageInv, MapEntryServed, PodInv, EndpointInv,
           NewestOwns, CleanerInv, [Next]_vars
    PROVE  CleanerInv'
<1> SUFFICES ASSUME faults' = 0, NEW c \in Conns, NEW e \in Endpoints, NEW w \in Workers,
                    Current(c)', creator'[e] = c, pc'[w] \in {"chk3", "del"}, cur'[w] = e
             PROVE  FALSE
  BY Zenon DEF CleanerInv
<1>0. /\ Conns \subseteq Workers /\ NoConn \notin Conns /\ NoEp \notin Endpoints
      /\ creator \in [Endpoints -> Conns \cup {NoConn}]
      /\ faults = 0 /\ faults' # faults + 1
      /\ Workers = Conns \cup Sweepers \cup Drainers
      /\ \A x \in Workers : pc[x] # "off" => home[x] \in Nodes
  BY FaultsGrow, ConstantsAssumption DEF TypeOK, Workers, StageInv
<1>1. creator[e] = c
  <2>1. ASSUME NEW d \in Conns, RegisterNew(d, e) PROVE FALSE
    <3>1. creator[e] = NoConn /\ cur' = cur
      BY Zenon, <2>1 DEF RegisterNew, taskVars
    <3> QED BY Zenon, <3>1 DEF EndpointInv
  <2>2. ASSUME NEW d \in Conns, NEW f \in Endpoints, RegisterNew(d, f) PROVE creator[e] = c
    BY Zenon, <1>0, <2>1, <2>2 DEF RegisterNew
  <2>3. ASSUME NEW x \in Workers, DeleteEndpoint(x) PROVE creator' = creator
    BY Zenon, <2>3 DEF DeleteEndpoint
  <2> QED BY Zenon, <2>2, <2>3, NextCases, OwnStores, EnvEffect, StopEffect
<1>2. ~claimAgent(c)
  BY Zenon, <1>1 DEF claimAgent, EndpointInv
<1>3. Current(c) /\ home[c] \in Nodes /\ owner = home[c]
  BY Zenon, <1>0, <1>2, CurrentStep DEF NewestOwns
<1>4. CASE pc[w] \in {"chk3", "del"} /\ cur[w] = e
  BY Zenon, <1>0, <1>1, <1>3, <1>4 DEF CleanerInv
<1>5. CASE ~(pc[w] \in {"chk3", "del"} /\ cur[w] = e)
  <2>1. ~StopStep /\ ~Untouched(w)
    BY Zenon, <1>0, <1>5, StopEffect DEF Untouched
  <2>2. agentHasLiveSession(w)
    BY Zenon, <2>1, WorkerStep, CleanEffect
  <2>3. ~Live(w)
    BY Zenon, <1>0 DEF Live, TypeOK
  <2>4. cur' = cur
    BY Zenon, <2>2, <2>3 DEF agentHasLiveSession, NotLive, taskVars
  <2>5. pc[w] \in {"chk1", "chk2"}
    BY Zenon, <1>5, <2>2, <2>4 DEF agentHasLiveSession
  <2>6. pc[w] = "chk2" /\ ~OwnerElsewhere(home[w])
    BY Zenon, <1>0, <2>2, <2>3, <2>5 DEF agentHasLiveSession, Goto, Fault, TypeOK
  <2>7. home[w] = home[c] /\ w # c
    BY Zenon, <1>0, <1>3, <2>6 DEF OwnerElsewhere, Current, MapEntryServed, InMap
  <2>8. pc[c] # "off" /\ pc[c] # "done"
    BY <1>3, <1>0 DEF Current, MapEntryServed, InMap, StageInv
  <2>9. w \notin Conns
    BY Zenon, <2>6, <2>7, <2>8 DEF HomesDiffer, StageInv
  <2>10. w \notin Sweepers
    BY Zenon, <2>6, <2>7, <2>8 DEF PodInv, Cleaning
  <2>11. w \notin Drainers
    BY Zenon, <2>6 DEF StageInv
  <2> QED BY Zenon, <1>0, <2>9, <2>10, <2>11
<1> QED BY Zenon, <1>4, <1>5

\* So no clean-up deletes it.
LEMMA SurviveStep ==
    ASSUME TypeOK, StageInv, MapEntryServed, PodInv, EndpointInv,
           CleanerInv, LiveEndpointSurvives, [Next]_vars
    PROVE  LiveEndpointSurvives'
<1> SUFFICES ASSUME faults' = 0, NEW c \in Conns, NEW e \in Endpoints,
                    Current(c)', creator'[e] = c
             PROVE  e \in eps'
  BY Zenon DEF LiveEndpointSurvives
<1>0. /\ Conns \subseteq Workers /\ faults = 0
      /\ creator \in [Endpoints -> Conns \cup {NoConn}]
  BY Zenon, FaultsGrow DEF TypeOK, Workers
<1>1. ASSUME creator[e] = c PROVE e \in eps /\ Current(c)
  <2>1. ~claimAgent(c)
    BY Zenon, <1>1 DEF claimAgent, EndpointInv
  <2> QED BY Zenon, <1>0, <1>1, <2>1, CurrentStep DEF LiveEndpointSurvives
<1>2. ASSUME NEW d \in Conns, NEW f \in Endpoints, RegisterNew(d, f) PROVE e \in eps'
  BY Zenon, <1>0, <1>1, <1>2 DEF RegisterNew
<1>3. ASSUME NEW w \in Workers, DeleteEndpoint(w) PROVE e \in eps'
  <2>1. creator[e] = c /\ pc[w] = "del" /\ eps' = eps \ ({cur[w]} \cap Ephemeral)
    BY Zenon, <1>3 DEF DeleteEndpoint
  <2> QED BY Zenon, <1>0, <1>1, <2>1 DEF CleanerInv
<1> QED BY Zenon, <1>1, <1>2, <1>3, NextCases, OwnStores, EnvEffect, StopEffect

\* When no two sessions land on the same pod and redis answers, the newest
\* session keeps the ownership and its endpoints, for any number of pods.
THEOREM NewestSessionSafe ==
    HomesDiffer => (Spec => [](NewestOwns /\ LiveEndpointSurvives))
<1> SUFFICES ASSUME HomesDiffer PROVE Spec => [](NewestOwns /\ LiveEndpointSurvives)
  OBVIOUS
<1> USE ConstantsAssumption
<1>1. Init => OwnerInv
  BY DEF Init, OwnerInv, PodInv, EndpointInv, NewestOwns, CleanerInv,
         LiveEndpointSurvives, Current, Workers, Cleaning
<1>2. SessionInv /\ SessionInv' /\ OwnerInv /\ [Next]_vars => OwnerInv'
  BY Zenon, PodStep, EndpointStep, OwnerStep, CleanerStep, SurviveStep
  DEF SessionInv, OwnerInv
<1>3. OwnerInv => NewestOwns /\ LiveEndpointSurvives
  BY Zenon DEF OwnerInv
<1> QED BY <1>1, <1>2, <1>3, SessionInvariant, PTL DEF Spec

\* The ownership by itself: the key names the pod of the newest session for as
\* long as it is in the map (claimAgent, releaseAgent and the heartbeat), for any
\* number of pods and sessions.
THEOREM NewestSessionOwns == HomesDiffer => (Spec => []NewestOwns)
<1> SUFFICES ASSUME HomesDiffer PROVE Spec => []NewestOwns
  OBVIOUS
<1>1. Spec => [](NewestOwns /\ LiveEndpointSurvives)
  BY NewestSessionSafe
<1>2. (NewestOwns /\ LiveEndpointSurvives) => NewestOwns
  OBVIOUS
<1> QED BY <1>1, <1>2, PTL
=============================================================================
