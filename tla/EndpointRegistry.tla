--------------------------- MODULE EndpointRegistry ---------------------------
(***************************************************************************)
(* The endpoints of one organisation: agents register them over their      *)
(* session, SSH clients by remote forwarding, users through the API.  A    *)
(* row of the store, the public port it holds and the binding that routes  *)
(* to the agent are three records that change one after the other.         *)
(*                                                                         *)
(* Each store call, port call and binding call is a step; the ports are    *)
(* the listeners of one server, or the claims in redis of a cluster, which *)
(* outlive a server that crashes.                                          *)
(***************************************************************************)
EXTENDS Naturals, FiniteSets

CONSTANTS
  Agents,        \* agents that connect over a websocket
  SshAgents,     \* agents that stand for one SSH session
  Subs,          \* subdomains
  Names,         \* connect names of private endpoints
  PortRange,     \* public ports, PortMin to PortMax
  MaxEndpoints,  \* the quota of the organisation
  MaxIds,        \* bound: endpoints ever made
  MaxEvents      \* bound: connects, API requests, sweeps and crashes

None == "none"
All == Agents \cup SshAgents
Free == 0

VARIABLES
  cluster,   \* whether ports are claimed in redis
  rows,      \* the endpoints table
  held,      \* the endpoint that holds each port
  bound,     \* the agent each endpoint is routed to
  task,      \* what the session of each agent is doing
  cleanup,   \* endpoints an ended session of each agent still has to clean up
  api,       \* the API request under way
  newID,     \* the last identifier made
  events,    \* connects, API requests, sweeps and crashes so far
  loose      \* endpoints that were edited or removed without their port

registryVars == <<cluster, rows, held, bound, task, cleanup, api, newID, events, loose>>

Spec0 == [kind |-> None, sub |-> None, name |-> None, port |-> Free, id |-> 0]
Off == [pc |-> "off", spec |-> Spec0]
Serving == [pc |-> "serve", spec |-> Spec0]
At(pc, spec) == [pc |-> pc, spec |-> spec]
NoRow == [id |-> 0, agent |-> None, kind |-> None, sub |-> None, name |-> None, port |-> Free, life |-> None]
Rested == [pc |-> "idle", row |-> NoRow]
Clean == [pc |-> "done", todo |-> {}, row |-> NoRow]

Live(a) == task[a].pc # "off"
Exists(id) == \E r \in rows : r.id = id
RowsOf(a) == {r \in rows : r.agent = a}
HeldBy(id) == {p \in PortRange : held[p] = id}

TypeOK ==
  /\ \A r \in rows : r.id \in 1 .. MaxIds /\ r.agent \in All /\ r.port \in {Free} \cup PortRange
  /\ \A r, s \in rows : r.id = s.id => r = s
  /\ held \in [PortRange -> 0 .. MaxIds]
  /\ bound \in [1 .. MaxIds -> All \cup {None}]
  /\ loose \subseteq 1 .. MaxIds /\ newID \in 0 .. MaxIds /\ events \in 0 .. MaxEvents

Init ==
  /\ cluster \in BOOLEAN
  /\ rows = {} /\ held = [p \in PortRange |-> Free] /\ bound = [i \in 1 .. MaxIds |-> None]
  /\ task = [a \in All |-> Off] /\ cleanup = [a \in All |-> Clean] /\ api = Rested
  /\ newID = 0 /\ events = 0 /\ loose = {}

-----------------------------------------------------------------------------
(* The store, the ports and the bindings.                                  *)

\* The unique index on subdomains is all that keeps two rows apart.
Conflicts(row) == row.sub # None /\ \E r \in rows : r.sub = row.sub /\ r.id # row.id

CreateEndpoint(row) == rows' = rows \cup {row}

\* UPDATE ... WHERE id: a row that is gone stays gone.
UpdateEndpoint(row) == rows' = {IF r.id = row.id THEN row ELSE r : r \in rows}

DeleteEndpoint(id) == rows' = {r \in rows : r.id # id}

CountEndpoints == Cardinality(rows)

GetEndpointBySubdomain(sub) == {r \in rows : r.sub = sub}

\* The oldest row with the name.
FindConnectEndpoint(name) ==
  LET named == {r \in rows : r.name = name} IN {r \in named : \A s \in named : r.id <= s.id}

\* What a server's listeners answer to Open: the port the endpoint has, the port
\* it asks for, or the first free one.
Listening(id, requested) ==
  IF HeldBy(id) # {} THEN HeldBy(id)
  ELSE LET free == {p \in PortRange : held[p] = Free}
       IN IF requested # Free THEN {requested} \cap free ELSE {p \in free : \A q \in free : p <= q}

\* What the claim script of a cluster answers: the same, decided in redis.
Claim(id, requested) == Listening(id, requested)

Open(id, requested) == IF cluster THEN Claim(id, requested) ELSE Listening(id, requested)

CloseListener(id) == [p \in PortRange |-> IF held[p] = id THEN Free ELSE held[p]]

Release(id) == CloseListener(id)

Close(id) == IF cluster THEN Release(id) ELSE CloseListener(id)

BindEndpoint(id, a) == bound' = [bound EXCEPT ![id] = a]

UnbindEndpoint(id) == bound' = [bound EXCEPT ![id] = None]

-----------------------------------------------------------------------------
(* Sessions.                                                               *)

Event == events < MaxEvents /\ events' = events + 1

Session(a, t) == task' = [task EXCEPT ![a] = t]

Connect(a) ==
  /\ Event
  /\ ~Live(a)
  /\ a \in SshAgents => cleanup[a] = Clean
  /\ Session(a, Serving)
  /\ UNCHANGED <<cluster, rows, held, bound, cleanup, api, newID, loose>>

\* The answer to a registration that fails; the session goes on.
Refuse(a) == Session(a, Serving) /\ UNCHANGED <<rows, held, bound, newID>>

BindExisting(a, r) == BindEndpoint(r.id, a) /\ Session(a, Serving)

RebindOwn(a, r) == BindExisting(a, r) /\ UNCHANGED <<rows, held, newID>>

Begin(a, spec) == Session(a, At("quota", spec)) /\ UNCHANGED <<rows, held, bound, newID>>

RegisterHostBased(a, kind, sub) ==
  LET existing == GetEndpointBySubdomain(sub)
  IN IF existing = {} THEN Begin(a, [Spec0 EXCEPT !.kind = kind, !.sub = sub])
     ELSE \E r \in existing : IF r.agent = a /\ r.kind = kind THEN RebindOwn(a, r) ELSE Refuse(a)

ConnectNameOwner(name) == FindConnectEndpoint(name)

\* A private endpoint that is known gets its new policy, which is not modelled.
RegisterPrivate(a, name) ==
  LET owner == ConnectNameOwner(name)
  IN IF owner = {} THEN Begin(a, [Spec0 EXCEPT !.kind = "tcp", !.name = name])
     ELSE \E r \in owner : IF r.agent = a /\ r.kind = "tcp" /\ r.port = Free THEN RebindOwn(a, r) ELSE Refuse(a)

\* A port asked for that is on a row of the agent is opened for that row.
RegisterPort(a, port) ==
  LET own == {r \in RowsOf(a) : r.kind = "tcp" /\ r.port = port}
      first == {r \in own : \A s \in own : r.id <= s.id}
  IN IF port = Free \/ own = {} THEN Begin(a, [Spec0 EXCEPT !.kind = "tcp", !.port = port])
     ELSE \E r \in first :
       /\ Session(a, At("reopen", [Spec0 EXCEPT !.kind = "tcp", !.port = port, !.id = r.id]))
       /\ UNCHANGED <<rows, held, bound, newID>>

RegisterOne(a) ==
  /\ a \in Agents /\ task[a].pc = "serve"
  /\ \/ \E kind \in {"http", "tls"}, sub \in Subs : RegisterHostBased(a, kind, sub)
     \/ \E name \in Names : RegisterPrivate(a, name)
     \/ \E port \in {Free} \cup PortRange : RegisterPort(a, port)
  /\ UNCHANGED <<cluster, cleanup, api, events, loose>>

\* A name of another agent is not fought for: the forward gets a random one.
AllocSubdomain(a, sub) == IF \E r \in GetEndpointBySubdomain(sub) : r.agent # a THEN None ELSE sub

ProvisionForward(a) ==
  /\ a \in SshAgents /\ task[a].pc = "serve"
  /\ \/ \E sub \in Subs : Begin(a, [Spec0 EXCEPT !.kind = "http", !.sub = AllocSubdomain(a, sub)])
     \/ \E port \in {Free} \cup PortRange : Begin(a, [Spec0 EXCEPT !.kind = "tcp", !.port = port])
  /\ UNCHANGED <<cluster, cleanup, api, events, loose>>

CheckEndpointQuota(a) ==
  /\ task[a].pc = "quota"
  /\ IF CountEndpoints >= MaxEndpoints THEN Refuse(a)
     ELSE /\ newID < MaxIds /\ newID' = newID + 1
          /\ Session(a, At(IF task[a].spec.kind = "tcp" /\ task[a].spec.name = None THEN "port" ELSE "insert",
                           [task[a].spec EXCEPT !.id = newID + 1]))
          /\ UNCHANGED <<rows, held, bound>>
  /\ UNCHANGED <<cluster, cleanup, api, events, loose>>

OpenPort(a) ==
  /\ task[a].pc = "port"
  /\ LET spec == task[a].spec
         got == Open(spec.id, spec.port)
     IN \/ got = {} /\ Refuse(a)
        \/ \E p \in got :
             /\ held' = [held EXCEPT ![p] = spec.id]
             /\ Session(a, At("insert", [spec EXCEPT !.port = p]))
             /\ UNCHANGED <<rows, bound, newID>>
  /\ UNCHANGED <<cluster, cleanup, api, events, loose>>

ReopenPort(a) ==
  /\ task[a].pc = "reopen"
  /\ LET spec == task[a].spec
         got == Open(spec.id, spec.port)
     IN \/ got = {} /\ Refuse(a)
        \/ \E p \in got :
             /\ held' = [held EXCEPT ![p] = spec.id]
             /\ BindEndpoint(spec.id, a) /\ Session(a, Serving) /\ UNCHANGED <<rows, newID>>
  /\ UNCHANGED <<cluster, cleanup, api, events, loose>>

NewRow(a, spec) ==
  [id |-> spec.id, agent |-> a, kind |-> spec.kind, sub |-> spec.sub, name |-> spec.name, port |-> spec.port,
   life |-> "ephemeral"]

\* The insert commits, or the store refuses it or fails.
InsertEndpoint(a) ==
  /\ task[a].pc = "insert"
  /\ LET row == NewRow(a, task[a].spec)
     IN \/ /\ ~Conflicts(row) /\ CreateEndpoint(row)
           /\ Session(a, At("bind", task[a].spec))
        \/ Session(a, At("undo", task[a].spec)) /\ UNCHANGED rows
  /\ UNCHANGED <<cluster, held, bound, cleanup, api, newID, events, loose>>

BindNew(a) ==
  /\ task[a].pc = "bind"
  /\ BindEndpoint(task[a].spec.id, a) /\ Session(a, Serving)
  /\ UNCHANGED <<cluster, rows, held, cleanup, api, newID, events, loose>>

\* A mutant: the port of an endpoint that could not be saved stays open.
BugUndoPort(spec) == held

\* The port of an endpoint that could not be saved is closed.
UndoPort(spec) == IF spec.port # Free THEN Close(spec.id) ELSE held

\* A mutant: whoever has the subdomain.
BugOwnSubdomainEndpoint(a, spec) == {r \in GetEndpointBySubdomain(spec.sub) : spec.sub # None /\ r.kind = spec.kind}

\* Two sessions of one agent may have registered the same subdomain.
OwnSubdomainEndpoint(a, spec) ==
  {r \in GetEndpointBySubdomain(spec.sub) : spec.sub # None /\ r.agent = a /\ r.kind = spec.kind}

UndoEndpoint(a) ==
  /\ task[a].pc = "undo"
  /\ LET own == IF a \in Agents THEN OwnSubdomainEndpoint(a, task[a].spec) ELSE {}
     IN /\ held' = UndoPort(task[a].spec)
        /\ IF own = {} THEN Session(a, Serving) /\ UNCHANGED bound ELSE \E r \in own : BindExisting(a, r)
  /\ UNCHANGED <<cluster, rows, cleanup, api, newID, events, loose>>

\* cancel-tcpip-forward of an SSH client.
CancelForward(a) ==
  /\ a \in SshAgents /\ task[a].pc = "serve"
  /\ \E id \in {i \in 1 .. MaxIds : bound[i] = a} :
       /\ held' = Close(id) /\ UnbindEndpoint(id) /\ DeleteEndpoint(id)
  /\ UNCHANGED <<cluster, task, cleanup, api, newID, events, loose>>

-----------------------------------------------------------------------------
(* The end of a session.                                                   *)

\* RemoveAgent drops the bindings, then the endpoints are listed.
Disconnect(a) ==
  /\ task[a].pc = "serve" /\ cleanup[a] = Clean
  /\ Session(a, Off)
  /\ bound' = [i \in 1 .. MaxIds |-> IF bound[i] = a THEN None ELSE bound[i]]
  /\ cleanup' = [cleanup EXCEPT ![a] = [pc |-> "next", todo |-> RowsOf(a), row |-> NoRow]]
  /\ UNCHANGED <<cluster, rows, held, api, newID, events, loose>>

Cleaning(a, c) == cleanup' = [cleanup EXCEPT ![a] = c]

\* Before each endpoint the gateway looks whether the agent has come back.
CleanupNext(a) ==
  /\ cleanup[a].pc = "next"
  /\ \/ (cleanup[a].todo = {} \/ (a \in Agents /\ Live(a))) /\ Cleaning(a, Clean)
     \/ /\ a \in Agents => ~Live(a)
        /\ \E r \in cleanup[a].todo : Cleaning(a, [pc |-> "close", todo |-> cleanup[a].todo \ {r}, row |-> r])
  /\ UNCHANGED <<cluster, rows, held, bound, task, api, newID, events, loose>>

\* It goes by the row it listed.  An SSH session closes whatever port there is.
CleanupClose(a) ==
  /\ cleanup[a].pc = "close"
  /\ LET r == cleanup[a].row
     IN held' = IF r.kind = "tcp" /\ (r.port # Free \/ a \in SshAgents) THEN Close(r.id) ELSE held
  /\ Cleaning(a, [cleanup[a] EXCEPT !.pc = "delete"])
  /\ UNCHANGED <<cluster, rows, bound, task, api, newID, events, loose>>

\* A reserved endpoint keeps its row.  An agent that has come back since may have
\* opened the port again.
CleanupDelete(a) ==
  /\ cleanup[a].pc = "delete"
  /\ LET r == cleanup[a].row
     IN IF r.life = "ephemeral"
        THEN DeleteEndpoint(r.id) /\ loose' = (IF Live(a) THEN loose \cup {r.id} ELSE loose)
        ELSE UNCHANGED <<rows, loose>>
  /\ Cleaning(a, [cleanup[a] EXCEPT !.pc = "next", !.row = NoRow])
  /\ UNCHANGED <<cluster, held, bound, task, api, newID, events>>

\* The sweep removes the rows of agents that are gone, and leaves their ports.
SweepOrphanedEphemeral(r) ==
  /\ Event /\ r.life = "ephemeral" /\ ~Live(r.agent)
  /\ DeleteEndpoint(r.id) /\ loose' = loose \cup {r.id}
  /\ UNCHANGED <<cluster, held, bound, task, cleanup, api, newID>>

\* The server stops without its defers: its listeners close with it, claims in
\* redis stay.
Crash ==
  /\ Event /\ \E a \in All : Live(a) \/ cleanup[a] # Clean
  /\ held' = (IF cluster THEN held ELSE [p \in PortRange |-> Free])
  /\ loose' = loose \cup ({held'[p] : p \in PortRange} \ {Free})
  /\ bound' = [i \in 1 .. MaxIds |-> None]
  /\ task' = [a \in All |-> Off] /\ cleanup' = [a \in All |-> Clean] /\ api' = Rested
  /\ UNCHANGED <<cluster, rows, newID>>

-----------------------------------------------------------------------------
(* The API.                                                                *)

CreateEndpointHandler ==
  /\ Event /\ api.pc = "idle" /\ newID < MaxIds /\ CountEndpoints < MaxEndpoints
  /\ newID' = newID + 1
  /\ \E a \in Agents, kind \in {"http", "tcp"}, sub \in Subs \cup {None}, port \in {Free} \cup PortRange :
       /\ kind = "http" => port = Free
       /\ kind = "tcp" => sub = None
       /\ api' = [pc |-> "create", row |-> [id |-> newID', agent |-> a, kind |-> kind, sub |-> sub, name |-> None,
                                            port |-> port, life |-> "reserved"]]
  /\ UNCHANGED <<cluster, rows, held, bound, task, cleanup, loose>>

PatchEndpointHandler ==
  /\ Event /\ api.pc = "idle"
  /\ \E r \in rows :
       \/ \E sub \in Subs \cup {None} : api' = [pc |-> "update", row |-> [r EXCEPT !.sub = sub]]
       \/ \E port \in {Free} \cup PortRange : api' = [pc |-> "update", row |-> [r EXCEPT !.port = port]]
  /\ UNCHANGED <<cluster, rows, held, bound, task, cleanup, newID, loose>>

\* The store takes the row or reports a conflict or a failure.
SaveEndpoint ==
  /\ api.pc \in {"create", "update"}
  /\ \/ /\ ~Conflicts(api.row)
        /\ IF api.pc = "create" THEN CreateEndpoint(api.row) /\ UNCHANGED loose
           ELSE /\ UpdateEndpoint(api.row)
                /\ loose' = (IF api.row.kind = "tcp" /\ api.row.port = Free THEN loose \cup {api.row.id} ELSE loose)
     \/ UNCHANGED <<rows, loose>>
  /\ api' = Rested
  /\ UNCHANGED <<cluster, held, bound, task, cleanup, newID, events>>

\* The handler removes the row, then the binding; nothing closes the port.
DeleteEndpointHandler ==
  /\ Event /\ api.pc = "idle"
  /\ \E r \in rows : api' = [pc |-> "unbind", row |-> r] /\ DeleteEndpoint(r.id) /\ loose' = loose \cup {r.id}
  /\ UNCHANGED <<cluster, held, bound, task, cleanup, newID>>

UnbindDeleted ==
  /\ api.pc = "unbind"
  /\ UnbindEndpoint(api.row.id) /\ api' = Rested
  /\ UNCHANGED <<cluster, rows, held, task, cleanup, newID, events, loose>>

Next ==
  \/ \E a \in All :
       \/ Connect(a) \/ RegisterOne(a) \/ ProvisionForward(a) \/ CheckEndpointQuota(a) \/ OpenPort(a) \/ ReopenPort(a)
       \/ InsertEndpoint(a) \/ BindNew(a) \/ UndoEndpoint(a) \/ CancelForward(a)
       \/ Disconnect(a) \/ CleanupNext(a) \/ CleanupClose(a) \/ CleanupDelete(a)
  \/ \E r \in rows : SweepOrphanedEphemeral(r)
  \/ Crash
  \/ CreateEndpointHandler \/ PatchEndpointHandler \/ SaveEndpoint \/ DeleteEndpointHandler \/ UnbindDeleted

Spec == Init /\ [][Next]_registryVars

-----------------------------------------------------------------------------
(* Properties.                                                             *)

\* Traffic for an endpoint goes to the agent whose row it is, whoever else asked
\* for its subdomain, its port or its connect name meanwhile.
BindingsOwned == \A r \in rows : bound[r.id] \in {None, r.agent}

\* A port is held for an endpoint that is in the store, or by a registration or a
\* cleanup that is still at work on it.  Ports are lost only where the row was
\* edited or removed without the gateway: by the API, by the sweep, by a crash, or
\* by a cleanup that the agent overtook.
PortsAccounted ==
  \A p \in PortRange : held[p] # Free =>
    \/ Exists(held[p]) \/ held[p] \in loose
    \/ \E a \in All : task[a].spec.id = held[p] /\ task[a].pc \in {"insert", "undo"}
=============================================================================
