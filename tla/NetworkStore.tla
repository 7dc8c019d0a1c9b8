----------------------------- MODULE NetworkStore -----------------------------
(***************************************************************************)
(* Endpoints, connections, services and the hostnames that connections     *)
(* publish for endpoints, in one organisation: the rows that refer to each *)
(* other, and the requests that read some of them and write others later.  *)
(* A write is one transaction that no other write of these rows overlaps   *)
(* (beginNetworkWrite), and a deletion of an endpoint, which Postgres runs *)
(* without that lock, is one statement that leaves the same rows wherever  *)
(* it falls.  A behaviour starts with connections nothing refers to yet.   *)
(* Hostnames are normalised ones, and the kind of an endpoint is left out, *)
(* which no caller changes.                                                *)
(***************************************************************************)
EXTENDS Naturals

CONSTANTS
  Endpoints, Conns, Services, Hosts,
  Jobs,          \* requests, and the runs of a connection that publish hostnames
  MaxOps         \* bound: jobs that begin

VARIABLES
  ep,        \* rows of endpoints: domain, service and hostname per connection
  conn,      \* rows of connections: the revision of all of it and of its configuration
  svc,       \* rows of services: the services it requires, the connections it uses
  alias,     \* rows of endpoint_aliases, with the configuration they were published by
  job,       \* what a job has read and is about to write
  ops

netVars == <<ep, conn, svc, alias, job, ops>>

None == "none"
Default == "default"     \* no hostname is asked for: the connection names it

\* A row is new before its id is made and gone afterwards, as ids are not used twice.
NewRow(r) == r = [st |-> "new"]
Live(r) == r.st = "row"
Gone == [st |-> "gone"]

Access == UNION {[cs -> Hosts \cup {Default}] : cs \in SUBSET Conns}
EndpointRows == [st : {"row"}, domain : Hosts \cup {None}, svc : Services \cup {None}, access : Access]
ServiceRows == [st : {"row"}, requires : SUBSET Services, conns : SUBSET Conns, rev : 1 .. MaxOps]
ConnRows == [st : {"row"}, rev : 1 .. MaxOps, cfg : 1 .. MaxOps]
NoAlias == [st |-> "none"]
Idle == [op |-> None]

LiveIn(table, ids) == {x \in ids : Live(table[x])}

Init ==
  /\ ep = [e \in Endpoints |-> [st |-> "new"]]
  /\ conn = [c \in Conns |-> [st |-> "row", rev |-> 1, cfg |-> 1]]
  /\ svc = [s \in Services |-> [st |-> "new"]]
  /\ alias = [h \in Hosts |-> NoAlias]
  /\ job = [j \in Jobs |-> Idle]
  /\ ops = 0

TypeOK ==
  /\ \A e \in Endpoints : NewRow(ep[e]) \/ ep[e] = Gone \/ ep[e] \in EndpointRows
  /\ \A c \in Conns : conn[c] = Gone \/ conn[c] \in ConnRows
  /\ \A s \in Services : NewRow(svc[s]) \/ svc[s] = Gone \/ svc[s] \in ServiceRows
  /\ \A h \in Hosts : alias[h] = NoAlias \/ (alias[h].ep \in Endpoints /\ alias[h].conn \in Conns)
  /\ ops \in 0 .. MaxOps

Start(j, record) ==
  /\ job[j] = Idle /\ ops < MaxOps /\ ops' = ops + 1
  /\ job' = [job EXCEPT ![j] = record]
  /\ UNCHANGED <<ep, conn, svc, alias>>

Reads(j, op) == job[j].op = op
End(j) == job' = [job EXCEPT ![j] = Idle] /\ UNCHANGED ops

\* The write is refused, or the request is given up before it.
Refused(j) == job[j] # Idle /\ End(j) /\ UNCHANGED <<ep, conn, svc, alias>>

\* DELETE FROM endpoint_aliases WHERE ...
Without(gone) == [h \in Hosts |-> IF h \in gone THEN NoAlias ELSE alias[h]]
Aliased == {h \in Hosts : alias[h] # NoAlias}

-----------------------------------------------------------------------------
(* Endpoints.                                                              *)

\* validateNetworkPolicy reads the service and the connections of the policy and
\* keeps the connections as it saw them.
ValidateNetworkPolicy(row) ==
  /\ row.svc # None => Live(svc[row.svc])
  /\ \A c \in DOMAIN row.access : Live(conn[c])
  /\ \A c, d \in DOMAIN row.access : c # d => row.access[c] # row.access[d]

Snapshots(row) == [c \in DOMAIN row.access |-> conn[c]]

\* createEndpointHandler, and patchEndpointHandler with the row that it read.
CreateEndpointHandler(j, e, row) ==
  /\ NewRow(ep[e]) /\ \A i \in Jobs : job[i].op = "endpoint" => job[i].ep # e
  /\ ValidateNetworkPolicy(row)
  /\ Start(j, [op |-> "endpoint", ep |-> e, update |-> FALSE, row |-> row, snaps |-> Snapshots(row)])

PatchEndpointHandler(j, e, row) ==
  /\ Live(ep[e])
  /\ ValidateNetworkPolicy(row)
  /\ Start(j, [op |-> "endpoint", ep |-> e, update |-> TRUE, row |-> row, snaps |-> Snapshots(row)])

\* Another endpoint asks one of the connections for the same hostname.
ValidateAccessClaims(e, row) ==
  \A o \in LiveIn(ep, Endpoints) \ {e} : \A c \in DOMAIN row.access \cap DOMAIN ep[o].access :
    row.access[c] = Default \/ row.access[c] # ep[o].access[c]

\* A mutant: hostnames that are published for another endpoint are not looked at.
BugValidateEndpointReferences(e, row, snaps) ==
  /\ \A c \in DOMAIN snaps : conn[c] = snaps[c]
  /\ row.domain # None => \A o \in LiveIn(ep, Endpoints) \ {e} : ep[o].domain # row.domain
  /\ row.svc # None => Live(svc[row.svc])
  /\ \A c \in DOMAIN row.access : Live(conn[c])
  /\ ValidateAccessClaims(e, row)

ValidateEndpointReferences(e, row, snaps) ==
  /\ \A c \in DOMAIN snaps : conn[c] = snaps[c]
  /\ row.domain # None =>
       /\ alias[row.domain] # NoAlias => alias[row.domain].ep = e
       /\ \A o \in LiveIn(ep, Endpoints) \ {e} : ep[o].domain # row.domain
  /\ row.svc # None => Live(svc[row.svc])
  /\ \A c \in DOMAIN row.access : Live(conn[c])
  /\ ValidateAccessClaims(e, row)

\* A mutant: aliases go only with the reference to their connection.
BugClearChangedEndpointAliases(e, row) ==
  Without({h \in Aliased : alias[h].ep = e /\ alias[h].conn \in DOMAIN ep[e].access \ DOMAIN row.access})

\* The aliases of a connection go when the endpoint no longer asks it for the same.
ClearChangedEndpointAliases(e, row) ==
  LET kept == {c \in DOMAIN ep[e].access \cap DOMAIN row.access : ep[e].access[c] = row.access[c]} IN
  Without({h \in Aliased : alias[h].ep = e /\ alias[h].conn \in DOMAIN ep[e].access \ kept})

WriteEndpoint(j) ==
  LET e == job[j].ep  row == job[j].row IN
  /\ Reads(j, "endpoint") /\ End(j)
  /\ job[j].update => Live(ep[e])
  /\ ValidateEndpointReferences(e, row, job[j].snaps)
  /\ alias' = IF job[j].update THEN ClearChangedEndpointAliases(e, row) ELSE alias
  /\ ep' = [ep EXCEPT ![e] = row]
  /\ UNCHANGED <<conn, svc>>

\* The aliases of the endpoint go with it.
DeleteEndpoint(e) ==
  /\ Live(ep[e])
  /\ ep' = [ep EXCEPT ![e] = Gone]
  /\ alias' = Without({h \in Aliased : alias[h].ep = e})
  /\ UNCHANGED <<conn, svc, job, ops>>

-----------------------------------------------------------------------------
(* Connections.                                                            *)

\* saveConnection of a connection that exists, and deleteConnectionHandler.
SaveConnection(j, c, newcfg) == Live(conn[c]) /\ Start(j, [op |-> "save", conn |-> c, seen |-> conn[c], newcfg |-> newcfg])

DeleteConnectionHandler(j, c) == Live(conn[c]) /\ Start(j, [op |-> "delete", conn |-> c, seen |-> conn[c]])

\* A mutant: what was published by the configuration before is kept.
BugCommitConnectionInput(c, newcfg) == alias

CommitConnectionInput(c, newcfg) == IF newcfg THEN Without({h \in Aliased : alias[h].conn = c}) ELSE alias

UpdateConnectionIfCurrent(j) ==
  LET c == job[j].conn  rev == conn[c].rev + 1 IN
  /\ Reads(j, "save") /\ End(j)
  /\ conn[c] = job[j].seen /\ rev <= MaxOps
  /\ conn' = [conn EXCEPT ![c] = [st |-> "row", rev |-> rev, cfg |-> IF job[j].newcfg THEN rev ELSE @.cfg]]
  /\ alias' = CommitConnectionInput(c, job[j].newcfg)
  /\ UNCHANGED <<ep, svc>>

ConnectionInUse(c) ==
  \/ \E s \in LiveIn(svc, Services) : c \in svc[s].conns
  \/ \E h \in Aliased : alias[h].conn = c
  \/ \E e \in LiveIn(ep, Endpoints) : c \in DOMAIN ep[e].access

DeleteConnection(j) ==
  LET c == job[j].conn IN
  /\ Reads(j, "delete") /\ End(j)
  /\ conn[c] = job[j].seen /\ ~ConnectionInUse(c)
  /\ conn' = [conn EXCEPT ![c] = Gone]
  /\ UNCHANGED <<ep, svc, alias>>

\* A run of the connection has published hostnames for endpoints as it read them.
Publish(j, c, hosts) ==
  /\ Live(conn[c])
  /\ \A h \in DOMAIN hosts :
       /\ Live(ep[hosts[h]]) /\ c \in DOMAIN ep[hosts[h]].access
       /\ ep[hosts[h]].access[c] \in {h, Default}
  /\ Start(j, [op |-> "publish", conn |-> c, seen |-> conn[c],
               names |-> [h \in DOMAIN hosts |-> [ep |-> hosts[h], asked |-> ep[hosts[h]].access[c]]]])

\* validateAliasAccess: the endpoint still asks the connection for this.
ValidateAliasAccess(c, name) ==
  Live(ep[name.ep]) /\ c \in DOMAIN ep[name.ep].access /\ ep[name.ep].access[c] = name.asked

ReplaceConnectionAliases(j) ==
  LET c == job[j].conn  names == job[j].names
      others == Without({h \in Aliased : alias[h].conn = c}) IN
  /\ Reads(j, "publish") /\ End(j)
  /\ conn[c] = job[j].seen
  /\ \A h \in DOMAIN names :
       /\ ValidateAliasAccess(c, names[h])
       /\ \A o \in LiveIn(ep, Endpoints) : ep[o].domain = h => o = names[h].ep
       /\ others[h] = NoAlias
  /\ alias' = [h \in Hosts |->
       IF h \in DOMAIN names THEN [st |-> "row", ep |-> names[h].ep, conn |-> c, cfg |-> job[j].seen.cfg] ELSE others[h]]
  /\ UNCHANGED <<ep, conn, svc>>

-----------------------------------------------------------------------------
(* Services.                                                               *)

\* A mutant: only the requirements of this service are followed, and only one step.
BugValidateRequirements(s, requires) ==
  requires \subseteq LiveIn(svc, Services) /\ s \notin requires

\* ValidateRequirements, of the graph with this service in it: every requirement is a
\* service, and following requirements never comes back.
ValidateRequirements(s, requires) ==
  LET edges(t) == IF t = s THEN requires ELSE svc[t].requires
      graph == LiveIn(svc, Services) \cup {s} IN
  /\ \A t \in graph : edges(t) \subseteq graph
  /\ \A part \in SUBSET graph \ {{}} : \E t \in part : edges(t) \cap part = {}

\* The transaction goes on when the service is as the request has read it.
WithServiceSnapshots(j) == svc[job[j].svc] = job[j].seen

\* The request has read the service, or is about to make one.
SaveService(j, s, requires, conns) ==
  /\ svc[s] # Gone /\ s \notin requires
  /\ Start(j, [op |-> "service", svc |-> s, seen |-> svc[s], requires |-> requires, conns |-> conns])

DeleteServiceHandler(j, s) ==
  Live(svc[s]) /\ Start(j, [op |-> "remove", svc |-> s, seen |-> svc[s]])

\* createServiceTx and updateServiceTx; the foreign key of service_connections refuses a
\* connection that is gone.
WriteService(j) ==
  LET s == job[j].svc  rev == IF Live(svc[s]) THEN svc[s].rev + 1 ELSE 1 IN
  /\ Reads(j, "service") /\ End(j)
  /\ WithServiceSnapshots(j) /\ rev <= MaxOps
  /\ ValidateRequirements(s, job[j].requires)
  /\ \A c \in job[j].conns : Live(conn[c])
  /\ svc' = [svc EXCEPT ![s] = [st |-> "row", requires |-> job[j].requires, conns |-> job[j].conns, rev |-> rev]]
  /\ UNCHANGED <<ep, conn, alias>>

CheckServiceDelete(s) ==
  /\ \A t \in LiveIn(svc, Services) : s \notin svc[t].requires
  /\ \A e \in LiveIn(ep, Endpoints) : ep[e].svc # s

DeleteService(j) ==
  LET s == job[j].svc IN
  /\ Reads(j, "remove") /\ End(j)
  /\ WithServiceSnapshots(j) /\ CheckServiceDelete(s)
  /\ svc' = [svc EXCEPT ![s] = Gone]
  /\ UNCHANGED <<ep, conn, alias>>

-----------------------------------------------------------------------------
Begins(j) ==
  /\ job[j] = Idle /\ ops < MaxOps
  /\ \/ \E e \in Endpoints, row \in EndpointRows : CreateEndpointHandler(j, e, row) \/ PatchEndpointHandler(j, e, row)
     \/ \E c \in Conns :
          \/ DeleteConnectionHandler(j, c) \/ \E newcfg \in BOOLEAN : SaveConnection(j, c, newcfg)
          \/ \E hosts \in UNION {[hs -> Endpoints] : hs \in SUBSET Hosts} : Publish(j, c, hosts)
     \/ \E s \in Services :
          \/ DeleteServiceHandler(j, s)
          \/ \E requires \in SUBSET Services, conns \in SUBSET Conns : SaveService(j, s, requires, conns)

Next ==
  \/ \E j \in Jobs :
       \/ Begins(j) \/ Refused(j) \/ WriteEndpoint(j) \/ UpdateConnectionIfCurrent(j) \/ DeleteConnection(j)
       \/ ReplaceConnectionAliases(j) \/ WriteService(j) \/ DeleteService(j)
  \/ \E e \in Endpoints : DeleteEndpoint(e)

Spec == Init /\ [][Next]_netVars

-----------------------------------------------------------------------------
(* Properties.                                                             *)

\* A published hostname leads to an endpoint that asks the connection for it, was
\* published by the configuration that the connection has, and is nobody else's domain
\* (ReplaceConnectionAliases, ClearChangedEndpointAliases, commitConnectionInput).
AliasesJustified ==
  /\ \A h \in Aliased :
       LET a == alias[h] IN
       /\ Live(ep[a.ep]) /\ a.conn \in DOMAIN ep[a.ep].access
       /\ ep[a.ep].access[a.conn] \in {h, Default}
       /\ Live(conn[a.conn]) /\ conn[a.conn].cfg = a.cfg
       /\ \A o \in LiveIn(ep, Endpoints) : ep[o].domain = h => o = a.ep
  /\ \A e, o \in LiveIn(ep, Endpoints) : e # o /\ ep[e].domain # None => ep[e].domain # ep[o].domain

\* What a row refers to exists, whatever was deleted between the checks of a request
\* and its write, and the services have an order in which each follows what it requires
\* (ValidateEndpointReferences, ValidateRequirements and the checks of the deletions).
ReferencesHold ==
  /\ \A e \in LiveIn(ep, Endpoints) :
       /\ ep[e].svc # None => Live(svc[ep[e].svc])
       /\ \A c \in DOMAIN ep[e].access : Live(conn[c])
  /\ \A s \in LiveIn(svc, Services) :
       /\ \A t \in svc[s].requires : Live(svc[t])
       /\ \A c \in svc[s].conns : Live(conn[c])
  /\ \E rank \in [Services -> 1 .. MaxOps] : \A s \in LiveIn(svc, Services) : \A t \in svc[s].requires : rank[t] < rank[s]

================================================================================
