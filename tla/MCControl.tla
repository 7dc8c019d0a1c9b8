------------------------------ MODULE MCControl ------------------------------
(***************************************************************************)
(* Two groups of components.  Users and agents at both ends of their       *)
(* sessions (ControlSpec): the members of an organisation with the         *)
(* transactions of the SQLite and of the Postgres store, rotation of       *)
(* refresh tokens, the index sets of the session store, the one-time login *)
(* codes, the tokens of an agent and of service accounts, the logins of    *)
(* browsers, and the agent's connection loop, decryption intermediate and  *)
(* leaf certificates, and the secrets of the organisation.                 *)
(*                                                                         *)
(* What an organisation publishes (ConnectionsSpec): the hub that runs the *)
(* providers of its connections, the publishers of two of them, the        *)
(* registry of endpoints, the health of those the server forwards itself,  *)
(* the domains it has claimed, the relay that takes a stream to the node   *)
(* of its agent, the limits of its endpoints, and the rows that refer to   *)
(* each other.                                                             *)
(*                                                                         *)
(* The components of a group meet in rows of the store at most and share   *)
(* no lock, so a behaviour is one of one component (part).                 *)
(***************************************************************************)
EXTENDS Membership, TLC

CONSTANTS
  RefreshReqs, MaxTid, i1, i2, i3, LoginCalls, Device, Consent, Refs, Static, Streams, MaxSess,
  MaxGen, MaxVer, OnVersions, DecryptCallers, Hosts, LeafCalls, MaxLeaves, MaxTokens, Browsers,
  Site, g1, g2, m1, m2, start, k1, k2, e1, e2, s1, s2, none, a1, a2, a3, sub, name, o1

\* The part that moves, and the variables the parts take turns to use.
VARIABLES part, x1, x2, x3, x4, x5, x6, x7, x8, x9, x10, x11, x12, x13, x14, x15

Ids == {i1, i2, i3}
Visitors == {g1, g2}

\* What the control plane has for the two people who log in.
KnownVisitors ==
  {g1 :> "invited" @@ g2 :> "absent", g1 :> "password" @@ g2 :> "absent", g1 :> "invited" @@ g2 :> "password"}

\* One assertion for each key of the issuer.
SignedAssertions ==
  {[jti |-> 1, kid |-> 1, aud |-> "api", iat |-> 0, exp |-> 1],
   [jti |-> 2, kid |-> 2, aud |-> "api", iat |-> 1, exp |-> 2]}

\* The organisation before anybody registered.
Resting == Init /\ account = {}

\* A call fails or is cancelled; an endpoint changes; the server stops.
HubBudgets == {[faults |-> 1, triggers |-> 0, closes |-> 0],
               [faults |-> 0, triggers |-> 1, closes |-> 0],
               [faults |-> 0, triggers |-> 0, closes |-> 1]}

C(faults, edits, operator, direct) ==
  [faults |-> faults, edits |-> edits, operator |-> operator, direct |-> direct]

CfBudgets == {C(0, 3, 0, 0), C(2, 2, 0, 0), C(1, 2, 1, 0), C(0, 2, 0, 1)}

T(faults, edits, operator, loads) ==
  [faults |-> faults, edits |-> edits, operator |-> operator, loads |-> loads]

TsBudgets == {T(0, 4, 0, 1), T(2, 2, 0, 1), T(1, 2, 1, 1)}

Forwarded(targets, lb, service) == [method |-> "proxy", targets |-> targets, lb |-> lb, service |-> service]

ProxyConfigs ==
  {Forwarded(<<1, 2, 3>>, "sticky", FALSE), Forwarded(<<2, 1>>, "failover", TRUE), Forwarded(<<>>, "failover", TRUE),
   [method |-> "agent", targets |-> <<>>, lb |-> "none", service |-> FALSE]}

Refresh == INSTANCE RefreshRotation WITH
  Reqs <- RefreshReqs,
  live <- x1, tid <- x2, grace <- x3, claimed <- x4, file <- x5, client <- x6, settled <- x7,
  req <- x8, pres <- x9, snap <- x10, reused <- x11, late <- x12

\* Sessions of one lifetime: i1 of an agent, the others of a browser.
Index == INSTANCE SessionIndex WITH
  AtEndpoint <- {i2, i3}, AgentTTL <- 2, BrowserTTL <- 2, MaxTime <- 3,
  now <- x1, expires <- x2, version <- x3, members <- x4, idxExp <- x5, put <- x6, rotate <- x7,
  readTTL <- x8, watched <- x9, listed <- x10

Codes == INSTANCE LoginCodes WITH
  Calls <- LoginCalls,
  keys <- x1, expired <- x2, polled <- x3, call <- x4, answer <- x5, sessions <- x6

Tokens == INSTANCE AgentTokens WITH
  MaxOps <- 4,
  status <- x1, valid <- x2, issued <- x3, conn <- x4, req <- x5, ops <- x6, dead <- x7

\* A minute of everything: a step of the clock ends what is kept for a while.
Logins == INSTANCE BrowserLogin WITH
  Endpoints <- {Site}, Users <- Visitors, MaxFlows <- 2, MaxCodes <- 1, MaxKeys <- 2, MaxNow <- 2,
  KeysTTL <- 1, RefreshMin <- 1, StateTTL <- 0, CodeTTL <- 1, ReauthAge <- 0,
  now <- x1, flow <- x2, cookie <- x3, session <- x4, code <- x5, account <- x6, allowed <- x7,
  key <- x8, keys <- x9, forced <- x10

Machines == INSTANCE MachineTokens WITH
  Accounts <- {m1, m2}, Reqs <- Reqs, Assertions <- SignedAssertions, Kids <- {1, 2},
  Auds <- {"api"}, MaxSecret <- 2, MaxSess <- 1, MaxOps <- 3, MaxNow <- 2, KeysTTL <- 1,
  UnknownKidBackoff <- 1, ClockSkew <- 1, MaxLifetime <- 1, AccessTokenTTL <- 2,
  sa <- x1, trust <- x2, sess <- x3, once <- x4, cache <- x5, key <- x6, left <- x7, req <- x8,
  now <- x9, ops <- x10, issued <- x11, made <- x12, ended <- x13, used <- x14

\* The transactions of two connections.
Postgres == INSTANCE PostgresMembers WITH
  Txs <- Reqs, MaxOps <- 4,
  member <- x1, account <- x2, invite <- x3, op <- x4, pc <- x5, user <- x6, inv <- x7, to <- x8,
  inserted <- x9, overtaken <- x10, ops <- x11

Agent == INSTANCE AgentRun WITH
  phase <- x1, sess <- x2, backoff <- x3, cause <- x4, fate <- x5, ack <- x6, bindings <- x7,
  acked <- x8, targets <- x9, registered <- x10, streams <- x11

Decrypt == INSTANCE Decryptor WITH
  Callers <- DecryptCallers,
  ver <- x1, owed <- x2, flushMsg <- x3, session <- x4, gen <- x5, bound <- x6, state <- x7,
  disabled <- x8, retryAt <- x9, run <- x10, rerun <- x11, timer <- x12, caller <- x13

Vault == INSTANCE SecretVault WITH
  Nodes <- Refs, MaxValue <- 2, MaxNow <- 1, TTL <- 1, Readers <- DecryptCallers,
  row <- x1, put <- x2, cache <- x3, gen <- x4, writer <- x5, reader <- x6, due <- x7, lost <- x8,
  now <- x9

Leaves == INSTANCE LeafCache WITH
  Calls <- LeafCalls,
  leaves <- x1, order <- x2, inflight <- x3, calls <- x4

Hub == INSTANCE ConnectionHub WITH
  Handlers <- {k1, k2}, Starter <- start, MaxVersion <- 2, Budgets <- HubBudgets,
  row <- x1, last <- x2, config <- x3, aliases <- x4, closed <- x5, started <- x6, admission <- x7,
  installed <- x8, runs <- x9, status <- x10, statusRec <- x11, failure <- x12, call <- x13,
  told <- x14, budget <- x15

Cf == INSTANCE CloudflarePublisher WITH
  Conns <- {k1, k2}, MaxIds <- 4, Budgets <- CfBudgets,
  want <- x1, rule <- x2, dns <- x3, shared <- x4, apps <- x5, policies <- x6, drifted <- x7,
  ids <- x8, store <- x9, status <- x10, sync <- x11, synced <- x12, tampered <- x13,
  budget <- x14

Ts == INSTANCE TailscalePublisher WITH
  Conns <- {k1, k2}, Endpoints <- {e1, e2}, None <- none, MaxIds <- 3, Budgets <- TsBudgets,
  want <- x1, svc <- x2, serve <- x3, adv <- x4, ids <- x5, tags <- x6, store <- x7, cache <- x8,
  loading <- x9, sync <- x10, synced <- x11, budget <- x12

\* A quota of two endpoints for one subdomain, one private name and one public port.
Registry == INSTANCE EndpointRegistry WITH
  Agents <- {k1, k2}, SshAgents <- {a3}, Subs <- {sub}, Names <- {name}, PortRange <- {1},
  MaxEndpoints <- 2, MaxIds <- 2, MaxEvents <- 3,
  cluster <- x1, rows <- x2, held <- x3, bound <- x4, task <- x5, cleanup <- x6, api <- x7,
  newID <- x8, events <- x9, loose <- x10

Domains == INSTANCE DomainClaims WITH
  Orgs <- {k1, k2}, Reqs <- {e1, e2}, MaxOps <- 6,
  claim <- x1, txt <- x2, holder <- x3, req <- x4, ops <- x5, proved <- x6

Health == INSTANCE ProxyHealth WITH
  Endpoints <- {e1}, Targets <- {1, 2, 3}, Configs <- ProxyConfigs,
  Score <- (1 :> 5 @@ 2 :> 7 @@ 3 :> 6), MaxChanges <- 3, MaxSweeps <- 2, Wrap <- 6,
  eps <- x1, up <- x2, bound <- x3, service <- x4, results <- x5, sweep <- x6, probe <- x7,
  counter <- x8, stream <- x9, calm <- x10, changes <- x11

Relay == INSTANCE ClusterRelay WITH
  Calls <- {k1, k2}, MaxSess <- 2, MaxNow <- 2, Skew <- 1, Ahead <- 1, MaxStreams <- 1,
  closed <- x1, peer <- x2, flight <- x3, conn <- x4, served <- x5, stamp <- x6, seen <- x7,
  accepted <- x8, call <- x9, stream <- x10, shut <- x11, now <- x12

Limits == INSTANCE RateLimiter WITH
  Reqs <- {e1, e2}, VerifyKeys <- {name}, RateKeys <- {k1, k2}, Capacity <- 2, PerToken <- 1,
  MaxPerShard <- 2, EvictSamples <- 2, SweepInterval <- 1, CacheTTL <- 1, MaxStarts <- 4,
  MaxNow <- 2,
  shared <- x1, buckets <- x2, lastSweep <- x3, exact <- x4, forgiven <- x5, locks <- x6,
  held <- x7, refs <- x8, req <- x9, lockout <- x10, known <- x11, compared <- x12, starts <- x13,
  now <- x14

Network == INSTANCE NetworkStore WITH
  Endpoints <- {e1, e2}, Conns <- {o1}, Services <- {s1, s2}, Hosts <- {a1, a2}, Jobs <- {k1, k2},
  MaxOps <- 4,
  ep <- x1, conn <- x2, svc <- x3, alias <- x4, job <- x5, ops <- x6

\* Later starts, which the components reach: the two owners are being removed, and the
\* transaction of one has counted the owners; the agent has a second session, and the
\* reader of the first one still holds its acknowledgement.
OwnersLeaving ==
  \E first \in Reqs : \E u \in Users, v \in Users :
    /\ u # v
    /\ x1 = [w \in Users |-> [role |-> "owner", off |-> FALSE]] /\ x2 = Users /\ x3 = {}
    /\ x4 = [t \in Reqs |-> "keep"]
    /\ x5 = [t \in Reqs |-> IF t = first THEN "write" ELSE "lock"]
    /\ x6 = [t \in Reqs |-> IF t = first THEN u ELSE v]
    /\ x7 = [t \in Reqs |-> "none"] /\ x8 = [t \in Reqs |-> "removed"]
    /\ x9 = {} /\ x10 = {} /\ x11 = 2

LateAck ==
  /\ x1 = "up" /\ x2 = 2 /\ x3 = 2 /\ x4 = "none" /\ x5 = "running"
  /\ x6 = <<"read", "none">> /\ x7 = <<Refs, {}>>
  /\ x8 = FALSE /\ x9 = {} /\ x10 = {} /\ x11 = [x \in Streams |-> Agent!NoStream]

\* Behaviours also start later, in states that those of Init come to: the hub has
\* loaded the one connection, or the first connection has published the host, behind the
\* shared application or its own.
HubLoaded ==
  /\ x1 = 1 /\ x2 = 1 /\ x3 = <<1, 2>> /\ x4 = Hub!None
  /\ x5 = FALSE /\ x6 = TRUE /\ x7 = Hub!NoCaller /\ x8 = 1
  /\ x9 = <<[Hub!Free EXCEPT !.version = 1, !.st = "live", !.running = TRUE, !.sync = "wait"], Hub!Free>>
  /\ x10 = "initial" /\ x11 = 1 /\ x12 = Hub!None
  /\ x13 = [c \in {start, k1, k2} |-> IF c = start THEN [Hub!Idle EXCEPT !.pc = "done"] ELSE Hub!Idle]
  /\ x14 = {} /\ x15 \in HubBudgets

CfPublished ==
  /\ x2 = "made" /\ x7 = {} /\ x10 = (k1 :> "published" @@ k2 :> "none")
  /\ x11 = Cf!Idle /\ x12 = {k1} /\ x13 = FALSE
  /\ \/ /\ x1 = (k1 :> "shared" @@ k2 :> "none")
        /\ x3 = 1 /\ x4 = "made" /\ x5 = {} /\ x6 = {} /\ x8 = 1
        /\ x9 = (k1 :> [Cf!NoRoute EXCEPT !.ingress = TRUE, !.dns = 1, !.access = TRUE] @@ k2 :> Cf!NoRoute)
        /\ x14 = [left |-> C(0, 2, 0, 0), spent |-> {"edits"}]
     \/ /\ x1 = (k1 :> "own" @@ k2 :> "none")
        /\ x3 = 3 /\ x4 = "none" /\ x5 = {2} /\ x6 = {1} /\ x8 = 3
        /\ x9 = (k1 :> [Cf!NoRoute EXCEPT !.ingress = TRUE, !.dns = 3, !.app = 2, !.policy = 1] @@ k2 :> Cf!NoRoute)
        /\ x14 = [left |-> C(2, 1, 0, 0), spent |-> {"edits"}]

all == <<part, memVars, x1, x2, x3, x4, x5, x6, x7, x8, x9, x10, x11, x12, x13, x14, x15>>

ControlInit ==
  \/ /\ part = "members" /\ Init
     /\ x1 = 0 /\ x2 = 0 /\ x3 = 0 /\ x4 = 0 /\ x5 = 0 /\ x6 = 0 /\ x7 = 0 /\ x8 = 0
     /\ x9 = 0 /\ x10 = 0 /\ x11 = 0 /\ x12 = 0 /\ x13 = 0 /\ x14 = 0 /\ x15 = 0
  \/ /\ part = "refresh" /\ Refresh!Init /\ Resting
     /\ x13 = 0 /\ x14 = 0 /\ x15 = 0
  \/ /\ part = "index" /\ Index!Init /\ Resting
     /\ x11 = 0 /\ x12 = 0 /\ x13 = 0 /\ x14 = 0 /\ x15 = 0
  \/ /\ part = "codes" /\ Codes!Init /\ Resting
     /\ x7 = 0 /\ x8 = 0 /\ x9 = 0 /\ x10 = 0 /\ x11 = 0 /\ x12 = 0 /\ x13 = 0 /\ x14 = 0
     /\ x15 = 0
  \/ /\ part = "tokens" /\ Tokens!Init /\ Resting
     /\ x8 = 0 /\ x9 = 0 /\ x10 = 0 /\ x11 = 0 /\ x12 = 0 /\ x13 = 0 /\ x14 = 0 /\ x15 = 0
  \/ /\ part = "logins" /\ Logins!Init /\ Resting
     /\ x6 \in KnownVisitors
     /\ x11 = 0 /\ x12 = 0 /\ x13 = 0 /\ x14 = 0 /\ x15 = 0
  \/ /\ part = "machines" /\ Machines!Init /\ Resting
     /\ x15 = 0
  \/ /\ part = "postgres" /\ (Postgres!Init \/ OwnersLeaving) /\ Resting
     /\ x12 = 0 /\ x13 = 0 /\ x14 = 0 /\ x15 = 0
  \/ /\ part = "run" /\ (Agent!Init \/ LateAck) /\ Resting
     /\ x12 = 0 /\ x13 = 0 /\ x14 = 0 /\ x15 = 0
  \/ /\ part = "decrypt" /\ Decrypt!Init /\ Resting
     /\ x14 = 0 /\ x15 = 0
  \/ /\ part = "vault" /\ Vault!Init /\ Resting
     /\ x10 = 0 /\ x11 = 0 /\ x12 = 0 /\ x13 = 0 /\ x14 = 0 /\ x15 = 0
  \/ /\ part = "leaves" /\ Leaves!Init /\ Resting
     /\ x5 = 0 /\ x6 = 0 /\ x7 = 0 /\ x8 = 0 /\ x9 = 0 /\ x10 = 0 /\ x11 = 0 /\ x12 = 0
     /\ x13 = 0 /\ x14 = 0 /\ x15 = 0

ControlNext ==
  \/ part = "members" /\ Next /\ UNCHANGED <<part, x1, x2, x3, x4, x5, x6, x7, x8, x9, x10, x11, x12, x13, x14, x15>>
  \/ part = "refresh" /\ Refresh!Next /\ UNCHANGED <<part, memVars, x13, x14, x15>>
  \/ part = "index" /\ Index!Next /\ UNCHANGED <<part, memVars, x11, x12, x13, x14, x15>>
  \/ part = "codes" /\ Codes!Next /\ UNCHANGED <<part, memVars, x7, x8, x9, x10, x11, x12, x13, x14, x15>>
  \/ part = "tokens" /\ Tokens!Next /\ UNCHANGED <<part, memVars, x8, x9, x10, x11, x12, x13, x14, x15>>
  \/ part = "logins" /\ Logins!Next /\ UNCHANGED <<part, memVars, x11, x12, x13, x14, x15>>
  \/ part = "machines" /\ Machines!Next /\ UNCHANGED <<part, memVars, x15>>
  \/ part = "postgres" /\ Postgres!Next /\ UNCHANGED <<part, memVars, x12, x13, x14, x15>>
  \/ part = "run" /\ Agent!Next /\ UNCHANGED <<part, memVars, x12, x13, x14, x15>>
  \/ part = "decrypt" /\ Decrypt!Next /\ UNCHANGED <<part, memVars, x14, x15>>
  \/ part = "vault" /\ Vault!Next /\ UNCHANGED <<part, memVars, x10, x11, x12, x13, x14, x15>>
  \/ part = "leaves" /\ Leaves!Next /\ UNCHANGED <<part, memVars, x5, x6, x7, x8, x9, x10, x11, x12, x13, x14, x15>>

ControlSpec == ControlInit /\ [][ControlNext]_all

\* Two requests, two accounts and two sessions of browsers are alike.
ControlSymmetry ==
  Permutations(Reqs) \cup Permutations({m1, m2}) \cup Permutations({i2, i3})

\* Every component keeps the types of its state.
ControlTypeOK ==
  CASE part = "members" -> TypeOK
    [] part = "refresh" -> Refresh!TypeOK
    [] part = "index" -> Index!TypeOK
    [] part = "codes" -> Codes!TypeOK
    [] part = "tokens" -> Tokens!TypeOK
    [] part = "logins" -> Logins!TypeOK
    [] part = "machines" -> Machines!TypeOK
    [] part = "postgres" -> Postgres!TypeOK
    [] part = "run" -> Agent!TypeOK
    [] part = "decrypt" -> Decrypt!TypeOK
    [] part = "vault" -> Vault!TypeOK
    [] part = "leaves" -> Leaves!TypeOK

\* A refresh token the agent holds is the current one or the one before it
\* (refreshWithinGrace).
ClientWithinOne == part = "refresh" => Refresh!ClientWithinOne

\* DeleteSubjectSessions reaches every live session.
SubjectIndexed == part = "index" => Index!SubjectIndexed

\* A session that was revoked or deleted does not come back: a rotation that read it
\* before fails (RotateTokenSession in both stores).
RevokedStaysRevoked == [][(part = "refresh" => Refresh!StaysRevoked) /\ (part = "index" => Index!StaysDeleted)]_all

\* What is used up or revoked opens nothing: an invite makes one membership
\* (ClaimInviteCreatingMembership), and a token that a rotation or a revocation has ended
\* connects no agent (RevokeTokensByAgent); an assertion makes one token, and the token
\* of a service account ends with a change of the account (claimAssertionOnce,
\* revokeServiceAccount).
CredentialsSpent ==
  /\ (part = "members" => InviteSpentOnce)
  /\ (part = "tokens" => Tokens!OldTokensRefused)
  /\ (part = "machines" => Machines!MachinesJustified)

\* A session is traced to the login that justifies it: one session comes of an approved
\* login and none of a login that a page was told is denied (TakeOnce of the codes), and
\* a session of a browser comes of its own login (handleCallback, googleCallbackHandler,
\* handleEndpointCallback).
LoginJustified ==
  /\ (part = "codes" => Codes!OneSessionPerLogin)
  /\ (part = "codes" => Codes!DenialHolds)
  /\ (part = "logins" => Logins!LoginJustified)

\* Whatever transactions overlap, the rows of the members change as in a store that takes
\* one call at a time, keeps an active owner and exchanges an invite once (the methods of
\* both stores that end in KeepingOwner, ClaimInviteCreatingMembership and
\* CreateUserWithMembershipClaimingInvite).
TransactionsAtomic == [][(part = "members" => StoreSteps) /\ (part = "postgres" => Postgres!Atomic)]_all

\* A stream for an endpoint that the gateway registered finds its target.
RegisteredStreamServed == part = "run" => Agent!RegisteredStreamServed

\* An agent that was acknowledged once is not ended by a later acknowledgement
\* (handleAck).
LaterFailuresTolerated == [][part = "run" => Agent!FirstAckOnly]_all

\* The agent decrypts by the settings as they are stored, or a flush is due (flush of the
\* decryptor); a node serves the secret that is stored, or an invalidation of its cache
\* is due or was lost (Open and invalidateEverywhere of the vault).
SettingsCurrent ==
  /\ (part = "decrypt" => Decrypt!SettingsCurrent)
  /\ (part = "vault" => Vault!SecretCurrent)

\* The cached leaves and their order of eviction agree, one call mints for a host and the
\* others wait for it.
LeafCacheConsistent ==
  /\ (part = "leaves" => Leaves!OrderMatchesLeaves)
  /\ (part = "leaves" => Leaves!OneFlight)

ConnectionsInit ==
  \/ /\ part = "hub" /\ (Hub!Init \/ HubLoaded) /\ Resting
  \/ /\ part = "cloudflare" /\ (Cf!Init \/ CfPublished) /\ Resting
     /\ x15 = 0
  \/ /\ part = "tailscale" /\ Ts!Init /\ Resting
     /\ x13 = 0 /\ x14 = 0 /\ x15 = 0
  \/ /\ part = "registry" /\ Registry!Init /\ Resting
     /\ x11 = 0 /\ x12 = 0 /\ x13 = 0 /\ x14 = 0 /\ x15 = 0
  \/ /\ part = "domains" /\ Domains!Init /\ Resting
     /\ x7 = 0 /\ x8 = 0 /\ x9 = 0 /\ x10 = 0 /\ x11 = 0 /\ x12 = 0 /\ x13 = 0 /\ x14 = 0
     /\ x15 = 0
  \/ /\ part = "health" /\ Health!Init /\ Resting
     /\ x12 = 0 /\ x13 = 0 /\ x14 = 0 /\ x15 = 0
  \/ /\ part = "relay" /\ Relay!Init /\ Resting
     /\ x13 = 0 /\ x14 = 0 /\ x15 = 0
  \/ /\ part = "limits" /\ Limits!Init /\ Resting
     /\ x15 = 0
  \/ /\ part = "network" /\ Network!Init /\ Resting
     /\ x7 = 0 /\ x8 = 0 /\ x9 = 0 /\ x10 = 0 /\ x11 = 0 /\ x12 = 0 /\ x13 = 0 /\ x14 = 0
     /\ x15 = 0

ConnectionsNext ==
  \/ part = "hub" /\ Hub!Next /\ UNCHANGED <<part, memVars>>
  \/ part = "cloudflare" /\ Cf!Next /\ UNCHANGED <<part, memVars, x15>>
  \/ part = "tailscale" /\ Ts!Next /\ UNCHANGED <<part, memVars, x13, x14, x15>>
  \/ part = "registry" /\ Registry!Next /\ UNCHANGED <<part, memVars, x11, x12, x13, x14, x15>>
  \/ part = "domains" /\ Domains!Next /\ UNCHANGED <<part, memVars, x7, x8, x9, x10, x11, x12, x13, x14, x15>>
  \/ part = "health" /\ Health!Next /\ UNCHANGED <<part, memVars, x12, x13, x14, x15>>
  \/ part = "relay" /\ Relay!Next /\ UNCHANGED <<part, memVars, x13, x14, x15>>
  \/ part = "limits" /\ Limits!Next /\ UNCHANGED <<part, memVars, x15>>
  \/ part = "network" /\ Network!Next /\ UNCHANGED <<part, memVars, x7, x8, x9, x10, x11, x12, x13, x14, x15>>

ConnectionsSpec == ConnectionsInit /\ [][ConnectionsNext]_all

ConnectionsSymmetry ==
  Permutations({k1, k2}) \cup Permutations({e1, e2})

\* Every component keeps the types of its state.
ConnectionsTypeOK ==
  CASE part = "hub" -> Hub!TypeOK
    [] part = "cloudflare" -> Cf!TypeOK
    [] part = "tailscale" -> Ts!TypeOK
    [] part = "registry" -> Registry!TypeOK
    [] part = "domains" -> Domains!TypeOK
    [] part = "health" -> Health!TypeOK
    [] part = "relay" -> Relay!TypeOK
    [] part = "limits" -> Limits!TypeOK
    [] part = "network" -> Network!TypeOK

\* At most one generation of a connection is served (reload of the hub), and one
\* connection of a tailnet owns a service name (claims of the reconciler). The passwords
\* of one client are compared one at a time, and no more wrong ones than its limit
\* allows, whatever the limiter forgets (acquire, Allow).
OneAtATime ==
  /\ (part = "hub" => Hub!OneGenerationServed)
  /\ (part = "tailscale" => Ts!OneOwner)
  /\ (part = "limits" => Limits!LimitsHold)

\* What is stored is what runs, or somebody was told that it is not, and the hostnames
\* that are published are those of the stored configuration (reload and syncLoop of the
\* hub); a host whose status says published is reachable and guarded (collectStatus); the
\* health of targets that is reported is right once a sweep went by without a change, and
\* only orders them (sweep, orderTargets).
StatusIsTrue ==
  /\ (part = "hub" => Hub!ServedOrAnnounced)
  /\ (part = "hub" => Hub!AliasesCurrent)
  /\ (part = "cloudflare" => Cf!PublishedIsTrue)
  /\ (part = "health" => Health!HealthSettles)

\* Pruning a host or a service name removes only what mishmesh made and nobody asks for
\* (protect and verifyOrphan).
PruneSafe == [][(part = "cloudflare" => Cf!PruneSafe) /\ (part = "tailscale" => Ts!CleanupSafe)]_all

\* A sync never leaves a routed host without the Access application it had.
StaysGuarded == [][part = "cloudflare" => Cf!StaysGuarded]_all

\* What was published is taken back once nobody asks for it (prune, cleanup), and a
\* public port is held by the endpoint that has it in its row or by a registration or
\* clean-up under way, or is one that the API, a sweep or a crash left behind (Open,
\* Close, cleanupEphemeral); a relay to another node keeps no session that it does not
\* use, and no stream of an agent without its caller (dial, drop, handle).
NothingLeft ==
  /\ (part = "relay" => Relay!RelaySound)
  /\ (part = "cloudflare" => Cf!NothingLeft)
  /\ (part = "tailscale" => Ts!NothingLeft)
  /\ (part = "registry" => Registry!PortsAccounted)

\* Traffic goes to whom it belongs: an endpoint is routed to the agent of its row
\* (registerEndpoints, provisionForward and their undoing), and a domain to an
\* organisation whose record in DNS the server has seen (verifyDomainHandler,
\* authorizeDomainBinding); a published hostname leads to an endpoint that still asks for
\* it, and what a row of the store refers to exists (ReplaceConnectionAliases,
\* ValidateEndpointReferences).
RoutesOwned ==
  /\ (part = "registry" => Registry!BindingsOwned)
  /\ (part = "domains" => Domains!DomainProven)
  /\ (part = "network" => Network!AliasesJustified)
  /\ (part = "network" => Network!ReferencesHold)
=============================================================================
