------------------------ MODULE CloudflarePublisher ------------------------
(***************************************************************************)
(* internal/cloudflare: the publisher of a managed Cloudflare connection,  *)
(* followed for one hostname.  Several connections of the server publish   *)
(* through the same tunnel and the same shared Access application; each    *)
(* reconciles what its endpoints ask for with what Cloudflare holds, one   *)
(* API call at a time, and keeps in its connection row a record of what it *)
(* created (the ownership) so that pruning removes nothing else.  The      *)
(* provider locks of the tunnel and of the application are held from the   *)
(* first call of a sync to the last, so at most one of the connections is  *)
(* inside a sync.                                                          *)
(*                                                                         *)
(* The Cloudflare API has no conditional writes: an edit made in the       *)
(* dashboard between the read and the write of one sync is overwritten.    *)
(* The operator of the model edits between syncs only.                     *)
(***************************************************************************)
EXTENDS Naturals, FiniteSets

CONSTANTS Conns,     \* the connections that share the tunnel
          MaxIds,    \* bound on the objects Cloudflare creates
          Budgets    \* what a behaviour may spend: see Spend

VARIABLES want,      \* what an endpoint asks of each connection for the host
          rule,      \* the tunnel's ingress rule for the host
          dns,       \* the DNS record of the host
          shared,    \* the host's entry in the shared Access application
          apps,      \* Access applications of the host alone
          policies,  \* their Access policies
          drifted,   \* which of those two were edited in the dashboard
          ids,       \* objects created so far
          store,     \* the ownership saved in each connection's row
          status,    \* the host's state in each connection's last status
          sync,      \* the sync in progress
          synced,    \* connections with an error-free sync since the last edit or change
                     \* of the route
          tampered,  \* an application or policy was removed behind mishmesh's back
          budget

cfVars == <<want, rule, dns, shared, apps, policies, drifted, ids, store,
            status, sync, synced, tampered, budget>>

cloud == <<rule, dns, shared, apps, policies, drifted, ids>>

Wants == {"none", "shared", "own"}
Rules == {"none", "made", "edited", "other"}
NoRecord == 0
Alike == MaxIds + 1   \* a record to the tunnel that mishmesh did not create
Other == MaxIds + 2   \* a record to somewhere else
ToTunnel == 1 .. Alike
Entries == {"none", "made", "edited"}

Ownership == [ingress : BOOLEAN, dns : 0 .. MaxIds, access : BOOLEAN,
              app : 0 .. MaxIds, policy : 0 .. MaxIds]
NoRoute == [ingress |-> FALSE, dns |-> 0, access |-> FALSE, app |-> 0, policy |-> 0]

Idle == [pc |-> "idle"]

Spend(what) == /\ budget.left[what] > 0
               /\ budget' = [budget EXCEPT !.left[what] = @ - 1, !.spent = @ \cup {what}]

TypeOK ==
    /\ want \in [Conns -> Wants] /\ rule \in Rules /\ dns \in 0 .. Other
    /\ shared \in Entries /\ apps \subseteq 1 .. MaxIds /\ policies \subseteq 1 .. MaxIds
    /\ drifted \subseteq {"app", "policy"} /\ ids \in 0 .. MaxIds
    /\ store \in [Conns -> Ownership]
    /\ status \in [Conns -> {"none", "published", "pending", "conflict", "unclaimed", "error"}]
    /\ synced \subseteq Conns /\ tampered \in BOOLEAN
    /\ sync # Idle => sync.by \in Conns /\ sync.own \in Ownership

Init ==
    /\ want = [c \in Conns |-> "none"] /\ rule = "none" /\ dns = NoRecord
    /\ shared = "none" /\ apps = {} /\ policies = {} /\ drifted = {} /\ ids = 0
    /\ store = [c \in Conns |-> NoRoute] /\ status = [c \in Conns |-> "none"]
    /\ sync = Idle /\ synced = Conns /\ tampered = FALSE
    /\ budget \in [left : Budgets, spent : {{}}]

----------------------------------------------------------------------------
(* The endpoints: an Access row is added, removed or given a policy.       *)

SetWant(c, w) ==
    /\ w # want[c] /\ Spend("edits")
    /\ want' = [want EXCEPT ![c] = w] /\ synced' = {}
    /\ sync' = IF sync = Idle THEN sync ELSE [sync EXCEPT !.steady = FALSE]
    /\ UNCHANGED <<cloud, store, status, tampered>>

----------------------------------------------------------------------------
(* One sync.                                                               *)

At(pc) == sync # Idle /\ sync.pc = pc

Goto(pc) == sync' = [sync EXCEPT !.pc = pc]

Calls(vs) == UNCHANGED <<want, store, status, synced, tampered>> /\ UNCHANGED vs

\* Sync takes the locks, snapshots the ownership and reads the desired
\* hostnames.
Begin(c) ==
    /\ sync = Idle
    /\ sync' = [pc |-> "config", by |-> c, want |-> want[c], own |-> store[c],
                res |-> "na", active |-> FALSE, orphan |-> FALSE, added |-> FALSE,
                removed |-> FALSE, failed |-> FALSE, dns |-> "missing", access |-> "na",
                applied |-> FALSE, released |-> FALSE, errs |-> FALSE, steady |-> TRUE]
    /\ Calls(<<cloud, budget>>)

\* GetTunnelConfig: without it no host is reconciled.
Config ==
    /\ At("config")
    /\ \/ /\ Goto(IF sync.want = "own" THEN "policy" ELSE "claims")
          /\ UNCHANGED budget
       \/ /\ Spend("faults")
          /\ sync' = [sync EXCEPT !.pc = "save", !.errs = TRUE, !.failed = TRUE]
    /\ Calls(cloud)

\* ensureOwnAccess gives up: the record so far is kept, and the application
\* counts as existing when the record names one.
OwnFailed(own) ==
    sync' = [sync EXCEPT !.pc = "claims", !.errs = TRUE, !.own = own,
                         !.res = IF own.app # 0 THEN "error" ELSE "gone"]

\* A call that changes Cloudflare and returns an error may have been applied.
Lost(applied) == Spend("faults") /\ (applied \/ UNCHANGED cloud)

\* ensureOwnAccess, the policy: read, created when there is none, put back when
\* it differs.
OwnPolicy ==
    /\ At("policy")
    /\ LET o == sync.own
           gone == o.policy \notin policies
           blank == IF gone THEN [o EXCEPT !.policy = 0] ELSE o
           create == ids < MaxIds /\ ids' = ids + 1 /\ policies' = policies \cup {ids + 1}
                     /\ drifted' = drifted \ {"policy"} /\ UNCHANGED <<rule, dns, shared, apps>>
           put == drifted' = drifted \ {"policy"}
                  /\ UNCHANGED <<rule, dns, shared, apps, policies, ids>>
       IN \/ /\ o.policy # 0 /\ Spend("faults") /\ OwnFailed(o) /\ UNCHANGED cloud
          \/ /\ gone /\ create /\ UNCHANGED budget
             /\ sync' = [sync EXCEPT !.pc = "app", !.own.policy = ids + 1]
          \/ /\ gone /\ Lost(create) /\ OwnFailed(blank)
          \/ /\ ~gone /\ put /\ UNCHANGED budget /\ Goto("app")
          \/ /\ ~gone /\ "policy" \in drifted /\ Lost(put) /\ OwnFailed(o)
    /\ Calls(<<>>)

\* ensureOwnAccess, the application: the same way.
OwnApp ==
    /\ At("app")
    /\ LET o == sync.own
           gone == o.app \notin apps
           blank == IF gone THEN [o EXCEPT !.app = 0] ELSE o
           create == ids < MaxIds /\ ids' = ids + 1 /\ apps' = apps \cup {ids + 1}
                     /\ drifted' = drifted \ {"app"} /\ UNCHANGED <<rule, dns, shared, policies>>
           put == drifted' = drifted \ {"app"}
                  /\ UNCHANGED <<rule, dns, shared, apps, policies, ids>>
       IN \/ /\ o.app # 0 /\ Spend("faults") /\ OwnFailed(o) /\ UNCHANGED cloud
          \/ /\ gone /\ create /\ UNCHANGED budget
             /\ sync' = [sync EXCEPT !.pc = "claims", !.own.app = ids + 1, !.res = "ok"]
          \/ /\ gone /\ Lost(create) /\ OwnFailed(blank)
          \/ /\ ~gone /\ put /\ UNCHANGED budget
             /\ sync' = [sync EXCEPT !.pc = "claims", !.res = "ok"]
          \/ /\ ~gone /\ "app" \in drifted /\ Lost(put) /\ OwnFailed(o)
    /\ Calls(<<>>)

\* splitBlocked: a host whose own application could not be made is not routed.
Active == sync.want # "none" /\ ~(sync.res = "gone" /\ rule = "none")

\* foreignClaims: an endpoint publishes the host through another connection.
ForeignClaim(c) == \E d \in Conns \ {c} : want[d] # "none"

\* A mutant: claims of other connections do not count.
BugProtected(c) == rule # "none" /\ ~(sync.own.ingress /\ rule = "made")

\* protect: a rule stays unless it is the one this connection recorded.
Protected(c) == ForeignClaim(c) \/ (rule # "none" /\ ~(sync.own.ingress /\ rule = "made"))

\* includeResiduals: a recorded host that is routed no more.
Residual == sync.want = "none" /\ rule = "none" /\ sync.own # NoRoute /\ ~Protected(sync.by)

\* protect, planIngress and includeResiduals: what the sync will do.
Claims ==
    /\ At("claims")
    /\ LET origin == rule \in {"made", "edited"}
           removed == ~Active /\ origin /\ ~Protected(sync.by)
           added == Active /\ rule = "none"
           orphan == (~Active /\ origin) \/ Residual
       IN \/ /\ sync' = [sync EXCEPT !.active = Active, !.orphan = orphan, !.added = added,
                             !.removed = removed \/ Residual,
                             !.access = IF sync.res = "na" THEN "na"
                                        ELSE IF sync.res = "ok" THEN "ok" ELSE "error",
                             !.pc = IF added \/ removed THEN "put"
                                    ELSE IF Active \/ orphan THEN "dns" ELSE "save"]
             /\ UNCHANGED budget
          \/ /\ Spend("faults")
             /\ sync' = [sync EXCEPT !.pc = "save", !.errs = TRUE, !.failed = TRUE]
    /\ Calls(cloud)

\* The entry's conflict flag, and an orphan that is routed no more.
Conflict == sync.active /\ rule = "other"
Unrouted == sync.orphan /\ sync.removed /\ ~sync.failed

\* PutTunnelConfig with the rule added or left out.
Put ==
    /\ At("put")
    /\ LET put == rule' = (IF sync.added THEN "made" ELSE "none")
                  /\ UNCHANGED <<dns, shared, apps, policies, drifted, ids>>
       IN \/ put /\ Goto("reread") /\ UNCHANGED budget
          \/ Lost(put) /\ sync' = [sync EXCEPT !.pc = "dns", !.errs = TRUE, !.failed = TRUE]
    /\ Calls(<<>>)

\* The configuration is read back, and an added rule recorded as it stands.
Reread ==
    /\ At("reread")
    /\ \/ /\ sync' = [sync EXCEPT !.pc = "dns", !.own.ingress = @ \/ sync.added]
          /\ UNCHANGED budget
       \/ Spend("faults") /\ sync' = [sync EXCEPT !.pc = "dns", !.errs = TRUE]
    /\ Calls(cloud)

\* lookupDNS and reconcileDNS.
Dns ==
    /\ At("dns")
    /\ LET set(r) == dns' = r /\ UNCHANGED <<rule, shared, apps, policies, drifted>>
           ends(d) == [sync EXCEPT !.pc = "access", !.dns = d]
       IN \/ /\ Spend("faults") /\ sync' = ends("error") /\ UNCHANGED cloud
          \/ /\ Unrouted /\ dns \in ToTunnel /\ dns = sync.own.dns
             /\ \/ /\ set(NoRecord) /\ UNCHANGED <<ids, budget>>
                   /\ sync' = [ends("missing") EXCEPT !.own.dns = 0]
                \/ Lost(set(NoRecord) /\ UNCHANGED ids) /\ sync' = ends("error")
          \/ /\ dns \in ToTunnel /\ ~(Unrouted /\ dns = sync.own.dns)
             /\ sync' = ends("ok") /\ UNCHANGED <<cloud, budget>>
          \/ /\ dns = Other /\ sync' = ends("conflict") /\ UNCHANGED <<cloud, budget>>
          \/ /\ dns = NoRecord /\ (sync.orphan \/ Conflict)
             /\ sync' = ends("missing") /\ UNCHANGED <<cloud, budget>>
          \/ /\ dns = NoRecord /\ ~sync.orphan /\ ~Conflict /\ ids < MaxIds
             /\ \/ /\ set(ids + 1) /\ ids' = ids + 1 /\ UNCHANGED budget
                   /\ sync' = [ends("ok") EXCEPT !.own.dns = ids + 1]
                \/ Lost(set(ids + 1) /\ ids' = ids + 1) /\ sync' = ends("error")
    /\ Calls(<<>>)

\* recordAccess.
RecordAccess(s) ==
    [s EXCEPT !.pc = "unapp",
              !.own.access = IF s.active /\ ~Conflict /\ ~s.failed /\ s.access = "ok" /\ s.applied
                             THEN TRUE
                             ELSE @ /\ ~s.released /\ ~(Unrouted /\ s.access = "missing")]

\* reconcileAccess, up to the write of the shared application.
Access ==
    /\ At("access")
    /\ LET label == IF shared = "none" THEN "missing" ELSE "ok"
           exists == sync.res \in {"ok", "error"}
           release == sync.res # "na" /\ exists /\ sync.own.access /\ shared = "made"
           match == IF sync.own.access THEN shared = "made" ELSE shared = "none"
           drop == sync.res = "na" /\ Unrouted /\ match
           add == sync.res = "na" /\ sync.active /\ ~Conflict
           s == [sync EXCEPT !.released = release, !.applied = add /\ shared = "none",
                     !.access = IF sync.res # "na" THEN @ ELSE IF drop THEN "missing"
                                ELSE IF add THEN "ok" ELSE label]
           to == IF release \/ drop THEN "none" ELSE IF add /\ shared = "none" THEN "made"
                 ELSE shared
           put == shared' = to /\ UNCHANGED <<rule, dns, apps, policies, drifted, ids>>
       IN \/ /\ Spend("faults") /\ UNCHANGED cloud
             /\ sync' = [sync EXCEPT !.pc = "unapp", !.errs = TRUE,
                                     !.access = IF sync.res # "na" THEN @ ELSE "error"]
          \/ to = shared /\ sync' = RecordAccess(s) /\ UNCHANGED <<cloud, budget>>
          \/ to # shared /\ put /\ sync' = [s EXCEPT !.pc = "reaccess"] /\ UNCHANGED budget
          \/ /\ to # shared /\ Lost(put)
             /\ sync' = [s EXCEPT !.pc = "unapp", !.errs = TRUE, !.access = "error"]
    /\ Calls(<<>>)

\* The application is read back before the ownership records the change.
Reaccess ==
    /\ At("reaccess")
    /\ \/ sync' = RecordAccess(sync) /\ UNCHANGED budget
       \/ /\ Spend("faults")
          /\ sync' = [sync EXCEPT !.pc = "unapp", !.errs = TRUE, !.access = "error"]
    /\ Calls(cloud)

\* A mutant: whether the shared application took over is not looked at.
BugUnownDue ==
    /\ sync.own.app # 0 \/ sync.own.policy # 0
    /\ sync.want # "own"
    /\ sync.active \/ Unrouted

\* pruneOwnAccess: the host's own application goes once the host is unrouted,
\* or is behind the shared one.
UnownDue ==
    /\ sync.own.app # 0 \/ sync.own.policy # 0
    /\ sync.want # "own"
    /\ IF sync.active THEN sync.access = "ok" ELSE Unrouted

\* removeOwnAccess: the application, then its policy.
RemoveApp ==
    /\ At("unapp")
    /\ LET id == sync.own.app
           delete == apps' = apps \ {id} /\ UNCHANGED <<rule, dns, shared, policies, drifted, ids>>
       IN \/ ~UnownDue /\ Goto("save") /\ UNCHANGED <<cloud, budget>>
          \/ /\ UnownDue /\ delete /\ UNCHANGED budget
             /\ sync' = [sync EXCEPT !.pc = "unpolicy", !.own.app = 0]
          \/ /\ UnownDue /\ id # 0 /\ Lost(delete)
             /\ sync' = [sync EXCEPT !.pc = "save", !.errs = TRUE, !.access = "error"]
    /\ Calls(<<>>)

RemovePolicy ==
    /\ At("unpolicy")
    /\ LET id == sync.own.policy
           delete == policies' = policies \ {id} /\ UNCHANGED <<rule, dns, shared, apps, drifted, ids>>
       IN \/ delete /\ UNCHANGED budget /\ sync' = [sync EXCEPT !.pc = "save", !.own.policy = 0]
          \/ /\ id # 0 /\ Lost(delete)
             /\ sync' = [sync EXCEPT !.pc = "save", !.errs = TRUE, !.access = "error"]
    /\ Calls(<<>>)

\* entryState, and the states given to hosts without an entry.
EntryState ==
    CASE sync.failed \/ sync.dns = "error" \/ sync.access = "error" -> "error"
      [] ~sync.active /\ sync.want # "none" -> "error"
      [] sync.orphan -> "unclaimed"
      [] ~sync.active -> "none"
      [] Conflict \/ sync.dns = "conflict" -> "conflict"
      [] sync.dns = "missing" \/ sync.access = "missing" -> "pending"
      [] OTHER -> "published"

\* collectStatus clears the record of a pruned rule; the ownership is saved, or
\* the previous one restored; the aliases of a published host are saved with it.
Save ==
    /\ At("save")
    /\ LET c == sync.by
           own == IF Unrouted THEN [sync.own EXCEPT !.ingress = FALSE] ELSE sync.own
           ended(state, errs) ==
               /\ status' = [status EXCEPT ![c] = state]
               /\ synced' = IF errs \/ state = "error" \/ ~sync.steady THEN synced \ {c}
                            ELSE IF sync.added \/ sync.removed THEN {c}
                            ELSE synced \cup {c}
       IN \/ /\ store' = [store EXCEPT ![c] = own] /\ ended(EntryState, sync.errs)
             /\ UNCHANGED budget
          \/ /\ Spend("faults") /\ UNCHANGED store /\ ended(EntryState, TRUE)
          \/ /\ EntryState = "published" /\ Spend("faults")
             /\ store' = [store EXCEPT ![c] = own] /\ ended("error", TRUE)
    /\ sync' = Idle
    /\ UNCHANGED <<want, cloud, tampered>>

\* The process stops, or the instance is closed: its calls are cancelled, the
\* last save with them.
Stop ==
    /\ sync # Idle /\ Spend("faults") /\ sync' = Idle
    /\ synced' = synced \ {sync.by}
    /\ UNCHANGED <<want, cloud, store, status, tampered>>

\* openOwnership after the connection was pointed at another tunnel, origin or
\* application and back: only the applications of hosts are remembered.
Reopen(c) ==
    /\ sync = Idle /\ Spend("operator")
    /\ store' = [store EXCEPT ![c] = [NoRoute EXCEPT !.app = store[c].app,
                                                     !.policy = store[c].policy]]
    /\ synced' = {}
    /\ UNCHANGED <<want, cloud, status, sync, tampered>>

----------------------------------------------------------------------------
(* Hostnames routed straight to another service by hand (hostnames.go).    *)

\* checkUnclaimed.
Unclaimed == \A c \in Conns : want[c] = "none"

\* AddHostname: the rule, then the record; when the record fails the rule is
\* taken out again, which may fail too.
AddHostname ==
    /\ sync = Idle /\ Unclaimed /\ rule = "none" /\ dns # Other /\ Spend("direct")
    /\ LET record == IF dns = NoRecord THEN Alike ELSE dns
       IN \E r \in {<<"other", record>>, <<"none", dns>>, <<"other", dns>>} :
              rule' = r[1] /\ dns' = r[2]
    /\ synced' = {}
    /\ UNCHANGED <<want, shared, apps, policies, drifted, ids, store, status, sync, tampered>>

\* RemoveHostname: the rule, the records to the tunnel, the shared entry this
\* connection recorded, then the ownership; an error leaves the rest in place.
RemoveHostname(c) ==
    /\ sync = Idle /\ Unclaimed /\ (rule # "none" \/ dns \in ToTunnel) /\ Spend("direct")
    /\ \E done \in 1 .. 4 :
          /\ rule' = "none"
          /\ dns' = IF done >= 2 /\ dns \in ToTunnel THEN NoRecord ELSE dns
          /\ shared' = IF done >= 3 /\ store[c].access /\ shared = "made" THEN "none" ELSE shared
          /\ store' = IF done = 4 THEN [store EXCEPT ![c] = NoRoute] ELSE store
    /\ synced' = {}
    /\ UNCHANGED <<want, apps, policies, drifted, ids, status, sync, tampered>>

----------------------------------------------------------------------------
(* The operator, in the Cloudflare dashboard.                              *)

Operator ==
    /\ sync = Idle /\ Spend("operator") /\ synced' = {}
    /\ \/ /\ \E r \in Rules \ {"made", rule} : rule' = r
          /\ UNCHANGED <<dns, shared, apps, policies, drifted, tampered>>
       \/ /\ \E r \in {NoRecord, Alike, Other} \ {dns} : dns' = r
          /\ UNCHANGED <<rule, shared, apps, policies, drifted, tampered>>
       \/ /\ \E e \in {"none", "edited"} \ {shared} : shared' = e /\ tampered' = TRUE
          /\ UNCHANGED <<rule, dns, apps, policies, drifted>>
       \/ /\ \E i \in apps : apps' = apps \ {i} /\ tampered' = TRUE
          /\ UNCHANGED <<rule, dns, shared, policies, drifted>>
       \/ /\ \E i \in policies : policies' = policies \ {i} /\ tampered' = TRUE
          /\ UNCHANGED <<rule, dns, shared, apps, drifted>>
       \/ /\ drifted' = {"app", "policy"}
          /\ UNCHANGED <<rule, dns, shared, apps, policies, tampered>>
    /\ UNCHANGED <<want, ids, store, status, sync>>

SyncStep ==
    \/ Config \/ OwnPolicy \/ OwnApp \/ Claims \/ Put \/ Reread \/ Dns
    \/ Access \/ Reaccess \/ RemoveApp \/ RemovePolicy \/ Save \/ Stop

Next ==
    \/ \E c \in Conns : Begin(c) \/ Reopen(c) \/ RemoveHostname(c)
                        \/ \E w \in Wants : SetWant(c, w)
    \/ SyncStep \/ AddHostname \/ Operator

Spec == Init /\ [][Next]_cfVars

----------------------------------------------------------------------------
(* What a sync may do to Cloudflare.                                       *)

\* Pruning removes only what mishmesh made and nobody wants: the rule dropped
\* by PutTunnelConfig is one a connection wrote and the operator left as it was,
\* and no endpoint published the host throughout the sync; a deleted DNS record
\* is one a connection created; an Access entry taken out of the shared
\* application is not one the operator edited.
PruneSafe ==
    sync # Idle =>
        /\ rule' = "none" /\ rule # "none" => rule = "made" /\ (sync.steady => Unclaimed)
        /\ dns' = NoRecord => dns <= MaxIds
        /\ shared' = "none" => shared # "edited"

\* A host behind Access.
Guarded == shared # "none" \/ apps # {}

\* A sync never leaves a host it routes without Access when it had it: the own
\* application is there before the shared one lets go of the host, the other way
\* round when the policy is dropped, and both outlive the route (reconcile's
\* order, releasesSharedAccess, pruneOwnAccess); nor does it route a host with a
\* policy before its application exists (splitBlocked).
StaysGuarded ==
    sync # Idle /\ ~tampered /\ rule' \in {"made", "edited"} =>
        /\ Guarded => Guarded'
        /\ rule = "none" /\ sync.want = "own" => Guarded

\* What mishmesh published it takes back: when no endpoint asks for the host and
\* every connection has synced without an error since, nothing of it is left in
\* Cloudflare, as long as no call failed and nobody else touched the host
\* (the ownership record names everything a connection created).
NothingLeft ==
    /\ Unclaimed /\ synced = Conns /\ sync = Idle
    /\ budget.spent \subseteq {"edits"}
    => rule = "none" /\ dns = NoRecord /\ shared = "none" /\ apps = {} /\ policies = {}

\* The status does not flatter: a host last reported published is routed, has a
\* record to the tunnel and is behind Access, until something changes.
PublishedIsTrue ==
    \A c \in synced : sync = Idle /\ status[c] = "published" =>
        rule \in {"made", "edited"} /\ dns \in ToTunnel /\ Guarded
=============================================================================
