------------------------- MODULE TailscalePublisher -------------------------
(***************************************************************************)
(* internal/connections/tailscale: managed Tailscale connections of one    *)
(* tailnet and one node, followed for one service name.  A sync holds the  *)
(* locks of the socket and of the tailnet, checks that no other connection *)
(* claims the name (through a cache shared by the connections), creates or *)
(* removes the service, its Serve entry and its advertisement one call at  *)
(* a time, and saves its ownership after each of them; an error ends the   *)
(* sync where it stands.  The operator edits between syncs; an edit of the *)
(* Serve configuration inside one is the ETag conflict of ApplyServe.      *)
(***************************************************************************)
EXTENDS Naturals

CONSTANTS Conns,      \* the connections of the tailnet
          Endpoints,  \* endpoints that may ask for the name
          None,
          MaxIds,     \* bound on the services created
          Budgets     \* what a behaviour may spend: see Spend

VARIABLES want,       \* the endpoint that publishes the name through each connection
          svc,        \* the Service of the tailnet: its address (0: none) and tags
          serve,      \* the node's Serve entry
          adv,        \* the node advertises the service
          ids,        \* services created so far
          tags,       \* service_tags of each connection's configuration
          store,      \* the ownership in each connection's row
          cache,      \* claimsCache: the connections seen claiming the name
          loading,    \* a sync of another tailnet is loading the claims
          sync,       \* the sync in progress
          synced,     \* connections with an error-free sync since the last change
          budget

tsVars == <<want, svc, serve, adv, ids, tags, store, cache, loading, sync, synced, budget>>

tailnet == <<svc, serve, adv, ids>>

NoService == [id |-> 0, tag |-> 0]
Services == {NoService} \cup [id : 1 .. MaxIds + 1, tag : {0, 1}]
Edited == MaxIds + 1          \* a service created or edited outside
ServeEntries == {"none", "made", "edited"}
Ownership == [owner : Endpoints \cup {None}, api : Services, serve : BOOLEAN, adv : BOOLEAN]
NotOwned == [owner |-> None, api |-> NoService, serve |-> FALSE, adv |-> FALSE]

Idle == [pc |-> "idle"]
Invalid == {{}}      \* not a set of connections: nothing is cached

Spend(what) == /\ budget.left[what] > 0
               /\ budget' = [budget EXCEPT !.left[what] = @ - 1, !.spent = @ \cup {what}]

TypeOK ==
    /\ want \in [Conns -> Endpoints \cup {None}] /\ svc \in Services
    /\ serve \in ServeEntries /\ adv \in BOOLEAN /\ tags \in [Conns -> {0, 1}]
    /\ store \in [Conns -> Ownership] /\ synced \subseteq Conns
    /\ cache \in SUBSET Conns \cup {Invalid} /\ loading \in SUBSET Conns \cup {Invalid}
    /\ sync # Idle => sync.by \in Conns /\ sync.own \in Ownership

Init ==
    /\ want = [c \in Conns |-> None] /\ svc = NoService /\ serve = "none" /\ adv = FALSE
    /\ ids = 0 /\ tags = [c \in Conns |-> 0] /\ store = [c \in Conns |-> NotOwned]
    /\ cache = Invalid /\ loading = Invalid /\ sync = Idle /\ synced = Conns
    /\ budget \in [left : Budgets, spent : {{}}]

----------------------------------------------------------------------------
(* The claims of all connections, kept for claimsTTL.                      *)

\* loadClaimEntries: the names a connection's endpoints ask for, and those its
\* ownership holds.
Claimants == {c \in Conns : want[c] # None \/ store[c].owner # None}

\* A sync of another tailnet finds no valid entry and loads the claims; the
\* cache's mutex is held meanwhile.
LoadBegin ==
    /\ cache = Invalid /\ loading = Invalid /\ Spend("loads")
    /\ loading' = Claimants
    /\ UNCHANGED <<want, tailnet, tags, store, cache, sync, synced>>

LoadEnd ==
    /\ loading # Invalid /\ cache' = loading /\ loading' = Invalid
    /\ UNCHANGED <<want, tailnet, tags, store, sync, synced, budget>>

\* claimsTTL passes, or a connection is opened.
Expire ==
    /\ cache # Invalid /\ loading = Invalid /\ cache' = Invalid
    /\ UNCHANGED <<want, tailnet, tags, store, loading, sync, synced, budget>>

SetWant(c, e) ==
    /\ e # want[c] /\ Spend("edits")
    /\ want' = [want EXCEPT ![c] = e] /\ synced' = {}
    /\ sync' = IF sync = Idle THEN sync ELSE [sync EXCEPT !.steady = FALSE]
    /\ UNCHANGED <<tailnet, tags, store, cache, loading>>

----------------------------------------------------------------------------
(* One sync.                                                               *)

At(pc) == sync # Idle /\ sync.pc = pc
Goto(pc) == sync' = [sync EXCEPT !.pc = pc]
Same == UNCHANGED <<want, tags, store, cache, loading, synced>>

Wanted == sync.want # None
Owned == sync.own.owner # None

\* Any step of a sync may fail, or be refused: the sync ends.
Ends == sync' = Idle /\ UNCHANGED <<want, tags, store, cache, loading>>
        /\ synced' = synced \ {sync.by}

Lost(applied) == Spend("faults") /\ (applied \/ UNCHANGED tailnet) /\ Ends

\* A call that reads fails, or the row is not written.
Fails ==
    /\ sync # Idle /\ sync.pc # "saved"
    /\ Spend("faults") /\ UNCHANGED tailnet /\ Ends

\* The process stops: its cache goes with it.
Crash ==
    /\ sync # Idle /\ loading = Invalid /\ Spend("faults")
    /\ sync' = Idle /\ cache' = Invalid /\ synced' = synced \ {sync.by}
    /\ UNCHANGED <<want, tailnet, tags, store, loading>>

\* observeIdentity, the locks, loadDesired and the claims (claims, snapshot).
Begin(c) ==
    /\ sync = Idle /\ loading = Invalid
    /\ cache' = IF cache = Invalid THEN Claimants ELSE cache
    /\ sync' = [pc |-> "claims", by |-> c, want |-> want[c], own |-> store[c], steady |-> TRUE]
    /\ UNCHANGED <<want, tailnet, tags, store, loading, synced, budget>>

\* protectAdvertisements.
AdvProtected == adv /\ (Owned \/ Wanted) /\ ~sync.own.adv

\* rejectClaimed and the checks manage makes before its first change.
Refused ==
    \/ (Wanted \/ Owned) /\ cache \ {sync.by} # {}
    \/ AdvProtected
    \/ Wanted /\ Owned /\ sync.own.owner # sync.want
    \/ Wanted /\ serve # "none" /\ ~(sync.own.serve /\ serve = "made")

Check ==
    /\ At("claims")
    /\ IF Refused THEN Ends /\ UNCHANGED <<tailnet, budget>>
       ELSE /\ Goto(IF Wanted THEN "service" ELSE "orphan")
            /\ Same /\ UNCHANGED <<tailnet, budget>>

\* A change is recorded: saveState drops the cache, writes the row and drops the
\* cache again.
Saving(own, pc) == sync' = [pc |-> "drop", by |-> sync.by, want |-> sync.want,
                            own |-> own, steady |-> sync.steady, then |-> pc]

Drop ==
    /\ At("drop") /\ loading = Invalid
    /\ cache' = Invalid /\ Goto("save")
    /\ UNCHANGED <<want, tailnet, tags, store, loading, synced, budget>>

Save ==
    /\ At("save")
    /\ store' = [store EXCEPT ![sync.by] = sync.own] /\ Goto("saved")
    /\ UNCHANGED <<want, tailnet, tags, cache, loading, synced, budget>>

Invalidate ==
    /\ At("saved") /\ loading = Invalid
    /\ cache' = Invalid
    /\ sync' = [pc |-> sync.then, by |-> sync.by, want |-> sync.want, own |-> sync.own,
                steady |-> sync.steady]
    /\ UNCHANGED <<want, tailnet, tags, store, loading, synced, budget>>

\* ensureService and retagService: created and read back, or given its tags; a
\* service that is not the recorded one is refused.
EnsureService ==
    /\ At("service")
    /\ LET c == sync.by
           new == [id |-> ids + 1, tag |-> tags[c]]
           retagged == [svc EXCEPT !.tag = tags[c]]
           create == svc' = new /\ ids' = ids + 1 /\ UNCHANGED <<serve, adv>>
           retag == svc' = retagged /\ UNCHANGED <<serve, adv, ids>>
       IN \/ /\ svc = NoService /\ ids < MaxIds
             /\ \/ /\ create /\ Same /\ UNCHANGED budget
                   /\ Saving([sync.own EXCEPT !.owner = sync.want, !.api = new], "serve")
                \/ Lost(create)
          \/ svc # NoService /\ sync.own.api # svc /\ Ends /\ UNCHANGED <<tailnet, budget>>
          \/ /\ svc # NoService /\ sync.own.api = svc
             /\ IF svc.tag = tags[c] THEN Goto("serve") /\ Same /\ UNCHANGED <<tailnet, budget>>
                ELSE \/ /\ retag /\ Same /\ UNCHANGED budget
                        /\ Saving([sync.own EXCEPT !.api = retagged], "serve")
                     \/ Lost(retag)

\* verifyOrphan, before anything of the orphan is taken down.
OrphanIntact == svc = NoService \/ sync.own.api = svc

VerifyOrphan ==
    /\ At("orphan")
    /\ IF ~Owned THEN Goto("done") /\ Same /\ UNCHANGED <<tailnet, budget>>
       ELSE IF OrphanIntact THEN Goto("serve") /\ Same /\ UNCHANGED <<tailnet, budget>>
       ELSE Ends /\ UNCHANGED <<tailnet, budget>>

\* applyServe: an entry that is not the recorded one is refused; a conflict of
\* ETags starts over, three times at most.
ApplyServe ==
    /\ At("serve")
    /\ LET to == IF Wanted THEN "made" ELSE "none"
           set == serve' = to /\ UNCHANGED <<svc, adv, ids>>
           refused == AdvProtected \/ (serve # "none" /\ ~(sync.own.serve /\ serve = "made"))
       IN \/ refused /\ Ends /\ UNCHANGED <<tailnet, budget>>
          \/ ~refused /\ serve = to /\ Goto("adv") /\ Same /\ UNCHANGED <<tailnet, budget>>
          \/ /\ ~refused /\ serve # to
             /\ \/ /\ set /\ Same /\ UNCHANGED budget
                   /\ Saving([sync.own EXCEPT !.serve = Wanted], "adv")
                \/ Lost(set)

\* applyAdvertisements.
ApplyAdvertisements ==
    /\ At("adv")
    /\ LET next == IF Wanted \/ ~sync.own.adv THEN Wanted \/ adv ELSE FALSE
           then == IF Wanted THEN "done" ELSE "remove"
           set == adv' = next /\ UNCHANGED <<svc, serve, ids>>
       IN \/ AdvProtected /\ Ends /\ UNCHANGED <<tailnet, budget>>
          \/ ~AdvProtected /\ next = adv /\ Goto(then) /\ Same /\ UNCHANGED <<tailnet, budget>>
          \/ /\ ~AdvProtected /\ next # adv
             /\ \/ /\ set /\ Same /\ UNCHANGED budget
                   /\ Saving([sync.own EXCEPT !.adv = Wanted], then)
                \/ Lost(set)

\* removeOrphan: verified again, deleted, and forgotten.
RemoveOrphan ==
    /\ At("remove")
    /\ LET delete == svc' = NoService /\ UNCHANGED <<serve, adv, ids>>
       IN \/ (~OrphanIntact \/ AdvProtected) /\ Ends /\ UNCHANGED <<tailnet, budget>>
          \/ /\ OrphanIntact /\ ~AdvProtected /\ delete /\ Same /\ UNCHANGED budget
             /\ Saving(NotOwned, "done")
          \/ OrphanIntact /\ ~AdvProtected /\ svc # NoService /\ Lost(delete)

\* The last observation: the hosts' states follow from what is there.
Done ==
    /\ At("done") /\ sync' = Idle
    /\ synced' = IF sync.steady THEN synced \cup {sync.by} ELSE synced \ {sync.by}
    /\ UNCHANGED <<want, tailnet, tags, store, cache, loading, budget>>

----------------------------------------------------------------------------
(* The configuration and the operator.                                     *)

Retag(c) ==
    /\ sync = Idle /\ Spend("operator") /\ tags' = [tags EXCEPT ![c] = 1 - @]
    /\ synced' = {}
    /\ UNCHANGED <<want, tailnet, store, cache, loading, sync>>

Operator ==
    /\ sync = Idle /\ Spend("operator") /\ synced' = {}
    /\ \/ /\ \E s \in {NoService, [id |-> Edited, tag |-> 0]} \ {svc} : svc' = s
          /\ UNCHANGED <<serve, adv>>
       \/ /\ \E e \in {"none", "edited"} \ {serve} : serve' = e
          /\ UNCHANGED <<svc, adv>>
       \/ adv' = ~adv /\ UNCHANGED <<svc, serve>>
    /\ UNCHANGED <<want, ids, tags, store, cache, loading, sync>>

Next ==
    \/ \E c \in Conns : Begin(c) \/ Retag(c)
                        \/ \E e \in Endpoints \cup {None} : SetWant(c, e)
    \/ LoadBegin \/ LoadEnd \/ Expire \/ Fails \/ Crash \/ Check \/ Drop \/ Save \/ Invalidate
    \/ EnsureService \/ VerifyOrphan \/ ApplyServe \/ ApplyAdvertisements
    \/ RemoveOrphan \/ Done \/ Operator

Spec == Init /\ [][Next]_tsVars

----------------------------------------------------------------------------

\* One service has one owner: two connections of a tailnet never both record the
\* name as theirs, although the claims they check come from a cache that another
\* sync may be filling while an ownership is being saved (snapshot, invalidate).
OneOwner ==
    \A c, d \in Conns : store[c].owner # None /\ store[d].owner # None => c = d

\* Cleanup removes only what the connection made and recorded: a service, Serve
\* entry or advertisement the operator made or edited is left alone, and nothing
\* is removed while an endpoint asks for the name.
CleanupSafe ==
    sync # Idle =>
        /\ svc' = NoService /\ svc # NoService => svc = store[sync.by].api
        /\ serve' = "none" => serve # "edited"
        /\ adv /\ ~adv' => store[sync.by].adv
        /\ sync.steady /\ ((svc' = NoService /\ svc # NoService) \/ (adv /\ ~adv'))
               => want[sync.by] = None

\* What a connection published it takes back: once nobody asks for the name and
\* every connection has synced without an error, nothing is left, as long as no
\* call failed and the operator changed nothing.
NothingLeft ==
    /\ synced = Conns /\ sync = Idle /\ budget.spent \subseteq {"edits", "loads"}
    /\ \A c \in Conns : want[c] = None
    => svc = NoService /\ serve = "none" /\ ~adv
=============================================================================
