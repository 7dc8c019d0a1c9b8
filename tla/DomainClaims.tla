----------------------------- MODULE DomainClaims -----------------------------
(***************************************************************************)
(* One custom domain that several organisations want: each adds it,        *)
(* publishes a TXT record to prove that it owns it, binds it to an         *)
(* endpoint and gives it up again.  Every store call and the DNS lookup    *)
(* is a step of its own.                                                   *)
(***************************************************************************)
EXTENDS Naturals, FiniteSets

CONSTANTS
  Orgs,     \* organisations
  Reqs,     \* requests under way at one time
  MaxOps    \* bound: requests a behaviour makes

None == "none"

VARIABLES
  claim,    \* the row of each organisation: none, pending or verified
  txt,      \* organisations whose token is published in DNS
  holder,   \* the organisation of the endpoint that has the domain
  req,      \* the requests
  ops,      \* requests made so far
  proved    \* organisations whose record the server has seen

domainVars == <<claim, txt, holder, req, ops, proved>>

Idle == [pc |-> "idle", org |-> None]

TypeOK ==
  /\ claim \in [Orgs -> {None, "pending", "verified"}]
  /\ txt \subseteq Orgs /\ proved \subseteq Orgs /\ holder \in Orgs \cup {None} /\ ops \in 0 .. MaxOps

Init ==
  /\ claim = [o \in Orgs |-> None] /\ txt = {} /\ holder = None
  /\ req = [q \in Reqs |-> Idle] /\ ops = 0 /\ proved = {}

-----------------------------------------------------------------------------
(* The store.                                                              *)

GetVerifiedDomain == {o \in Orgs : claim[o] = "verified"}

CreateDomain(o) == claim' = [claim EXCEPT ![o] = IF @ = None THEN "pending" ELSE @]

\* A unique index lets one organisation verify a name; a row that is gone is not
\* found.
SetDomainVerified(o) ==
  claim' = IF claim[o] # None /\ GetVerifiedDomain \subseteq {o} THEN [claim EXCEPT ![o] = "verified"] ELSE claim

DeleteDomain(o) == claim' = [claim EXCEPT ![o] = None]

GetEndpointByDomain == holder

-----------------------------------------------------------------------------
(* Handlers.                                                               *)

Go(q, pc) == req' = [req EXCEPT ![q].pc = pc]
Done(q) == req' = [req EXCEPT ![q] = Idle]
Begin(q, o, pc) == req[q] = Idle /\ ops < MaxOps /\ ops' = ops + 1 /\ req' = [req EXCEPT ![q] = [pc |-> pc, org |-> o]]

\* The owner of the DNS zone changes its records.
Publish(o) ==
  /\ txt' = IF o \in txt THEN txt \ {o} ELSE txt \cup {o}
  /\ claim[o] # None \/ o \in txt
  /\ UNCHANGED <<claim, holder, req, ops, proved>>

CreateDomainHandler(q) ==
  \/ \E o \in Orgs : claim[o] = None /\ GetVerifiedDomain = {} /\ Begin(q, o, "create") /\ UNCHANGED <<claim, txt, holder, proved>>
  \/ /\ req[q].pc = "create" /\ CreateDomain(req[q].org) /\ Done(q)
     /\ UNCHANGED <<txt, holder, ops, proved>>

VerifyDomainHandler(q) ==
  \/ \E o \in Orgs : claim[o] = "pending" /\ GetVerifiedDomain = {} /\ Begin(q, o, "lookup") /\ UNCHANGED <<claim, txt, holder, proved>>
  \/ \* the TXT records are looked up
     /\ req[q].pc = "lookup"
     /\ IF req[q].org \in txt THEN Go(q, "verify") /\ proved' = proved \cup {req[q].org} ELSE Done(q) /\ UNCHANGED proved
     /\ UNCHANGED <<claim, txt, holder, ops>>
  \/ /\ req[q].pc = "verify" /\ SetDomainVerified(req[q].org) /\ Done(q)
     /\ UNCHANGED <<txt, holder, ops, proved>>

DeleteDomainHandler(q) ==
  \/ \E o \in Orgs : claim[o] # None /\ GetEndpointByDomain # o /\ Begin(q, o, "delete") /\ UNCHANGED <<claim, txt, holder, proved>>
  \/ /\ req[q].pc = "delete" /\ DeleteDomain(req[q].org) /\ Done(q)
     /\ UNCHANGED <<txt, holder, ops, proved>>

\* A mutant: the domain has to be verified, by whomever.
BugAuthorizeDomainBinding(o) == GetVerifiedDomain # {}

\* The domain has to be verified for the organisation of the endpoint.
AuthorizeDomainBinding(o) == o \in GetVerifiedDomain

\* Creating or changing an endpoint; a unique index keeps one endpoint per domain.
BindDomain(q) ==
  \/ \E o \in Orgs : AuthorizeDomainBinding(o) /\ Begin(q, o, "bind") /\ UNCHANGED <<claim, txt, holder, proved>>
  \/ /\ req[q].pc = "bind"
     /\ holder' = (IF holder = None THEN req[q].org ELSE holder) /\ Done(q)
     /\ UNCHANGED <<claim, txt, ops, proved>>

RemoveEndpoint ==
  /\ holder # None /\ holder' = None
  /\ UNCHANGED <<claim, txt, req, ops, proved>>

Next ==
  \/ \E o \in Orgs : Publish(o)
  \/ \E q \in Reqs : CreateDomainHandler(q) \/ VerifyDomainHandler(q) \/ DeleteDomainHandler(q) \/ BindDomain(q)
  \/ RemoveEndpoint

Spec == Init /\ [][Next]_domainVars

-----------------------------------------------------------------------------
(* Properties.                                                             *)

\* A domain is verified for one organisation at most, and serves an endpoint only of
\* an organisation that proved by DNS that it owns it, in whatever order requests
\* verify, bind and delete it.
DomainProven ==
  /\ Cardinality(GetVerifiedDomain) <= 1
  /\ GetVerifiedDomain \subseteq proved
  /\ holder \in proved \cup {None}
=============================================================================
