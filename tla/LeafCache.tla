------------------------------ MODULE LeafCache ------------------------------
(***************************************************************************)
(* The leaf certificates of one decryption intermediate: decryptState of   *)
(* agent/decrypt_state.go.  CONNECT requests ask for the leaf of their     *)
(* host; one of them mints it, the others wait for the flight, and the     *)
(* cache holds MaxLeaves hosts in the order they were first stored.        *)
(***************************************************************************)
EXTENDS Naturals, Sequences, SequencesExt

CONSTANTS
  Hosts,
  Calls,      \* concurrent calls of leaf
  MaxLeaves   \* maxDecryptLeaves

VARIABLES
  leaves,    \* hosts with a certificate, fresh or about to expire
  order,     \* decryptState.order
  inflight,  \* inflight[h]: the call that mints for h, or NoCall
  calls      \* calls[c]: a call of leaf: its host and where it stands

vars == <<leaves, order, inflight, calls>>

NoCall == "noCall"
Idle == [st |-> "idle", host |-> CHOOSE h \in Hosts : TRUE, flight |-> NoCall]

TypeOK ==
  /\ leaves \in [Hosts -> {"none", "fresh", "stale"}]
  /\ order \in Seq(Hosts)
  /\ inflight \in [Hosts -> Calls \cup {NoCall}]
  /\ calls \in [Calls -> [st : {"idle", "minting", "minted", "failed", "waiting"},
                          host : Hosts, flight : Calls \cup {NoCall}]]

Init ==
  /\ leaves = [h \in Hosts |-> "none"]
  /\ order = <<>>
  /\ inflight = [h \in Hosts |-> NoCall]
  /\ calls = [c \in Calls |-> Idle]

Cached == {h \in Hosts : leaves[h] # "none"}

\* leaf, up to the unlock: a fresh certificate, somebody else's flight, or mint.
Leaf(c, h) ==
  /\ calls[c].st = "idle"
  /\ \/ leaves[h] = "fresh" /\ UNCHANGED <<calls, inflight>>
     \/ /\ leaves[h] # "fresh" /\ inflight[h] # NoCall
        /\ calls' = [calls EXCEPT ![c] = [st |-> "waiting", host |-> h, flight |-> inflight[h]]]
        /\ UNCHANGED inflight
     \/ /\ leaves[h] # "fresh" /\ inflight[h] = NoCall
        /\ calls' = [calls EXCEPT ![c] = [st |-> "minting", host |-> h, flight |-> NoCall]]
        /\ inflight' = [inflight EXCEPT ![h] = c]
  /\ UNCHANGED <<leaves, order>>

\* mint tries the signers in turn; none may be able to sign for the host.
Mint(c) ==
  /\ calls[c].st = "minting"
  /\ \E st \in {"minted", "failed"} : calls' = [calls EXCEPT ![c].st = st]
  /\ UNCHANGED <<leaves, order, inflight>>

BugAppendAlways(h) ==
  LET full == Len(order) >= MaxLeaves IN
  /\ order' = (IF full THEN Tail(order) ELSE order) \o <<h>>
  /\ leaves' = [x \in Hosts |->
       IF x = h THEN "fresh" ELSE IF full /\ x = Head(order) THEN "none" ELSE leaves[x]]

storeLeafLocked(h) ==
  LET full == h \notin Cached /\ Len(order) >= MaxLeaves IN
  /\ order' = IF h \in Cached THEN order
              ELSE (IF full THEN Tail(order) ELSE order) \o <<h>>
  /\ leaves' = [x \in Hosts |->
       IF x = h THEN "fresh" ELSE IF full /\ x = Head(order) THEN "none" ELSE leaves[x]]

\* leaf, from the second lock on: the flight ends and its waiters return.
Landed(c) ==
  /\ calls[c].st \in {"minted", "failed"}
  /\ inflight' = [inflight EXCEPT ![calls[c].host] = NoCall]
  /\ IF calls[c].st = "minted" THEN storeLeafLocked(calls[c].host) ELSE UNCHANGED <<leaves, order>>
  /\ calls' = [d \in Calls |-> IF d = c \/ calls[d].flight = c THEN Idle ELSE calls[d]]

\* A certificate comes within decryptExpiryMargin of its end.
Age(h) ==
  /\ leaves[h] = "fresh"
  /\ leaves' = [leaves EXCEPT ![h] = "stale"]
  /\ UNCHANGED <<order, inflight, calls>>

Next ==
  \/ \E c \in Calls : (\E h \in Hosts : Leaf(c, h)) \/ Mint(c) \/ Landed(c)
  \/ \E h \in Hosts : Age(h)

Spec == Init /\ [][Next]_vars

-----------------------------------------------------------------------------

\* The map of the leaves and the order they are evicted in name the same hosts,
\* each once, and no more than MaxLeaves: also when a host is minted again
\* because its leaf aged, and when it was evicted while its flight was up
\* (storeLeafLocked).
OrderMatchesLeaves ==
  /\ ToSet(order) = Cached
  /\ IsInjective(order)
  /\ Len(order) <= MaxLeaves

\* No two calls mint for the same host at a time, and whoever waits, waits for
\* a call that is still minting (inflight in leaf).
OneFlight ==
  \A c \in Calls :
    /\ calls[c].st \in {"minting", "minted", "failed"} => inflight[calls[c].host] = c
    /\ calls[c].st = "waiting" => inflight[calls[c].host] = calls[c].flight
=============================================================================
