--------------------------- MODULE CredentialProofs ---------------------------
(***************************************************************************)
(* What ends a session or is spent once stays so, for any number of        *)
(* requests, sessions, tokens, nodes and calls.  The flows of revoked      *)
(* sessions (FlowRevocation), the tokens of service accounts and of        *)
(* agents, the one-time codes of logins, the rotation of refresh tokens,   *)
(* and the cached secrets.  Each component has variables of its own here;  *)
(* they meet nowhere, and every theorem is about the specification of one. *)
(***************************************************************************)
EXTENDS FlowRevocation, TLAPS

-----------------------------------------------------------------------------
(* For any number of pods, sessions and flows, a flow that is spliced       *)
(* while its session is revoked is noticed.                                *)

\* Flows and sessions have their pods, and a flow a session or none.
Placed ==
  /\ flowPod \in [Flows -> Pods]
  /\ flowSess \in [Flows -> Sessions \cup {NoSession}]
  /\ home \in [Sessions -> Pods]
  /\ NoSession \notin Sessions

\* A flow is in the tracker from Track to its end, and the revocation of a
\* session begins by deleting it.
Kept ==
  /\ \A f \in Flows : f \in tracked <=> flow[f] \in {"tracked", "checked", "spliced"}
  /\ \A s \in live : revoking[s] = "no"

\* The revocation of session s has yet to reach pod p.
OnTheWay(s, p) ==
  \/ revoking[s] = "deliver"
  \/ p # home[s] /\ (revoking[s] = "publish" \/ s \in inbox[p])

\* A flow whose session was found alive, before it is spliced and after.
Noticed(f) ==
  flow[f] \in {"checked", "spliced"} /\ flowSess[f] # NoSession /\ flowPod[f] \notin Lossy =>
    \/ revoking[flowSess[f]] = "no" \/ f \in revoked
    \/ OnTheWay(flowSess[f], flowPod[f])

RevocationInv == TypeOK /\ Kept /\ \A f \in Flows : Noticed(f)

-----------------------------------------------------------------------------
\* Every action keeps the variables in their types.
LEMMA TypeStep == ASSUME Placed, TypeOK, [Next]_vars PROVE TypeOK'
<1> USE DEF TypeOK, flowVars, sweepVars
<1>1. ASSUME NEW f \in Flows, Track(f) \/ Lookup(f) \/ Attach(f) \/ Close(f) PROVE TypeOK'
  <2>1. flowPod[f] \in Pods
    BY Zenon DEF Placed
  <2> QED BY <1>1, <2>1 DEF Track, Lookup, Attach, Close
<1>2. ASSUME NEW s \in Sessions, RevokeSession(s) \/ Deliver(s) \/ Broadcast(s) \/ ExpireSession(s)
      PROVE  TypeOK'
  <2>1. CASE Broadcast(s)
    BY <2>1 DEF Broadcast
  <2> QED BY <1>2, <2>1 DEF RevokeSession, Deliver, Revoke, At, ExpireSession
<1>3. ASSUME NEW p \in Pods, NEW s \in Sessions,
             HandleRemoteRevoke(p, s) \/ SweepSession(p, s) \/ SweepFails(p, s)
      PROVE  TypeOK'
  BY <1>3 DEF HandleRemoteRevoke, SweepSession, SweepFails, Revoke, At
<1>4. ASSUME NEW p \in Pods, LiveSessions(p) \/ NextTick(p) PROVE TypeOK'
  <2>1. {flowSess[f] : f \in At(p) \ revoked} \ {NoSession} \subseteq Sessions
    BY DEF Placed, At
  <2> QED BY <1>4, <2>1 DEF LiveSessions, NextTick
<1>5. CASE UNCHANGED vars
  BY <1>5 DEF vars
<1> HIDE DEF TypeOK
<1> QED BY Zenon, <1>1, <1>2, <1>3, <1>4, <1>5 DEF Next

\* Track, Close and the deletion of a session keep the tracker in step.
LEMMA KeptStep == ASSUME TypeOK, Kept, [Next]_vars PROVE Kept'
<1> USE DEF TypeOK, Kept, flowVars, sweepVars
<1>1. ASSUME NEW f \in Flows, Track(f) \/ Lookup(f) \/ Attach(f) \/ Close(f) PROVE Kept'
  <2>1. live' = live /\ revoking' = revoking
    BY Zenon, <1>1 DEF Track, Lookup, Attach, Close
  <2>2. ASSUME NEW g \in Flows
        PROVE  g \in tracked' <=> flow'[g] \in {"tracked", "checked", "spliced"}
    BY <1>1, <2>2 DEF Track, Lookup, Attach, Close
  <2> QED BY Zenon, <2>1, <2>2
<1>2. ASSUME NEW s \in Sessions, RevokeSession(s) \/ Deliver(s) \/ Broadcast(s) \/ ExpireSession(s)
      PROVE  Kept'
  <2>1. flow' = flow /\ tracked' = tracked
    BY Zenon, <1>2 DEF RevokeSession, Deliver, Broadcast, ExpireSession
  <2>2. \A t \in live' : revoking'[t] = "no"
    BY <1>2 DEF RevokeSession, Deliver, Broadcast, ExpireSession
  <2> QED BY Zenon, <2>1, <2>2
<1>3. ASSUME NEW p \in Pods, NEW s \in Sessions,
             HandleRemoteRevoke(p, s) \/ SweepSession(p, s) \/ SweepFails(p, s)
      PROVE  Kept'
  BY Zenon, <1>3 DEF HandleRemoteRevoke, SweepSession, SweepFails
<1>4. ASSUME NEW p \in Pods, LiveSessions(p) \/ NextTick(p) PROVE Kept'
  BY Zenon, <1>4 DEF LiveSessions, NextTick
<1>5. CASE UNCHANGED vars
  BY Zenon, <1>5 DEF vars
<1> HIDE DEF Kept
<1> QED BY Zenon, <1>1, <1>2, <1>3, <1>4, <1>5 DEF Next

\* Revoke marks every tracked flow of the session at the pod.
LEMMA RevokeMarks ==
  ASSUME NEW f \in Flows, f \in tracked, NEW p, NEW s, Revoke(p, s),
         flowPod[f] = p, flowSess[f] = s
  PROVE  f \in revoked'
BY Zenon DEF Revoke, At

\* A revocation that has begun stays on its way to the pod of a tracked flow
\* until it has marked the flow.
LEMMA ReachesFlow ==
  ASSUME Placed, TypeOK, [Next]_vars, NEW f \in Flows, f \in tracked,
         flowSess[f] # NoSession, flowPod[f] \notin Lossy,
         OnTheWay(flowSess[f], flowPod[f])
  PROVE  f \in revoked' \/ OnTheWay(flowSess[f], flowPod[f])'
<1> DEFINE s == flowSess[f]
           p == flowPod[f]
           Goal == f \in revoked' \/ OnTheWay(s, p)'
<1>0. /\ s \in Sessions /\ p \in Pods /\ home[s] \in Pods /\ p \notin Lossy
      /\ revoking \in [Sessions -> {"no", "deliver", "publish", "done"}]
      /\ inbox \in [Pods -> SUBSET Sessions]
  BY Zenon DEF Placed, TypeOK
<1>1. ASSUME UNCHANGED <<revoking, inbox>> PROVE Goal
  BY Zenon, <1>1 DEF OnTheWay
<1>2. ASSUME NEW t \in Sessions, RevokeSession(t) PROVE Goal
  <2>1. revoking' = [revoking EXCEPT ![t] = "deliver"] /\ inbox' = inbox
    BY Zenon, <1>2 DEF RevokeSession
  <2> QED BY Zenon, <1>0, <2>1 DEF OnTheWay
<1>3. ASSUME NEW t \in Sessions, Deliver(t) PROVE Goal
  <2>1. /\ revoking' = [revoking EXCEPT ![t] = "publish"] /\ inbox' = inbox
        /\ Revoke(home[t], t)
    BY Zenon, <1>3 DEF Deliver
  <2>2. CASE t = s /\ p = home[s]
    BY Zenon, <2>1, <2>2, RevokeMarks
  <2>3. CASE t = s /\ p # home[s]
    BY Zenon, <1>0, <2>1, <2>3 DEF OnTheWay
  <2>4. CASE t # s
    BY Zenon, <1>0, <2>1, <2>4 DEF OnTheWay
  <2> QED BY Zenon, <2>2, <2>3, <2>4
<1>4. ASSUME NEW t \in Sessions, Broadcast(t) PROVE Goal
  <2>1. revoking' = [revoking EXCEPT ![t] = "done"] /\ revoking[t] = "publish"
    BY Zenon, <1>4 DEF Broadcast
  <2>2. PICK missing \in SUBSET (Lossy \ {home[t]}) :
           inbox' = [q \in Pods |-> IF q \in missing \cup {home[t]} THEN inbox[q]
                                                                 ELSE inbox[q] \cup {t}]
    BY Zenon, <1>4 DEF Broadcast
  <2>3. inbox[p] \subseteq inbox'[p] /\ (p # home[t] => t \in inbox'[p])
    BY SMT, <1>0, <2>2
  <2>4. CASE t = s
    BY Zenon, <1>0, <2>1, <2>3, <2>4 DEF OnTheWay
  <2>5. CASE t # s
    BY Zenon, <1>0, <2>1, <2>3, <2>5 DEF OnTheWay
  <2> QED BY Zenon, <2>4, <2>5
<1>5. ASSUME NEW t \in Sessions, ExpireSession(t) PROVE Goal
  BY Zenon, <1>1, <1>5 DEF ExpireSession
<1>6. ASSUME NEW q \in Pods, NEW t \in Sessions, HandleRemoteRevoke(q, t) PROVE Goal
  <2>1. inbox' = [inbox EXCEPT ![q] = @ \ {t}] /\ revoking' = revoking /\ Revoke(q, t)
    BY Zenon, <1>6 DEF HandleRemoteRevoke
  <2>2. CASE q = p /\ t = s
    BY Zenon, <2>1, <2>2, RevokeMarks
  <2>3. CASE ~(q = p /\ t = s)
    <3>1. s \in inbox'[p] <=> s \in inbox[p]
      BY SMT, <1>0, <2>1, <2>3
    <3> QED BY Zenon, <2>1, <3>1 DEF OnTheWay
  <2> QED BY Zenon, <2>2, <2>3
<1>7. ASSUME NEW q \in Pods, NEW t \in Sessions, SweepSession(q, t) \/ SweepFails(q, t) PROVE Goal
  BY Zenon, <1>1, <1>7 DEF SweepSession, SweepFails
<1>8. ASSUME NEW q \in Pods, LiveSessions(q) \/ NextTick(q) PROVE Goal
  BY Zenon, <1>1, <1>8 DEF LiveSessions, NextTick
<1>9. ASSUME NEW g \in Flows, Track(g) \/ Lookup(g) \/ Attach(g) \/ Close(g) PROVE Goal
  BY Zenon, <1>1, <1>9 DEF Track, Lookup, Attach, Close
<1>10. ASSUME UNCHANGED vars PROVE Goal
  BY Zenon, <1>1, <1>10 DEF vars
<1> HIDE DEF Goal
<1>11. Goal
  BY Zenon, <1>2, <1>3, <1>4, <1>5, <1>6, <1>7, <1>8, <1>9, <1>10 DEF Next
<1> QED BY Zenon, <1>11 DEF Goal

\* What a step may do to a flow, its mark and its session.
LEMMA FlowStep ==
  ASSUME TypeOK, [Next]_vars, NEW f \in Flows, NEW s \in Sessions
  PROVE  /\ f \in revoked => f \in revoked'
         /\ flow'[f] = "checked" => flow[f] = "checked" \/ Lookup(f)
         /\ flow'[f] = "spliced" => flow[f] \in {"checked", "spliced"}
         /\ revoking[s] = "no" => revoking'[s] \in {"no", "deliver"}
<1>0. flow \in [Flows -> {"new", "tracked", "checked", "spliced", "closed"}]
      /\ revoking \in [Sessions -> {"no", "deliver", "publish", "done"}]
  BY Zenon DEF TypeOK
<1> DEFINE Goal == /\ f \in revoked => f \in revoked'
                   /\ flow'[f] = "checked" => flow[f] = "checked" \/ Lookup(f)
                   /\ flow'[f] = "spliced" => flow[f] \in {"checked", "spliced"}
                   /\ revoking[s] = "no" => revoking'[s] \in {"no", "deliver"}
<1>1. ASSUME NEW g \in Flows, Track(g) \/ Lookup(g) \/ Attach(g) \/ Close(g) PROVE Goal
  BY Zenon, <1>0, <1>1 DEF Track, Lookup, Attach, Close
<1>2. ASSUME NEW t \in Sessions, RevokeSession(t) \/ Deliver(t) \/ Broadcast(t) \/ ExpireSession(t)
      PROVE  Goal
  <2>1. flow' = flow /\ revoked \subseteq revoked'
    BY Zenon, <1>2 DEF RevokeSession, Deliver, Broadcast, ExpireSession, Revoke, flowVars
  <2>2. \/ revoking' = revoking \/ revoking' = [revoking EXCEPT ![t] = "deliver"]
        \/ revoking[t] # "no" /\ revoking' = [revoking EXCEPT ![t] = "publish"]
        \/ revoking[t] # "no" /\ revoking' = [revoking EXCEPT ![t] = "done"]
    BY Zenon, <1>2 DEF RevokeSession, Deliver, Broadcast, ExpireSession
  <2>3. revoking[s] = "no" => revoking'[s] \in {"no", "deliver"}
    BY Zenon, <1>0, <2>2
  <2> QED BY Zenon, <2>1, <2>3
<1>3. ASSUME NEW p \in Pods, NEW t \in Sessions,
             HandleRemoteRevoke(p, t) \/ SweepSession(p, t) \/ SweepFails(p, t)
      PROVE  Goal
  BY Zenon, <1>3 DEF HandleRemoteRevoke, SweepSession, SweepFails, Revoke, flowVars
<1>4. ASSUME NEW p \in Pods, LiveSessions(p) \/ NextTick(p) PROVE Goal
  BY Zenon, <1>4 DEF LiveSessions, NextTick, flowVars
<1>5. ASSUME UNCHANGED vars PROVE Goal
  BY Zenon, <1>5 DEF vars
<1> HIDE DEF Goal
<1>6. Goal
  BY Zenon, <1>1, <1>2, <1>3, <1>4, <1>5 DEF Next
<1> QED BY Zenon, <1>6 DEF Goal

\* A flow that found its session alive is noticed when the session goes.
LEMMA NoticedStep ==
  ASSUME Placed, RevocationInv, [Next]_vars, NEW f \in Flows
  PROVE  Noticed(f)'
<1> SUFFICES ASSUME flow'[f] \in {"checked", "spliced"}, flowSess[f] # NoSession,
                    flowPod[f] \notin Lossy
             PROVE  \/ revoking'[flowSess[f]] = "no" \/ f \in revoked'
                    \/ OnTheWay(flowSess[f], flowPod[f])'
  BY Zenon DEF Noticed
<1>0. TypeOK /\ Kept /\ Noticed(f) /\ flowSess[f] \in Sessions
  BY Zenon DEF RevocationInv, Placed
<1>1. CASE Lookup(f)
  <2>1. flowSess[f] \in live /\ revoking' = revoking
    BY Zenon, <1>1 DEF Lookup
  <2> QED BY Zenon, <1>0, <2>1 DEF Kept
<1>2. CASE ~Lookup(f)
  <2>1. flow[f] \in {"checked", "spliced"} /\ f \in tracked
    BY Zenon, <1>0, <1>2, FlowStep DEF Kept
  <2>2. revoking[flowSess[f]] = "no" \/ f \in revoked \/ OnTheWay(flowSess[f], flowPod[f])
    BY Zenon, <1>0, <2>1 DEF Noticed
  <2>3. CASE revoking[flowSess[f]] = "no"
    BY Zenon, <1>0, <2>3, FlowStep DEF OnTheWay
  <2>4. CASE f \in revoked
    BY Zenon, <1>0, <2>4, FlowStep
  <2>5. CASE OnTheWay(flowSess[f], flowPod[f])
    BY Zenon, <1>0, <2>1, <2>5, ReachesFlow
  <2> QED BY Zenon, <2>2, <2>3, <2>4, <2>5
<1> QED BY Zenon, <1>1, <1>2

\* For any pods, sessions and flows: once a session's revocation has begun, a
\* spliced flow of it at a pod whose subscription works is marked, or the
\* revocation is still on its way there, although Track, the lookup, Attach,
\* RevokeSession, deliver and the bus interleave freely.
THEOREM RevocationNoticed == Placed => (Spec => []RevokedFlowNoticed)
<1> SUFFICES ASSUME Placed PROVE Spec => []RevokedFlowNoticed
  OBVIOUS
<1>1. Init => RevocationInv
  BY DEF Init, RevocationInv, TypeOK, Kept, Noticed
<1>2. RevocationInv /\ [Next]_vars => RevocationInv'
  BY Zenon, TypeStep, KeptStep, NoticedStep DEF RevocationInv
<1>3. RevocationInv => RevokedFlowNoticed
  BY Zenon DEF RevocationInv, Noticed, OnTheWay, RevokedFlowNoticed
<1> QED BY <1>1, <1>2, <1>3, PTL DEF Spec

-----------------------------------------------------------------------------
(* Cached secrets.                                                         *)

CONSTANTS Nodes, MaxValue, MaxNow, TTL, Readers

VARIABLES row, put, kept, gen, writer, reader, due, lost, clock

Vault == INSTANCE SecretVault WITH cache <- kept, now <- clock

\* Why node n may still have value v: an invalidation is due, one was lost, or a
\* Put has changed the row and not come back.
Excused(n, v) ==
  due[n] > 0 \/ v \in lost[n] \/ \E m \in Nodes : writer[m].pc = "after"

Read == [pc : {"idle", "get", "store"}, gen : Nat, value : Nat]

VaultTypes ==
  /\ row \in Nat
  /\ kept \in [Nodes -> [value : Nat, expires : Nat]]
  /\ gen \in [Nodes -> Nat] /\ due \in [Nodes -> Nat] /\ clock \in Nat /\ put \in Nat
  /\ lost \in [Nodes -> SUBSET Nat]
  /\ writer \in [Nodes -> [pc : {"idle", "write", "after"}, value : Nat]]
  /\ reader \in [Nodes -> [Readers -> Read]]

\* A call of Open that may still store what it has read.
MayStore(n, r) == reader[n][r].pc = "store" /\ reader[n][r].gen = gen[n]

\* What a node has, and what a call of Open will store there, is the row or
\* excused; no call has read a generation that is still to come.
NodeSound(n) ==
  /\ kept[n].value \notin {0, row} => Excused(n, kept[n].value)
  /\ \A r \in Readers :
       /\ reader[n][r].pc # "idle" => reader[n][r].gen <= gen[n]
       /\ MayStore(n, r) /\ reader[n][r].value # row => Excused(n, reader[n][r].value)

VaultInv == VaultTypes /\ \A n \in Nodes : NodeSound(n)

\* Reads changes one call of Open.
LEMMA ReadsOne ==
  ASSUME VaultTypes, NEW n \in Nodes, NEW r \in Readers, NEW v \in Read, Vault!Reads(n, r, v)
  PROVE  /\ reader' \in [Nodes -> [Readers -> Read]] /\ reader'[n][r] = v
         /\ \A m \in Nodes, s \in Readers : <<m, s>> # <<n, r>> => reader'[m][s] = reader[m][s]
BY Zenon DEF VaultTypes, Vault!Reads

\* What a step of Open leaves of its call.
LEMMA OpenReads ==
  ASSUME VaultTypes, NEW n \in Nodes, NEW r \in Readers, Vault!Open(n, r)
  PROVE  /\ UNCHANGED <<row, put, kept, gen, writer, due, lost, clock>>
         /\ \E v \in Read :
              /\ Vault!Reads(n, r, v)
              /\ \/ v.pc = "idle"
                 \/ v.pc = "get" /\ v.gen = gen[n]
                 \/ v.pc = "store" /\ v.value = row /\ v.gen = reader[n][r].gen
                    /\ reader[n][r].pc = "get"
<1> USE DEF VaultTypes, Read
<1>1. UNCHANGED <<row, put, kept, gen, writer, due, lost, clock>> BY Zenon DEF Vault!Open
<1> DEFINE Left(v) == \/ v.pc = "idle"
                      \/ v.pc = "get" /\ v.gen = gen[n]
                      \/ v.pc = "store" /\ v.value = row /\ v.gen = reader[n][r].gen
                         /\ reader[n][r].pc = "get"
<1>2. CASE reader[n][r].pc = "get"
  <2> DEFINE v == IF row = 0 THEN Vault!NoRead ELSE [reader[n][r] EXCEPT !.pc = "store", !.value = row]
  <2>1. reader[n][r] \in Read OBVIOUS
  <2>2. v \in Read /\ Left(v) BY <1>2, <2>1 DEF Vault!NoRead
  <2>3. Vault!Reads(n, r, v) BY <1>2 DEF Vault!Open, Vault!NoRead
  <2> HIDE DEF v
  <2> QED BY Zenon, <1>1, <2>2, <2>3
<1>3. CASE reader[n][r].pc # "get"
  <2> DEFINE v == [pc |-> "get", gen |-> gen[n], value |-> 0]
  <2>1. v \in Read /\ Left(v) OBVIOUS
  <2>2. Vault!Reads(n, r, v) BY Zenon, <1>3 DEF Vault!Open
  <2> HIDE DEF v
  <2> QED BY Zenon, <1>1, <2>1, <2>2
<1> QED BY Zenon, <1>2, <1>3

\* Every step of the vault keeps the types.
LEMMA VaultTypesStep ==
  ASSUME TTL \in Nat, VaultTypes, [Vault!Next]_Vault!vaultVars PROVE VaultTypes'
<1> USE DEF VaultTypes, Vault!Empty, Vault!NoWrite, Vault!NoRead, Vault!Invalidate
<1>1. ASSUME NEW n \in Nodes, Vault!Put(n) PROVE VaultTypes'
  <2>1. CASE writer[n].pc = "write"
    <3>1. row' \in {row, writer[n].value} /\ writer' = [writer EXCEPT ![n].pc = "after"]
          /\ UNCHANGED <<put, kept, gen, reader, due, lost, clock>>
      BY <1>1, <2>1 DEF Vault!Put
    <3>2. row' \in Nat /\ writer' \in [Nodes -> [pc : {"idle", "write", "after"}, value : Nat]]
      BY <3>1
    <3> QED BY Zenon, <3>1, <3>2
  <2>2. CASE writer[n].pc # "write"
    <3>1. PICK v \in {0, put + 1} : writer' = [writer EXCEPT ![n] = [pc |-> "write", value |-> v]]
      BY Zenon, <1>1, <2>2 DEF Vault!Put
    <3>2. put' = put + 1 /\ Vault!Invalidate(n) /\ UNCHANGED <<row, reader, due, lost, clock>>
      BY Zenon, <1>1, <2>2 DEF Vault!Put
    <3>3. v \in Nat /\ put + 1 \in Nat BY SMT DEF Vault!Invalidate
    <3> QED BY <3>1, <3>2, <3>3
  <2> QED BY <2>1, <2>2
<1>2. ASSUME NEW n \in Nodes, Vault!InvalidateEverywhere(n) PROVE VaultTypes'
  <2>1. \A m \in Nodes : Vault!Held(m) \subseteq Nat BY DEF Vault!Held, Read
  <2>2. due' \in [Nodes -> Nat] /\ lost' \in [Nodes -> SUBSET Nat]
    <3>1. CASE UNCHANGED lost
          /\ due' = [m \in Nodes |-> IF m = n THEN due[m] ELSE due[m] + 1]
      BY <3>1
    <3>2. CASE UNCHANGED due
          /\ lost' = [m \in Nodes |-> IF m = n THEN lost[m] ELSE lost[m] \cup Vault!Held(m)]
      BY <2>1, <3>2
    <3> QED BY Zenon, <1>2, <3>1, <3>2 DEF Vault!InvalidateEverywhere
  <2>3. kept' \in [Nodes -> [value : Nat, expires : Nat]] /\ gen' \in [Nodes -> Nat]
    BY <1>2 DEF Vault!InvalidateEverywhere
  <2> QED BY <1>2, <2>2, <2>3 DEF Vault!InvalidateEverywhere
<1>3. ASSUME NEW n \in Nodes, Vault!HandleRemoteInvalidation(n) PROVE VaultTypes'
  BY <1>3 DEF Vault!HandleRemoteInvalidation
<1>4. ASSUME NEW n \in Nodes, NEW r \in Readers, Vault!Open(n, r) PROVE VaultTypes'
  <2>1. UNCHANGED <<row, put, kept, gen, writer, due, lost, clock>> BY Zenon, <1>4, OpenReads
  <2>2. reader' \in [Nodes -> [Readers -> Read]]
    <3> HIDE DEF VaultTypes
    <3>1. PICK v \in Read : Vault!Reads(n, r, v) BY Zenon, <1>4, OpenReads
    <3> QED BY Zenon, <3>1, ReadsOne
  <2> QED BY Zenon, <2>1, <2>2
<1>5. ASSUME NEW n \in Nodes, NEW r \in Readers, Vault!Store(n, r) PROVE VaultTypes'
  <2>1. Vault!NoRead \in Read /\ Vault!Reads(n, r, Vault!NoRead)
        /\ UNCHANGED <<row, put, gen, writer, due, lost, clock>>
    BY <1>5 DEF Vault!Store, Read
  <2>2. reader' \in [Nodes -> [Readers -> Read]] BY Zenon, <2>1, ReadsOne
  <2>3. reader[n][r].value \in Nat /\ clock + TTL \in Nat BY DEF Read
  <2>4. CASE UNCHANGED kept BY Zenon, <2>1, <2>2, <2>4
  <2>5. CASE kept' = [kept EXCEPT ![n] = [value |-> reader[n][r].value, expires |-> clock + TTL]]
    <3>1. kept' \in [Nodes -> [value : Nat, expires : Nat]] BY <2>3, <2>5
    <3> QED BY Zenon, <2>1, <2>2, <3>1
  <2> QED BY Zenon, <1>5, <2>4, <2>5 DEF Vault!Store
<1>6. CASE Vault!Tick BY <1>6 DEF Vault!Tick
<1>7. CASE UNCHANGED Vault!vaultVars BY <1>7 DEF Vault!vaultVars
<1> QED BY Zenon, <1>1, <1>2, <1>3, <1>4, <1>5, <1>6, <1>7 DEF Vault!Next

\* After invalidate the node has nothing, and no call of Open may store there.
LEMMA InvalidatedSound ==
  ASSUME VaultInv, NEW n \in Nodes, Vault!Invalidate(n), UNCHANGED reader
  PROVE  NodeSound(n)'
<1>1. /\ kept' = [kept EXCEPT ![n] = [value |-> 0, expires |-> 0]]
      /\ gen' = [gen EXCEPT ![n] = gen[n] + 1]
  BY Zenon DEF Vault!Invalidate, Vault!Empty
<1>2. kept'[n].value = 0 /\ gen'[n] = gen[n] + 1 /\ gen[n] \in Nat
  BY <1>1 DEF VaultInv, VaultTypes
<1>3. ASSUME NEW r \in Readers
      PROVE  /\ reader[n][r].gen \in Nat /\ reader[n][r].pc \in {"idle", "get", "store"}
             /\ reader[n][r].pc # "idle" => reader[n][r].gen <= gen[n]
  BY DEF VaultInv, VaultTypes, NodeSound, Read
<1> QED BY <1>2, <1>3 DEF NodeSound, MayStore

\* Elsewhere nothing changes.
LEMMA OthersSound ==
  ASSUME VaultInv, NEW n \in Nodes, Vault!Invalidate(n), UNCHANGED <<row, reader>>,
         NEW m \in Nodes, m # n,
         \A v \in Nat : Excused(m, v) /\ (v = kept[m].value \/ \E r \in Readers : v = reader[m][r].value)
                         => Excused(m, v)'
  PROVE  NodeSound(m)'
<1>1. kept'[m] = kept[m] /\ gen'[m] = gen[m]
  BY DEF VaultInv, VaultTypes, Vault!Invalidate
<1>2. kept[m].value \in Nat /\ \A r \in Readers : reader[m][r].value \in Nat
  BY DEF VaultInv, VaultTypes, Read
<1> QED BY Zenon, <1>1, <1>2 DEF NodeSound, MayStore, VaultInv

\* Put, Delete, the invalidations that follow them, Open and the bus interleave
\* freely, and a node has only what is stored or excused.
LEMMA NodeSoundStep ==
  ASSUME VaultInv, VaultTypes', [Vault!Next]_Vault!vaultVars, NEW m \in Nodes
  PROVE  NodeSound(m)'
<1> USE DEF VaultTypes, Vault!Empty, Vault!NoWrite, Vault!NoRead, MayStore
<1>0. VaultTypes /\ NodeSound(m) BY DEF VaultInv
<1>1. ASSUME NEW n \in Nodes, Vault!Put(n) PROVE NodeSound(m)'
  <2>1. CASE writer[n].pc = "write"
    <3>1. writer'[n].pc = "after" /\ UNCHANGED <<kept, gen, reader>>
      BY <1>0, <1>1, <2>1 DEF Vault!Put
    <3> QED BY Zenon, <1>0, <3>1 DEF NodeSound, Excused
  <2>2. CASE writer[n].pc # "write"
    <3>1. writer[n].pc = "idle" /\ (\A k \in Nodes \ {n} : writer'[k] = writer[k])
          /\ UNCHANGED <<row, reader, due, lost>>
      BY <1>0, <1>1, <2>2 DEF Vault!Put
    <3>2. Vault!Invalidate(n) BY Zenon, <1>1, <2>2 DEF Vault!Put
    <3>3. \A v : Excused(m, v) => Excused(m, v)' BY <3>1 DEF Excused
    <3> QED BY Zenon, <3>1, <3>2, <3>3, InvalidatedSound, OthersSound
  <2> QED BY <2>1, <2>2
<1>2. ASSUME NEW n \in Nodes, Vault!InvalidateEverywhere(n) PROVE NodeSound(m)'
  <2>1. Vault!Invalidate(n) /\ UNCHANGED <<row, reader>>
    BY Zenon, <1>2 DEF Vault!InvalidateEverywhere
  <2>2. CASE m = n BY Zenon, <2>1, <2>2, InvalidatedSound
  <2>3. CASE m # n
    <3>1. \/ due'[m] = due[m] + 1
          \/ lost'[m] = lost[m] \cup Vault!Held(m)
      BY Zenon, <1>0, <1>2, <2>3 DEF Vault!InvalidateEverywhere
    <3>2. ASSUME NEW v \in Nat, v = kept[m].value \/ \E r \in Readers : v = reader[m][r].value
          PROVE  Excused(m, v)'
      BY <1>0, <3>1, <3>2 DEF Excused, Vault!Held
    <3> QED BY Zenon, <2>1, <2>3, <3>2, OthersSound
  <2> QED BY <2>2, <2>3
<1>3. ASSUME NEW n \in Nodes, Vault!HandleRemoteInvalidation(n) PROVE NodeSound(m)'
  <2>1. Vault!Invalidate(n) /\ UNCHANGED <<row, reader>>
        /\ due' = [due EXCEPT ![n] = @ - 1] /\ UNCHANGED <<writer, lost>>
    BY Zenon, <1>3 DEF Vault!HandleRemoteInvalidation
  <2>2. m # n => \A v : Excused(m, v) => Excused(m, v)' BY <1>0, <2>1 DEF Excused
  <2> QED BY Zenon, <2>1, <2>2, InvalidatedSound, OthersSound
<1>4. ASSUME NEW n \in Nodes, NEW s \in Readers, Vault!Open(n, s) PROVE NodeSound(m)'
  <2>0. gen[n] \in Nat BY <1>0
  <2> HIDE DEF VaultTypes
  <2>1. UNCHANGED <<row, kept, gen, writer, due, lost>> BY Zenon, <1>0, <1>4, OpenReads
  <2>2. PICK v \in Read : /\ Vault!Reads(n, s, v)
                          /\ \/ v.pc = "idle"
                             \/ v.pc = "get" /\ v.gen = gen[n]
                             \/ v.pc = "store" /\ v.value = row /\ v.gen = reader[n][s].gen
                                /\ reader[n][s].pc = "get"
    BY Zenon, <1>0, <1>4, OpenReads
  <2>3. /\ reader'[n][s] = v
        /\ \A k \in Nodes, r \in Readers : <<k, r>> # <<n, s>> => reader'[k][r] = reader[k][r]
    <3>1. VaultTypes /\ Vault!Reads(n, s, v) BY Zenon, <1>0, <2>2
    <3> QED BY Zenon, <3>1, ReadsOne
  <2> SUFFICES ASSUME NEW r \in Readers
               PROVE  /\ reader'[m][r].pc # "idle" => reader'[m][r].gen <= gen[m]
                      /\ reader'[m][r].pc = "store" /\ reader'[m][r].gen = gen[m]
                           /\ reader'[m][r].value # row => Excused(m, reader'[m][r].value)
    BY Zenon, <1>0, <2>1 DEF NodeSound, Excused
  <2>4. CASE m = n /\ r = s BY <1>0, <2>0, <2>2, <2>3, <2>4 DEF NodeSound, Read
  <2>5. CASE ~(m = n /\ r = s)
    <3>1. reader'[m][r] = reader[m][r] BY Zenon, <2>3, <2>5
    <3> QED BY <1>0, <3>1 DEF NodeSound
  <2> QED BY Zenon, <2>4, <2>5
<1>5. ASSUME NEW n \in Nodes, NEW s \in Readers, Vault!Store(n, s) PROVE NodeSound(m)'
  <2>1. UNCHANGED <<row, gen, writer, due, lost>> BY <1>5 DEF Vault!Store
  <2>2. kept'[m].value = kept[m].value \/ (m = n /\ MayStore(n, s) /\ kept'[m].value = reader[n][s].value)
    BY <1>0, <1>5 DEF Vault!Store
  <2>3. \A r \in Readers : reader'[m][r] = reader[m][r] \/ reader'[m][r].pc = "idle"
    <3>1. Vault!Reads(n, s, Vault!NoRead) BY Zenon, <1>5 DEF Vault!Store
    <3>2. Vault!NoRead \in Read /\ Vault!NoRead.pc = "idle" BY DEF Read
    <3> HIDE DEF VaultTypes, Vault!NoRead
    <3>3. reader'[n][s] = Vault!NoRead
          /\ \A k \in Nodes, r \in Readers : <<k, r>> # <<n, s>> => reader'[k][r] = reader[k][r]
      BY Zenon, <1>0, <3>1, <3>2, ReadsOne
    <3> QED BY Zenon, <3>2, <3>3
  <2> QED BY <1>0, <2>1, <2>2, <2>3 DEF NodeSound, Excused
<1>6. CASE Vault!Tick BY <1>0, <1>6 DEF Vault!Tick, NodeSound, Excused
<1>7. CASE UNCHANGED Vault!vaultVars BY <1>0, <1>7 DEF Vault!vaultVars, NodeSound, Excused
<1> QED BY Zenon, <1>1, <1>2, <1>3, <1>4, <1>5, <1>6, <1>7 DEF Vault!Next

\* For any number of nodes, values and calls of Open: a node that serves a secret
\* from its cache serves the stored value, unless a change has not come back, an
\* invalidation is on its way to the node, or the one for that value was lost.
THEOREM SecretsCurrent == TTL \in Nat => (Vault!Spec => []Vault!SecretCurrent)
<1> SUFFICES ASSUME TTL \in Nat PROVE Vault!Spec => []Vault!SecretCurrent
  OBVIOUS
<1>1. Vault!Init => VaultInv
  BY DEF Vault!Init, VaultInv, VaultTypes, NodeSound, MayStore, Vault!Empty, Vault!NoWrite,
         Vault!NoRead, Read
<1>2. VaultInv /\ [Vault!Next]_Vault!vaultVars => VaultInv'
  BY Zenon, VaultTypesStep, NodeSoundStep DEF VaultInv
<1>3. VaultInv => Vault!SecretCurrent
  BY DEF VaultInv, NodeSound, Excused, Vault!SecretCurrent, Vault!Cached
<1> QED BY <1>1, <1>2, <1>3, PTL DEF Vault!Spec

-----------------------------------------------------------------------------
(* Refresh tokens.                                                         *)

CONSTANTS Reqs, MaxTid

VARIABLES alive, tid, grace, claimed, file, client, settled, rreq, pres, snap, reused, late

Refresh == INSTANCE RefreshRotation WITH live <- alive, req <- rreq

\* What a refresh request knows: it presents no token that is newer than the one
\* of the file, and exactly that one while it holds the lock; it rotates the token
\* that it presents, and what it answers with is the one after it.
RequestKnows(q) ==
  /\ rreq[q] # "new" => pres[q] <= file
  /\ q \in client => rreq[q] # "new" /\ pres[q] = file
  /\ snap[q] <= tid
  /\ rreq[q] = "rotate" => snap[q] = pres[q]
  /\ rreq[q] \in {"active", "ok"} => snap[q] = pres[q] + 1

RefreshTypes ==
  /\ tid \in Nat /\ file \in Nat /\ client \subseteq Reqs
  /\ rreq \in [Reqs -> Refresh!Stages] /\ pres \in [Reqs -> Nat] /\ snap \in [Reqs -> Nat]

RefreshInv == RefreshTypes /\ Refresh!ClientWithinOne /\ \A q \in Reqs : RequestKnows(q)

\* Every step of the agent and of the server keeps the types.
LEMMA RefreshTypesStep == RefreshTypes /\ [Refresh!Next]_Refresh!vars => RefreshTypes'
<1> SUFFICES ASSUME RefreshTypes, [Refresh!Next]_Refresh!vars PROVE RefreshTypes'
  OBVIOUS
<1> USE DEF RefreshTypes, Refresh!Stages, Refresh!sessVars, Refresh!clientVars, Refresh!At
<1>1. ASSUME NEW q \in Reqs, Refresh!Send(q) PROVE RefreshTypes' BY <1>1 DEF Refresh!Send
<1>2. ASSUME NEW q \in Reqs, Refresh!Receive(q) PROVE RefreshTypes' BY <1>2 DEF Refresh!Receive
<1>3. ASSUME NEW q \in Reqs, Refresh!GiveUp(q) PROVE RefreshTypes' BY <1>3 DEF Refresh!GiveUp
<1>4. ASSUME NEW q \in Reqs, Refresh!Verify(q) PROVE RefreshTypes' BY <1>4 DEF Refresh!Verify
<1>5. ASSUME NEW q \in Reqs, Refresh!Rotate(q) PROVE RefreshTypes' BY <1>5 DEF Refresh!Rotate
<1>6. ASSUME NEW q \in Reqs, Refresh!WithinGrace(q) PROVE RefreshTypes' BY <1>6 DEF Refresh!WithinGrace
<1>7. ASSUME NEW q \in Reqs, Refresh!Revoke(q) PROVE RefreshTypes' BY <1>7 DEF Refresh!Revoke
<1>8. ASSUME NEW q \in Reqs, Refresh!Active(q) \/ Refresh!NotActive(q) PROVE RefreshTypes'
  BY <1>8 DEF Refresh!Active, Refresh!NotActive
<1>9. ASSUME NEW q \in Reqs, Refresh!Unavailable(q) PROVE RefreshTypes'
  BY <1>9 DEF Refresh!Unavailable
<1>10. ASSUME NEW t \in Refresh!Tids, Refresh!GraceEnds(t) PROVE RefreshTypes'
  BY <1>10 DEF Refresh!GraceEnds
<1>11. CASE Refresh!NeedsRefresh \/ Refresh!SessionEnds
  BY <1>11 DEF Refresh!NeedsRefresh, Refresh!SessionEnds
<1>12. CASE UNCHANGED Refresh!vars BY <1>12 DEF Refresh!vars
<1> QED BY Zenon, <1>1, <1>2, <1>3, <1>4, <1>5, <1>6, <1>7, <1>8, <1>9, <1>10, <1>11, <1>12
           DEF Refresh!Next

\* A request goes on knowing what it knows, whatever the other requests, the file
\* and the session do: the file only moves on to the current token.
LEMMA RequestKnowsStep ==
  ASSUME RefreshInv, RefreshTypes', [Refresh!Next]_Refresh!vars
  PROVE  Refresh!ClientWithinOne' /\ \A p \in Reqs : RequestKnows(p)'
<1> USE DEF RefreshTypes, Refresh!sessVars, Refresh!clientVars, Refresh!At
<1>0. RefreshTypes /\ Refresh!ClientWithinOne /\ \A q \in Reqs : RequestKnows(q)
  BY DEF RefreshInv
<1> DEFINE Goal == Refresh!ClientWithinOne' /\ \A p \in Reqs : RequestKnows(p)'
<1>1. ASSUME NEW q \in Reqs, Refresh!Send(q) PROVE Goal
  BY <1>0, <1>1 DEF Refresh!Send, RequestKnows, Refresh!ClientWithinOne
<1>2. ASSUME NEW q \in Reqs, Refresh!Receive(q) PROVE Goal
  <2>1. pres[q] = file /\ file' \in {file, tid} /\ tid' = tid /\ file <= file'
    BY <1>0, <1>2 DEF Refresh!Receive, RequestKnows, Refresh!ClientWithinOne
  <2> QED BY <1>0, <1>2, <2>1 DEF Refresh!Receive, RequestKnows, Refresh!ClientWithinOne
<1>3. ASSUME NEW q \in Reqs, Refresh!GiveUp(q) PROVE Goal
  BY <1>0, <1>3 DEF Refresh!GiveUp, RequestKnows, Refresh!ClientWithinOne
<1>4. ASSUME NEW q \in Reqs, Refresh!Verify(q) PROVE Goal
  BY <1>0, <1>4 DEF Refresh!Verify, RequestKnows, Refresh!ClientWithinOne
<1>5. ASSUME NEW q \in Reqs, Refresh!Rotate(q) PROVE Goal
  <2>1. CASE alive /\ tid = snap[q]
    <3>1. snap[q] = pres[q] /\ file = tid /\ tid' = tid + 1
      BY <1>0, <1>5, <2>1 DEF Refresh!Rotate, RequestKnows, Refresh!ClientWithinOne
    <3> QED BY <1>0, <1>5, <2>1, <3>1 DEF Refresh!Rotate, RequestKnows, Refresh!ClientWithinOne
  <2>2. CASE ~(alive /\ tid = snap[q])
    BY <1>0, <1>5, <2>2 DEF Refresh!Rotate, RequestKnows, Refresh!ClientWithinOne
  <2> QED BY <2>1, <2>2
<1>6. ASSUME NEW q \in Reqs, Refresh!WithinGrace(q) PROVE Goal
  BY <1>0, <1>6 DEF Refresh!WithinGrace, RequestKnows, Refresh!ClientWithinOne
<1>7. ASSUME NEW q \in Reqs, Refresh!Revoke(q) PROVE Goal
  BY <1>0, <1>7 DEF Refresh!Revoke, RequestKnows, Refresh!ClientWithinOne
<1>8. ASSUME NEW q \in Reqs, Refresh!Active(q) \/ Refresh!NotActive(q) PROVE Goal
  <2>1. CASE Refresh!Active(q)
    BY <1>0, <2>1 DEF Refresh!Active, RequestKnows, Refresh!ClientWithinOne
  <2>2. CASE Refresh!NotActive(q)
    BY <1>0, <2>2 DEF Refresh!NotActive, RequestKnows, Refresh!ClientWithinOne
  <2> QED BY <1>8, <2>1, <2>2
<1>9. ASSUME NEW q \in Reqs, Refresh!Unavailable(q) PROVE Goal
  BY <1>0, <1>9 DEF Refresh!Unavailable, Refresh!AtServer, Refresh!Done, RequestKnows,
                    Refresh!ClientWithinOne
<1>10. ASSUME NEW t \in Refresh!Tids, Refresh!GraceEnds(t) PROVE Goal
  BY <1>0, <1>10 DEF Refresh!GraceEnds, RequestKnows, Refresh!ClientWithinOne
<1>11. ASSUME Refresh!NeedsRefresh \/ Refresh!SessionEnds PROVE Goal
  BY Zenon, <1>0, <1>11 DEF Refresh!NeedsRefresh, Refresh!SessionEnds, RequestKnows,
                     Refresh!ClientWithinOne
<1>12. ASSUME UNCHANGED Refresh!vars PROVE Goal
  BY <1>0, <1>12 DEF Refresh!vars, RequestKnows, Refresh!ClientWithinOne
<1> HIDE DEF Goal
<1>13. Goal
  BY Zenon, <1>1, <1>2, <1>3, <1>4, <1>5, <1>6, <1>7, <1>8, <1>9, <1>10, <1>11, <1>12
     DEF Refresh!Next
<1> QED BY Zenon, <1>13 DEF Goal

\* For any number of requests and rotations, however answers are lost, requests
\* overlap at the server and the store fails: the token in the credentials file is
\* the current one or the one before it, which refreshWithinGrace forgives.
THEOREM FileWithinOne == Refresh!Spec => []Refresh!ClientWithinOne
<1>1. Refresh!Init => RefreshInv
  BY DEF Refresh!Init, RefreshInv, RefreshTypes, Refresh!Stages, RequestKnows,
         Refresh!ClientWithinOne
<1>2. RefreshInv /\ [Refresh!Next]_Refresh!vars => RefreshInv'
  BY Zenon, RefreshTypesStep, RequestKnowsStep DEF RefreshInv
<1>3. RefreshInv => Refresh!ClientWithinOne BY DEF RefreshInv
<1> QED BY <1>1, <1>2, <1>3, PTL DEF Refresh!Spec

\* No step of any request brings a revoked session back: RotateTokenSession
\* changes only the session that is in the store.
THEOREM RevokedForGood == Refresh!Spec => [][Refresh!StaysRevoked]_Refresh!vars
<1>1. [Refresh!Next]_Refresh!vars => [Refresh!StaysRevoked]_Refresh!vars
  <2> SUFFICES ASSUME Refresh!Next, ~alive PROVE ~alive'
    BY DEF Refresh!StaysRevoked
  <2> QED
    BY Zenon DEF Refresh!Next, Refresh!Send, Refresh!Receive, Refresh!GiveUp, Refresh!Verify,
      Refresh!Rotate, Refresh!WithinGrace, Refresh!Revoke, Refresh!Active, Refresh!NotActive,
      Refresh!Unavailable, Refresh!GraceEnds, Refresh!NeedsRefresh, Refresh!SessionEnds,
      Refresh!sessVars
<1> QED BY <1>1, PTL DEF Refresh!Spec

-----------------------------------------------------------------------------
(* Service accounts and their tokens.                                      *)

CONSTANTS MaxOps, Accounts, Assertions, Kids, Auds, MaxSecret, MaxSess, KeysTTL,
  UnknownKidBackoff, ClockSkew, MaxLifetime, AccessTokenTTL

VARIABLES sa, trust, sess, once, cache, key, left, mreq, now, mops, tokens, made, ended, used

Machine == INSTANCE MachineTokens WITH req <- mreq, ops <- mops, issued <- tokens

MachineStages == {"idle", "issue", "keys", "fetch", "match", "claim", "write", "revoke", "account",
                  "served"}
MachineOps == {"none", "grant", "assert", "keep", "disable", "enable", "rotate", "delete", "trust",
               "use"}
AccountRow == [secret : Nat, disabled : BOOLEAN]
Owner == Accounts \cup {"none"}
Identities == [Accounts -> Auds \cup {"none"}]
MachineRequest == [pc : MachineStages, op : MachineOps, acct : Owner, row : AccountRow,
                   trusted : Identities, claims : Assertions, sid : Nat, old : SUBSET Nat]
KeyCache == [keys : SUBSET Kids, fetched : Nat, asked : Nat]
Ids == {x.jti : x \in Assertions}

\* The issuer counts its keys from one, signs with one of them, and gives every
\* assertion an id of its own.
MachineConstants ==
  /\ Kids \subseteq Nat /\ 1 \in Kids /\ Assertions # {}
  /\ KeysTTL \in Nat /\ ClockSkew \in Nat /\ AccessTokenTTL \in Nat
  /\ \A x \in Assertions : x.kid \in Kids /\ x.exp \in Nat
  /\ \A x, y \in Assertions : x.jti = y.jti => x = y

RowTypes == sa \in [Accounts -> AccountRow] /\ trust \in Identities /\ made \in Nat

\* Sessions are numbered in the order of their making, and none is left that has ended.
SessionsSound ==
  /\ tokens \in Nat /\ ended \subseteq 1 .. tokens
  /\ \A s \in sess : s.id \in 1 .. tokens /\ s.acct \in Owner /\ s.id \notin ended
  /\ \A s, t \in sess : s.id = t.id => s = t

\* A cached key is the one of the issuer, or was taken back after the cache was filled.
KeysSound ==
  /\ now \in Nat /\ key \in Kids /\ left \in [Kids -> Nat] /\ cache \in KeyCache
  /\ cache.fetched <= now
  /\ \A k \in cache.keys : k = key \/ (k < key /\ left[k] >= cache.fetched)

\* The claim of an assertion that has made a token outlasts the assertion.
ClaimsSound ==
  /\ once \in [Ids -> Nat] /\ used \in [Ids -> Nat]
  /\ \A x \in Assertions : used[x.jti] = 0 \/ (used[x.jti] = 1 /\ once[x.jti] >= x.exp + ClockSkew)

KeySeen(k, t) == k = key \/ (k < key /\ left[k] + KeysTTL >= t)

\* A request that revokes knows sessions of its own account only; one that is served has
\* shown a session that had not ended; one that was verified met a key in time.
MachineSound(r) ==
  /\ r.pc = "revoke" => /\ r.old \subseteq 1 .. tokens
                        /\ \A s \in sess : s.id \in r.old => s.acct = r.acct
  /\ r.pc \in {"account", "served"} => r.sid \notin r.old
  /\ r.pc \in {"fetch", "match"} => r.sid <= now
  /\ r.pc = "match" => KeySeen(r.claims.kid, r.sid)

MachinesInv ==
  /\ RowTypes /\ SessionsSound /\ KeysSound /\ ClaimsSound
  /\ mreq \in [Reqs -> MachineRequest] /\ \A q \in Reqs : MachineSound(mreq[q])

\* What a step of one request does to what the others rely on.
MachinesAdvance ==
  /\ tokens <= tokens' /\ now <= now'
  /\ \A s \in sess' : s \in sess \/ s.id > tokens
  /\ \A k \in Kids, t \in Nat : t <= now /\ KeySeen(k, t) => KeySeen(k, t)'

\* What holds of a request goes on to hold while others act.
LEMMA MachineStaysSound ==
  ASSUME MachineConstants, SessionsSound, SessionsSound', KeysSound, KeysSound', MachinesAdvance,
         NEW r \in MachineRequest, MachineSound(r)
  PROVE  MachineSound(r)'
<1>0. /\ tokens \in Nat /\ tokens' \in Nat /\ tokens <= tokens' /\ now \in Nat /\ now' \in Nat
      /\ now <= now' /\ r.claims.kid \in Kids /\ r.sid \in Nat
  BY DEF MachineConstants, SessionsSound, KeysSound, MachinesAdvance, MachineRequest
<1>1. ASSUME r.pc = "revoke"
      PROVE  r.old \subseteq 1 .. tokens' /\ \A s \in sess' : s.id \in r.old => s.acct = r.acct
  <2>1. r.old \subseteq 1 .. tokens /\ \A s \in sess : s.id \in r.old => s.acct = r.acct
    BY Zenon, <1>1 DEF MachineSound
  <2>2. \A s \in sess' : s \in sess \/ s.id > tokens BY Zenon DEF MachinesAdvance
  <2> QED BY <1>0, <2>1, <2>2 DEF SessionsSound
<1>2. r.pc = "match" => KeySeen(r.claims.kid, r.sid)'
  BY Zenon, <1>0 DEF MachineSound, MachinesAdvance
<1>3. r.pc \in {"fetch", "match"} => r.sid <= now' BY <1>0 DEF MachineSound
<1> QED BY Zenon, <1>1, <1>2, <1>3 DEF MachineSound

\* A request takes a step.
LEMMA MachineMoves ==
  ASSUME MachineConstants, MachinesInv, NEW q \in Reqs, NEW r \in MachineRequest, Machine!Go(q, r),
         RowTypes', SessionsSound', KeysSound', ClaimsSound', MachinesAdvance, MachineSound(r)'
  PROVE  MachinesInv'
<1>1. mreq' = [mreq EXCEPT ![q] = r] BY DEF Machine!Go
<1>2. mreq'[q] = r /\ mreq' \in [Reqs -> MachineRequest] /\ \A p \in Reqs \ {q} : mreq'[p] = mreq[p]
  BY Zenon, <1>1 DEF MachinesInv
<1>3. ASSUME NEW p \in Reqs, p # q PROVE MachineSound(mreq[p])'
  <2>1. PICK c \in MachineRequest : c = mreq[p] BY Zenon DEF MachinesInv
  <2>2. MachineSound(c) BY Zenon, <2>1 DEF MachinesInv
  <2>3. MachineSound(c)' BY Zenon, <2>2, MachineStaysSound DEF MachinesInv
  <2>4. mreq'[p] = c BY Zenon, <1>2, <1>3, <2>1
  <2> QED BY Zenon, <2>3, <2>4 DEF MachineSound
<1>4. MachineSound(mreq[q])' BY Zenon, <1>2 DEF MachineSound
<1> QED BY Zenon, <1>2, <1>3, <1>4 DEF MachinesInv

\* A step that leaves sessions, claims, keys and the clock alone.
LEMMA QuietMachines ==
  ASSUME MachineConstants, MachinesInv, NEW q \in Reqs, NEW r \in MachineRequest, Machine!Go(q, r),
         RowTypes', UNCHANGED <<sess, tokens, ended, now, key, left, cache, once, used>>,
         MachineSound(r)
  PROVE  MachinesInv'
<1>1. SessionsSound' BY Zenon DEF MachinesInv, SessionsSound
<1>2. KeysSound' BY Zenon DEF MachinesInv, KeysSound
<1>3. ClaimsSound' BY Zenon DEF MachinesInv, ClaimsSound
<1>4. tokens <= tokens' /\ now <= now' BY DEF MachinesInv, SessionsSound, KeysSound
<1>5. MachinesAdvance BY Zenon, <1>4 DEF MachinesAdvance, KeySeen
<1>6. MachineSound(r)' BY Zenon DEF MachineSound, KeySeen
<1> QED BY Zenon, <1>1, <1>2, <1>3, <1>5, <1>6, MachineMoves

\* Where a request has nothing to do with ended sessions or with keys.
Unbound(r) == r.pc \notin {"revoke", "account", "served", "fetch", "match"}

\* Nothing is asked of such a request.
LEMMA UnboundSound == ASSUME NEW r, Unbound(r) PROVE MachineSound(r)
BY DEF Unbound, MachineSound

\* A request is about to start or has ended.
LEMMA MachineIdle ==
  MachineConstants => Machine!Idle \in MachineRequest /\ Unbound(Machine!Idle)
<1> SUFFICES ASSUME MachineConstants PROVE Machine!Idle \in MachineRequest /\ Unbound(Machine!Idle)
  OBVIOUS
<1>1. Machine!NoClaims \in Assertions BY Zenon DEF MachineConstants, Machine!NoClaims
<1>2. [a \in Accounts |-> "none"] \in Identities BY Zenon DEF Identities
<1>3. [secret |-> 0, disabled |-> FALSE] \in AccountRow BY DEF AccountRow
<1>4. Machine!Idle = [pc |-> "idle", op |-> "none", acct |-> "none",
        row |-> [secret |-> 0, disabled |-> FALSE], trusted |-> [a \in Accounts |-> "none"],
        claims |-> Machine!NoClaims, sid |-> 0, old |-> {}]
  BY Zenon DEF Machine!Idle, Machine!None
<1>5. "idle" \in MachineStages /\ "none" \in MachineOps /\ "none" \in Owner /\ 0 \in Nat
      /\ {} \in SUBSET Nat
  BY DEF MachineStages, MachineOps, Owner
<1>6. Machine!Idle.pc = "idle" BY Zenon, <1>4
<1>7. Machine!Idle \in MachineRequest BY Zenon, <1>1, <1>2, <1>3, <1>4, <1>5 DEF MachineRequest
<1> QED BY <1>6, <1>7 DEF Unbound

\* A request begins or ends, and nothing is stored.
LEMMA MachineBegins ==
  ASSUME MachineConstants, MachinesInv, NEW q \in Reqs, NEW r \in MachineRequest, Machine!Go(q, r),
         Unbound(r), UNCHANGED <<sa, trust, made, sess, tokens, ended, now, key, left, cache, once, used>>
  PROVE  MachinesInv'
<1>1. RowTypes' BY Zenon DEF MachinesInv, RowTypes
<1>2. MachineSound(r) BY Zenon, UnboundSound
<1> QED BY Zenon, <1>1, <1>2, QuietMachines

\* The grants, up to the keys of the issuer.
LEMMA GrantsInv ==
  ASSUME MachineConstants, MachinesInv, NEW q \in Reqs,
         Machine!ClientCredentialsGrant(q) \/ Machine!WorkloadAssertionGrant(q) \/ Machine!Fail(q)
  PROVE  MachinesInv'
<1>1. CASE Machine!ClientCredentialsGrant(q)
  <2>1. PICK a \in Accounts :
          Machine!Begin(q, [Machine!Idle EXCEPT !.pc = "issue", !.op = "grant", !.acct = a])
    BY Zenon, <1>1 DEF Machine!ClientCredentialsGrant
  <2>2. UNCHANGED <<sa, trust, made, sess, tokens, ended, now, key, left, cache, once, used>>
    BY Zenon, <1>1 DEF Machine!ClientCredentialsGrant, Machine!Rows, Machine!Clock, Machine!Issuer,
                       Machine!Tokens
  <2> DEFINE n == [Machine!Idle EXCEPT !.pc = "issue", !.op = "grant", !.acct = a]
  <2>3. "issue" \in MachineStages /\ "grant" \in MachineOps /\ a \in Owner
    BY DEF MachineStages, MachineOps, Owner
  <2>4. n \in MachineRequest BY Zenon, <2>3, MachineIdle DEF MachineRequest
  <2>5. Unbound(n)
    <3>1. n.pc = "issue" BY Zenon, MachineIdle DEF MachineRequest
    <3> QED BY <3>1 DEF Unbound
  <2>6. Machine!Go(q, n) BY Zenon, <2>1 DEF Machine!Begin
  <2> HIDE DEF n
  <2> QED BY Zenon, <2>2, <2>4, <2>5, <2>6, MachineBegins
<1>2. CASE Machine!WorkloadAssertionGrant(q)
  <2>1. PICK x \in Assertions, a \in Accounts \cup {"none"} :
          Machine!Begin(q, [Machine!Idle EXCEPT !.pc = "keys", !.op = "assert", !.acct = a,
                                                !.claims = x, !.trusted = trust])
    BY Zenon, <1>2 DEF Machine!WorkloadAssertionGrant, Machine!None
  <2>2. UNCHANGED <<sa, trust, made, sess, tokens, ended, now, key, left, cache, once, used>>
    BY Zenon, <1>2 DEF Machine!WorkloadAssertionGrant, Machine!Rows, Machine!Clock, Machine!Issuer,
                       Machine!Tokens
  <2>3. PICK held \in Identities : held = trust BY Zenon DEF MachinesInv, RowTypes
  <2> DEFINE n == [Machine!Idle EXCEPT !.pc = "keys", !.op = "assert", !.acct = a,
                                       !.claims = x, !.trusted = held]
  <2>4. "keys" \in MachineStages /\ "assert" \in MachineOps /\ a \in Owner
    BY DEF MachineStages, MachineOps, Owner
  <2>5. n \in MachineRequest BY Zenon, <2>4, MachineIdle DEF MachineRequest
  <2>6. Unbound(n)
    <3>1. n.pc = "keys" BY Zenon, MachineIdle DEF MachineRequest
    <3> QED BY <3>1 DEF Unbound
  <2>7. Machine!Go(q, n) BY Zenon, <2>1, <2>3 DEF Machine!Begin
  <2> HIDE DEF n
  <2> QED BY Zenon, <2>2, <2>5, <2>6, <2>7, MachineBegins
<1>3. CASE Machine!Fail(q)
  <2>1. UNCHANGED <<sa, trust, made, sess, tokens, ended, now, key, left, cache, once, used>>
    BY Zenon, <1>3 DEF Machine!Fail, Machine!Rows, Machine!Clock, Machine!Issuer, Machine!Tokens
  <2>2. Machine!Go(q, Machine!Idle) BY Zenon, <1>3 DEF Machine!Fail, Machine!Done
  <2> QED BY Zenon, <2>1, <2>2, MachineIdle, MachineBegins
<1> QED BY Zenon, <1>1, <1>2, <1>3

\* A verified assertion was signed with a key of which KeySeen holds.
LEMMA VerifiedInv ==
  ASSUME MachineConstants, MachinesInv, NEW q \in Reqs, NEW known \in SUBSET Kids,
         Machine!Verified(q, known),
         \A k \in known : KeySeen(k, now),
         UNCHANGED <<sa, trust, made, sess, tokens, ended, now, key, left, once, used>>, KeysSound'
  PROVE  MachinesInv'
<1>0. now \in Nat /\ mreq[q] \in MachineRequest BY Zenon DEF MachinesInv, KeysSound
<1>1. PICK r \in MachineRequest : r = mreq[q] BY Zenon, <1>0
<1>2. PICK t \in Nat : t = now BY Zenon, <1>0
<1>3. ASSUME NEW n \in MachineRequest, Machine!Go(q, n), MachineSound(n) PROVE MachinesInv'
  <2>1. RowTypes' BY Zenon DEF MachinesInv, RowTypes
  <2>2. SessionsSound' BY Zenon DEF MachinesInv, SessionsSound
  <2>3. ClaimsSound' BY Zenon DEF MachinesInv, ClaimsSound
  <2>4. tokens <= tokens' /\ now <= now' BY DEF MachinesInv, SessionsSound, KeysSound
  <2>5. MachinesAdvance BY Zenon, <2>4 DEF MachinesAdvance, KeySeen
  <2>6. MachineSound(n)' BY Zenon, <1>3 DEF MachineSound, KeySeen
  <2> QED BY Zenon, <1>3, <2>1, <2>2, <2>3, <2>5, <2>6, MachineMoves
<1>4. CASE Machine!Done(q)
  BY Zenon, <1>3, <1>4, MachineIdle, UnboundSound DEF Machine!Done
<1>5. ASSUME Machine!SelectKeys(known, r.claims.kid) # {},
             Machine!Go(q, [r EXCEPT !.pc = "match", !.sid = t])
      PROVE  MachinesInv'
  <2> DEFINE n == [r EXCEPT !.pc = "match", !.sid = t]
  <2>1. "match" \in MachineStages BY DEF MachineStages
  <2>2. n \in MachineRequest /\ n.pc = "match" /\ n.sid = t /\ n.claims = r.claims
    BY Zenon, <2>1 DEF MachineRequest
  <2>3. r.claims.kid \in known BY <1>5 DEF Machine!SelectKeys
  <2> HIDE DEF n
  <2>4. KeySeen(n.claims.kid, n.sid) BY Zenon, <1>2, <2>2, <2>3
  <2>5. n.sid <= now BY <1>0, <1>2, <2>2
  <2>6. MachineSound(n) BY <2>2, <2>4, <2>5 DEF MachineSound
  <2>7. Machine!Go(q, n) BY Zenon, <1>5 DEF n
  <2> QED BY Zenon, <1>3, <2>2, <2>6, <2>7
<1> QED BY Zenon, <1>1, <1>2, <1>4, <1>5 DEF Machine!Verified

\* keysFor and its fetch: what is in the cache was the issuer's when it was asked for.
LEMMA KeysForInv ==
  ASSUME MachineConstants, MachinesInv, NEW q \in Reqs, Machine!KeysFor(q) \/ Machine!FetchKeys(q)
  PROVE  MachinesInv'
<1>0. /\ now \in Nat /\ key \in Kids /\ key \in Nat /\ left \in [Kids -> Nat] /\ cache \in KeyCache
      /\ cache.fetched <= now /\ mreq[q] \in MachineRequest /\ MachineSound(mreq[q])
  BY DEF MachineConstants, MachinesInv, KeysSound
<1>1. PICK r \in MachineRequest : r = mreq[q] BY Zenon, <1>0
<1>2. PICK t \in Nat : t = now BY Zenon, <1>0
<1>3. UNCHANGED <<sa, trust, made, sess, tokens, ended, now, key, left, once, used>>
  BY Zenon DEF Machine!KeysFor, Machine!FetchKeys, Machine!Rows, Machine!Clock, Machine!Tokens
<1>4. ASSUME ~Machine!Stale, Machine!Verified(q, cache.keys), UNCHANGED cache PROVE MachinesInv'
  <2>1. PICK known \in SUBSET Kids : known = cache.keys BY Zenon, <1>0 DEF KeyCache
  <2>2. now - cache.fetched <= KeysTTL /\ cache.fetched \in Nat
    BY <1>0, <1>4 DEF Machine!Stale, KeyCache, MachineConstants
  <2>3. ASSUME NEW k \in known PROVE KeySeen(k, now)
    <3>1. k = key \/ (k < key /\ left[k] >= cache.fetched) BY Zenon, <2>1, <2>3 DEF MachinesInv, KeysSound
    <3>2. k \in Kids /\ left[k] \in Nat BY <1>0, <2>3
    <3>3. left[k] >= cache.fetched => left[k] + KeysTTL >= now
      BY <1>0, <2>2, <3>2 DEF MachineConstants
    <3> QED BY Zenon, <3>1, <3>3 DEF KeySeen
  <2>4. KeysSound' BY Zenon, <1>3, <1>4 DEF MachinesInv, KeysSound
  <2> QED BY Zenon, <1>3, <1>4, <2>1, <2>3, <2>4, VerifiedInv
<1>5. ASSUME Machine!Done(q), UNCHANGED cache PROVE MachinesInv'
  BY Zenon, <1>3, <1>5, MachineIdle, MachineBegins DEF Machine!Done
<1>6. ASSUME Machine!Go(q, [r EXCEPT !.pc = "fetch", !.sid = t]),
             cache' = [cache EXCEPT !.asked = now + 1]
      PROVE  MachinesInv'
  <2> DEFINE n == [r EXCEPT !.pc = "fetch", !.sid = t]
  <2>1. "fetch" \in MachineStages BY DEF MachineStages
  <2>2. n \in MachineRequest /\ n.pc = "fetch" /\ n.sid = t BY Zenon, <2>1 DEF MachineRequest
  <2>3. Machine!Go(q, n) BY Zenon, <1>6
  <2> HIDE DEF n
  <2>4. MachineSound(n)' BY <1>0, <1>2, <1>3, <2>2 DEF MachineSound
  <2>5. now + 1 \in Nat BY <1>0
  <2>6. cache' \in KeyCache /\ cache'.keys = cache.keys /\ cache'.fetched = cache.fetched
    BY Zenon, <1>0, <1>6, <2>5 DEF KeyCache
  <2>7. KeysSound' BY Zenon, <1>3, <2>6 DEF MachinesInv, KeysSound
  <2>8. RowTypes' BY Zenon, <1>3 DEF MachinesInv, RowTypes
  <2>9. SessionsSound' BY Zenon, <1>3 DEF MachinesInv, SessionsSound
  <2>10. ClaimsSound' BY Zenon, <1>3 DEF MachinesInv, ClaimsSound
  <2>11. tokens <= tokens' /\ now <= now' BY <1>3 DEF MachinesInv, SessionsSound, KeysSound
  <2>12. MachinesAdvance BY Zenon, <1>3, <2>11 DEF MachinesAdvance, KeySeen
  <2> QED BY Zenon, <2>2, <2>3, <2>4, <2>7, <2>8, <2>9, <2>10, <2>12, MachineMoves
<1>7. CASE Machine!KeysFor(q)
  BY Zenon, <1>1, <1>2, <1>4, <1>5, <1>6, <1>7 DEF Machine!KeysFor
<1>8. CASE Machine!FetchKeys(q)
  <2>1. cache' = [cache EXCEPT !.keys = {key}, !.fetched = r.sid] /\ Machine!Verified(q, {key})
    BY Zenon, <1>1, <1>8 DEF Machine!FetchKeys
  <2>2. r.sid <= now /\ r.sid \in Nat
    BY <1>0, <1>1, <1>8 DEF Machine!FetchKeys, MachineSound, MachineRequest
  <2>3. {key} \in SUBSET Kids BY <1>0
  <2>4. cache' \in KeyCache /\ cache'.keys = {key} /\ cache'.fetched = r.sid
    BY Zenon, <1>0, <2>1, <2>2, <2>3 DEF KeyCache
  <2>5. KeysSound' BY Zenon, <1>0, <1>3, <2>2, <2>4 DEF KeysSound
  <2>6. PICK known \in SUBSET Kids : known = {key} BY Zenon, <2>3
  <2>7. \A k \in known : KeySeen(k, now) BY Zenon, <2>6 DEF KeySeen
  <2>8. Machine!Verified(q, known) BY Zenon, <2>1, <2>6
  <2> QED BY Zenon, <1>3, <2>5, <2>7, <2>8, VerifiedInv
<1> QED BY Zenon, <1>7, <1>8

\* Nothing has no members to count.
LEMMA EmptyCount == Machine!Cardinality({}) = 0
<1> DEFINE Counts(f) ==
             f = [T \in SUBSET {} |-> IF T = {} THEN 0 ELSE 1 + f[T \ {CHOOSE x : x \in T}]]
           CS == CHOOSE f : Counts(f)
<1>1. Counts([T \in SUBSET {} |-> 0]) OBVIOUS
<1>2. Counts(CS) BY Zenon, <1>1
<1>3. CS[{}] = 0 BY <1>2
<1> QED BY Zenon, <1>3 DEF Machine!Cardinality

\* The one account that trusts an assertion, if there is one.
LEMMA MatchInv ==
  ASSUME MachineConstants, MachinesInv, NEW q \in Reqs, Machine!MatchWorkloadServiceAccount(q)
  PROVE  MachinesInv'
<1>0. UNCHANGED <<sa, trust, made, sess, tokens, ended, now, key, left, cache, once, used>>
  BY Zenon DEF Machine!MatchWorkloadServiceAccount, Machine!Rows, Machine!Clock, Machine!Issuer,
               Machine!Tokens
<1>1. CASE Machine!Done(q) BY Zenon, <1>0, <1>1, MachineIdle, MachineBegins DEF Machine!Done
<1>2. ASSUME Machine!Cardinality(Machine!Matches(q)) = 1,
             Machine!Go(q, [mreq[q] EXCEPT !.pc = "claim",
                                           !.acct = CHOOSE a \in Machine!Matches(q) : TRUE])
      PROVE  MachinesInv'
  <2>1. PICK a \in Accounts : a = CHOOSE b \in Machine!Matches(q) : TRUE
    <3>1. Machine!Matches(q) # {} BY <1>2, EmptyCount
    <3>2. Machine!Matches(q) \subseteq Accounts BY DEF Machine!Matches
    <3> QED BY Zenon, <3>1, <3>2
  <2>2. PICK r \in MachineRequest : r = mreq[q] BY Zenon DEF MachinesInv
  <2> DEFINE n == [r EXCEPT !.pc = "claim", !.acct = a]
  <2>3. "claim" \in MachineStages /\ a \in Owner BY DEF MachineStages, Owner
  <2>4. n \in MachineRequest /\ n.pc = "claim" BY Zenon, <2>3 DEF MachineRequest
  <2>5. Machine!Go(q, n) BY Zenon, <1>2, <2>1, <2>2
  <2> HIDE DEF n
  <2>6. Unbound(n) BY <2>4 DEF Unbound
  <2> QED BY Zenon, <1>0, <2>4, <2>5, <2>6, MachineBegins
<1> QED BY Zenon, <1>1, <1>2 DEF Machine!MatchWorkloadServiceAccount

\* claimAssertionOnce: an assertion that could still be sent finds its claim.
LEMMA ClaimInv ==
  ASSUME MachineConstants, MachinesInv, NEW q \in Reqs, Machine!ClaimAssertionOnce(q)
  PROVE  MachinesInv'
<1>0. UNCHANGED <<sa, trust, made, sess, tokens, ended, now, key, left, cache>>
  BY Zenon DEF Machine!ClaimAssertionOnce, Machine!Rows, Machine!Clock, Machine!Tokens
<1>1. CASE Machine!Done(q) /\ UNCHANGED <<once, used>>
  BY Zenon, <1>0, <1>1, MachineIdle, MachineBegins DEF Machine!Done
<1>2. PICK r \in MachineRequest : r = mreq[q] BY Zenon DEF MachinesInv
<1>3. PICK c \in Assertions : c = r.claims BY Zenon DEF MachineRequest
<1>4. ASSUME now >= once[c.jti], once' = [once EXCEPT ![c.jti] = c.exp + ClockSkew],
             used' = IF now < c.exp + ClockSkew THEN [used EXCEPT ![c.jti] = @ + 1] ELSE used,
             Machine!Go(q, [Machine!Idle EXCEPT !.pc = "issue", !.op = "assert", !.acct = r.acct])
      PROVE  MachinesInv'
  <2> DEFINE n == [Machine!Idle EXCEPT !.pc = "issue", !.op = "assert", !.acct = r.acct]
  <2>1. "issue" \in MachineStages /\ "assert" \in MachineOps /\ r.acct \in Owner
    BY DEF MachineStages, MachineOps, MachineRequest
  <2>2. n \in MachineRequest /\ n.pc = "issue" BY Zenon, <2>1, MachineIdle DEF MachineRequest
  <2>3. Machine!Go(q, n) BY Zenon, <1>4
  <2> HIDE DEF n
  <2>4. Unbound(n)' BY <2>2 DEF Unbound
  <2>5. MachineSound(n)' BY Zenon, <2>4 DEF Unbound, MachineSound
  <2>6. /\ once \in [Ids -> Nat] /\ used \in [Ids -> Nat] /\ c.jti \in Ids /\ c.exp + ClockSkew \in Nat
        /\ now \in Nat
    BY DEF MachineConstants, MachinesInv, ClaimsSound, KeysSound, Ids
  <2>7. once' \in [Ids -> Nat] /\ once'[c.jti] = c.exp + ClockSkew
        /\ \A j \in Ids \ {c.jti} : once'[j] = once[j]
    BY Zenon, <1>4, <2>6
  <2>8. used[c.jti] = 0 \/ (used[c.jti] = 1 /\ once[c.jti] >= c.exp + ClockSkew)
    BY Zenon DEF MachinesInv, ClaimsSound
  <2>9. used' \in [Ids -> Nat] /\ used'[c.jti] \in {0, 1} /\ \A j \in Ids \ {c.jti} : used'[j] = used[j]
    <3>1. CASE now < c.exp + ClockSkew
      <4>1. used[c.jti] = 0 BY <1>4, <2>6, <2>8, <3>1
      <4>2. used' = [used EXCEPT ![c.jti] = used[c.jti] + 1] BY Zenon, <1>4, <3>1
      <4> QED BY <2>6, <4>1, <4>2
    <3>2. CASE ~(now < c.exp + ClockSkew)
      <4>1. used' = used BY Zenon, <1>4, <3>2
      <4> QED BY <2>6, <2>8, <4>1
    <3> QED BY Zenon, <3>1, <3>2
  <2>10. ASSUME NEW x \in Assertions
         PROVE  used'[x.jti] = 0 \/ (used'[x.jti] = 1 /\ once'[x.jti] >= x.exp + ClockSkew)
    <3>1. CASE x.jti = c.jti
      <4>1. x = c BY Zenon, <3>1 DEF MachineConstants
      <4> QED BY <2>6, <2>7, <2>9, <4>1
    <3>2. CASE x.jti # c.jti
      <4>1. x.jti \in Ids \ {c.jti} BY <3>2 DEF Ids
      <4> QED BY Zenon, <2>7, <2>9, <4>1 DEF MachinesInv, ClaimsSound
    <3> QED BY Zenon, <3>1, <3>2
  <2>11. ClaimsSound' BY Zenon, <2>7, <2>9, <2>10 DEF ClaimsSound
  <2>12. RowTypes' BY Zenon, <1>0 DEF MachinesInv, RowTypes
  <2>13. SessionsSound' BY Zenon, <1>0 DEF MachinesInv, SessionsSound
  <2>14. KeysSound' BY Zenon, <1>0 DEF MachinesInv, KeysSound
  <2>15. tokens <= tokens' /\ now <= now' BY <1>0 DEF MachinesInv, SessionsSound, KeysSound
  <2>16. MachinesAdvance BY Zenon, <1>0, <2>15 DEF MachinesAdvance, KeySeen
  <2> QED BY Zenon, <2>2, <2>3, <2>5, <2>11, <2>12, <2>13, <2>14, <2>16, MachineMoves
<1> QED BY Zenon, <1>1, <1>2, <1>3, <1>4
    DEF Machine!ClaimAssertionOnce, Machine!Fresh, Machine!ClaimOnce, Machine!ClaimEnd, Machine!Ends

\* A new session has an id of its own.
LEMMA IssueInv ==
  ASSUME MachineConstants, MachinesInv, NEW q \in Reqs, Machine!IssueServiceAccountToken(q)
  PROVE  MachinesInv'
<1>0. UNCHANGED <<sa, trust, made, ended, now, key, left, cache, once, used>>
  BY Zenon DEF Machine!IssueServiceAccountToken, Machine!Rows, Machine!Clock, Machine!Issuer
<1>1. PICK r \in MachineRequest : r = mreq[q] BY Zenon DEF MachinesInv
<1>2. r.acct \in Owner BY Zenon DEF MachineRequest
<1>3. /\ tokens' = tokens + 1 /\ Machine!Go(q, Machine!Idle)
      /\ sess' = sess \cup {[id |-> tokens + 1, acct |-> r.acct, exp |-> now + AccessTokenTTL]}
  BY Zenon, <1>1 DEF Machine!IssueServiceAccountToken, Machine!Issue, Machine!PutTokenSession, Machine!Done
<1> DEFINE new == [id |-> tokens + 1, acct |-> r.acct, exp |-> now + AccessTokenTTL]
<1>a. new.id = tokens + 1 /\ new.acct = r.acct OBVIOUS
<1>b. sess' = sess \cup {new} BY Zenon, <1>3
<1> HIDE DEF new
<1>4. PICK u : u = new /\ u.id = tokens + 1 /\ u.acct = r.acct BY Zenon, <1>a
<1>5. /\ tokens \in Nat /\ ended \subseteq 1 .. tokens
      /\ \A s \in sess : s.id \in 1 .. tokens /\ s.acct \in Owner /\ s.id \notin ended
      /\ \A s, t \in sess : s.id = t.id => s = t
  BY Zenon DEF MachinesInv, SessionsSound
<1>6. sess' = sess \cup {u} BY Zenon, <1>b, <1>4
<1>7. SessionsSound'
  <2>1. tokens' \in Nat /\ ended' \subseteq 1 .. tokens' BY <1>0, <1>3, <1>5
  <2>2. ASSUME NEW s \in sess' PROVE s.id \in 1 .. tokens' /\ s.acct \in Owner /\ s.id \notin ended'
    BY <1>0, <1>2, <1>3, <1>4, <1>5, <1>6
  <2>3. ASSUME NEW s \in sess', NEW t \in sess', s.id = t.id PROVE s = t
    BY <1>4, <1>5, <1>6, <2>3
  <2> QED BY Zenon, <2>1, <2>2, <2>3 DEF SessionsSound
<1>8. tokens <= tokens' /\ now <= now' /\ \A s \in sess' : s \in sess \/ s.id > tokens
  BY <1>0, <1>3, <1>4, <1>5, <1>6 DEF MachinesInv, KeysSound
<1>9. MachinesAdvance BY Zenon, <1>0, <1>8 DEF MachinesAdvance, KeySeen
<1>10. RowTypes' BY Zenon, <1>0 DEF MachinesInv, RowTypes
<1>11. ClaimsSound' BY Zenon, <1>0 DEF MachinesInv, ClaimsSound
<1>12. KeysSound' BY Zenon, <1>0 DEF MachinesInv, KeysSound
<1>13. MachineSound(Machine!Idle)' BY Zenon, MachineIdle DEF Unbound, MachineSound
<1> QED BY Zenon, <1>3, <1>7, <1>9, <1>10, <1>11, <1>12, <1>13, MachineIdle, MachineMoves

\* A change of an account begins with a read of its row.
LEMMA ScopedInv ==
  ASSUME MachineConstants, MachinesInv, NEW q \in Reqs, NEW o \in MachineOps, Machine!Scoped(q, o)
  PROVE  MachinesInv'
<1>1. PICK a \in Accounts :
        /\ Machine!Begin(q, [Machine!Idle EXCEPT !.pc = "write", !.op = o, !.acct = a, !.row = sa[a]])
        /\ UNCHANGED <<sa, trust, made, sess, tokens, ended, now, key, left, cache, once, used>>
  BY Zenon DEF Machine!Scoped, Machine!Rows, Machine!Clock, Machine!Issuer, Machine!Tokens
<1>2. PICK held \in AccountRow : held = sa[a] BY Zenon DEF MachinesInv, RowTypes
<1> DEFINE n == [Machine!Idle EXCEPT !.pc = "write", !.op = o, !.acct = a, !.row = held]
<1>3. "write" \in MachineStages /\ a \in Owner BY DEF MachineStages, Owner
<1>4. n \in MachineRequest /\ n.pc = "write" BY Zenon, <1>3, MachineIdle DEF MachineRequest
<1>5. Machine!Go(q, n) BY Zenon, <1>1, <1>2 DEF Machine!Begin
<1> HIDE DEF n
<1>6. Unbound(n) BY <1>4 DEF Unbound
<1> QED BY Zenon, <1>1, <1>4, <1>5, <1>6, MachineBegins

\* After the write: a session whose id is among those to go is one of the account.
LEMMA WrittenInv ==
  ASSUME MachineConstants, MachinesInv, NEW q \in Reqs, Machine!Revoking(q) \/ Machine!Done(q),
         RowTypes', UNCHANGED <<sess, tokens, ended, now, key, left, cache, once, used>>
  PROVE  MachinesInv'
<1>1. CASE Machine!Done(q)
  BY Zenon, <1>1, MachineIdle, UnboundSound, QuietMachines DEF Machine!Done
<1>2. CASE Machine!Revoking(q)
  <2>1. PICK r \in MachineRequest : r = mreq[q] BY Zenon DEF MachinesInv
  <2>2. SessionsSound BY Zenon DEF MachinesInv
  <2>3. \A s \in sess : s.id \in 1 .. tokens BY Zenon, <2>2 DEF SessionsSound
  <2>4. {s.id : s \in {u \in sess : u.acct = r.acct}} \subseteq 1 .. tokens BY Zenon, <2>3
  <2>5. PICK gone \in SUBSET (1 .. tokens) : gone = {s.id : s \in {u \in sess : u.acct = r.acct}}
    BY Zenon, <2>4
  <2> DEFINE n == [r EXCEPT !.pc = "revoke", !.old = gone]
  <2>6. "revoke" \in MachineStages /\ gone \in SUBSET Nat BY <2>2 DEF MachineStages, SessionsSound
  <2>7. n \in MachineRequest /\ n.pc = "revoke" /\ n.old = gone /\ n.acct = r.acct
    BY Zenon, <2>6 DEF MachineRequest
  <2>8. Machine!Go(q, n) BY Zenon, <1>2, <2>1, <2>5 DEF Machine!Revoking, Machine!OfAccount
  <2> HIDE DEF n
  <2>9. ASSUME NEW s \in sess, s.id \in gone PROVE s.acct = r.acct
    <3>1. PICK u \in sess : u.acct = r.acct /\ u.id = s.id BY Zenon, <2>5, <2>9
    <3> QED BY Zenon, <2>2, <3>1 DEF SessionsSound
  <2>10. MachineSound(n)
    <3>1. n.old \subseteq 1 .. tokens /\ \A s \in sess : s.id \in n.old => s.acct = n.acct
      BY Zenon, <2>5, <2>7, <2>9
    <3> QED BY <2>7, <3>1 DEF MachineSound
  <2> QED BY Zenon, <2>7, <2>8, <2>10, QuietMachines
<1> QED BY Zenon, <1>1, <1>2

\* Changes of an account and of the identities it trusts, up to the revocation.
LEMMA ChangesInv ==
  ASSUME MachineConstants, MachinesInv, NEW q \in Reqs,
         \/ Machine!PatchServiceAccount(q) \/ Machine!RotateServiceAccount(q)
         \/ Machine!DeleteServiceAccount(q) \/ Machine!CreateWorkloadIdentity(q)
  PROVE  MachinesInv'
<1>0. \A o \in {"keep", "disable", "enable", "rotate", "delete", "trust"} : o \in MachineOps
  BY DEF MachineOps
<1>1. PICK r \in MachineRequest : r = mreq[q] BY Zenon DEF MachinesInv
<1>2. sa \in [Accounts -> AccountRow] /\ trust \in Identities /\ made \in Nat /\ made + 1 \in Nat
  BY DEF MachinesInv, RowTypes
<1>3. r.row \in AccountRow BY Zenon DEF MachineRequest
<1>4. ASSUME NEW o \in {"keep", "disable", "enable", "rotate", "delete", "trust"}, Machine!Scoped(q, o)
      PROVE  MachinesInv'
  BY Zenon, <1>0, <1>4, ScopedInv
<1>5. ASSUME NEW row1 \in AccountRow, Machine!UpdateServiceAccount(r.acct, row1)
      PROVE  sa' \in [Accounts -> AccountRow]
  BY Zenon, <1>2, <1>5 DEF Machine!UpdateServiceAccount
<1>6. CASE Machine!PatchServiceAccount(q)
  <2>1. CASE \E d \in {"keep", "disable", "enable"} : Machine!Scoped(q, d) BY Zenon, <1>4, <2>1
  <2>2. CASE ~\E d \in {"keep", "disable", "enable"} : Machine!Scoped(q, d)
    <3> DEFINE off == IF r.op = "keep" THEN r.row.disabled ELSE r.op = "disable"
    <3>1. /\ Machine!UpdateServiceAccount(r.acct, [r.row EXCEPT !.disabled = off])
          /\ Machine!Revoking(q) \/ Machine!Done(q)
          /\ UNCHANGED <<trust, made, sess, tokens, ended, now, key, left, cache, once, used>>
      BY Zenon, <1>1, <1>6, <2>2 DEF Machine!PatchServiceAccount, Machine!Clock, Machine!Issuer,
                                     Machine!Tokens
    <3>2. off \in BOOLEAN BY <1>3 DEF AccountRow
    <3> HIDE DEF off
    <3>3. [r.row EXCEPT !.disabled = off] \in AccountRow BY Zenon, <1>3, <3>2 DEF AccountRow
    <3>4. RowTypes' BY Zenon, <1>2, <1>5, <3>1, <3>3 DEF RowTypes
    <3> QED BY Zenon, <3>1, <3>4, WrittenInv
  <2> QED BY Zenon, <2>1, <2>2
<1>7. CASE Machine!RotateServiceAccount(q)
  <2>1. CASE Machine!Scoped(q, "rotate") BY Zenon, <1>4, <2>1
  <2>2. CASE ~Machine!Scoped(q, "rotate")
    <3>1. /\ Machine!UpdateServiceAccount(r.acct, [r.row EXCEPT !.secret = made + 1])
          /\ Machine!Revoking(q) \/ Machine!Done(q)
          /\ made' = made + 1 \/ made' = made
          /\ UNCHANGED <<trust, sess, tokens, ended, now, key, left, cache, once, used>>
      BY Zenon, <1>1, <1>7, <2>2 DEF Machine!RotateServiceAccount, Machine!Clock, Machine!Issuer,
                                     Machine!Tokens
    <3>2. [r.row EXCEPT !.secret = made + 1] \in AccountRow BY Zenon, <1>2, <1>3 DEF AccountRow
    <3>3. RowTypes' BY Zenon, <1>2, <1>5, <3>1, <3>2 DEF RowTypes
    <3> QED BY Zenon, <3>1, <3>3, WrittenInv
  <2> QED BY Zenon, <2>1, <2>2
<1>8. CASE Machine!DeleteServiceAccount(q)
  <2>1. CASE Machine!Scoped(q, "delete") BY Zenon, <1>4, <2>1
  <2>2. CASE ~Machine!Scoped(q, "delete")
    <3>1. /\ Machine!DeleteRow(r.acct) /\ (Machine!Revoking(q) \/ Machine!Done(q))
          /\ UNCHANGED <<made, sess, tokens, ended, now, key, left, cache, once, used>>
      BY Zenon, <1>1, <1>8, <2>2 DEF Machine!DeleteServiceAccount, Machine!Clock, Machine!Issuer,
                                     Machine!Tokens
    <3>2. [secret |-> 0, disabled |-> FALSE] \in AccountRow BY DEF AccountRow
    <3>3. sa' \in [Accounts -> AccountRow] BY Zenon, <1>2, <3>1, <3>2 DEF Machine!DeleteRow
    <3>4. trust' \in Identities BY <1>2, <3>1 DEF Machine!DeleteRow, Machine!None, Identities
    <3>5. RowTypes' BY Zenon, <1>2, <3>1, <3>3, <3>4 DEF RowTypes
    <3> QED BY Zenon, <3>1, <3>5, WrittenInv
  <2> QED BY Zenon, <2>1, <2>2
<1>9. CASE Machine!CreateWorkloadIdentity(q)
  <2>1. CASE Machine!Scoped(q, "trust") BY Zenon, <1>4, <2>1
  <2>2. CASE ~Machine!Scoped(q, "trust")
    <3>1. PICK d \in Auds : Machine!InsertIdentity(r.acct, d)
      BY Zenon, <1>1, <1>9, <2>2 DEF Machine!CreateWorkloadIdentity
    <3>2. /\ Machine!Done(q)
          /\ UNCHANGED <<sa, made, sess, tokens, ended, now, key, left, cache, once, used>>
      BY Zenon, <1>9, <2>2 DEF Machine!CreateWorkloadIdentity, Machine!Clock, Machine!Issuer,
                               Machine!Tokens
    <3>3. trust' \in Identities BY Zenon, <1>2, <3>1 DEF Machine!InsertIdentity, Identities
    <3>4. RowTypes' BY Zenon, <1>2, <3>2, <3>3 DEF RowTypes
    <3> QED BY Zenon, <3>2, <3>4, WrittenInv
  <2> QED BY Zenon, <2>1, <2>2
<1> QED BY Zenon, <1>6, <1>7, <1>8, <1>9

\* revokeServiceAccountTokens: all that the account has goes, and what was counted as
\* ended was of the account.
LEMMA RevokedInv ==
  ASSUME MachineConstants, MachinesInv, NEW q \in Reqs, Machine!RevokeServiceAccount(q)
  PROVE  MachinesInv'
<1>0. UNCHANGED <<sa, trust, made, tokens, now, key, left, cache, once, used>>
  BY Zenon DEF Machine!RevokeServiceAccount, Machine!Rows, Machine!Clock, Machine!Issuer
<1>1. PICK r \in MachineRequest : r = mreq[q] BY Zenon DEF MachinesInv
<1>2. /\ r.pc = "revoke" /\ sess' = sess \ {s \in sess : s.acct = r.acct} /\ ended' = ended \cup r.old
      /\ Machine!Go(q, Machine!Idle)
  BY Zenon, <1>1 DEF Machine!RevokeServiceAccount, Machine!RevokeSubject, Machine!OfAccount, Machine!Done
<1>3. MachineSound(r) /\ SessionsSound BY Zenon, <1>1 DEF MachinesInv
<1>4. r.old \subseteq 1 .. tokens /\ \A s \in sess : s.id \in r.old => s.acct = r.acct
  BY Zenon, <1>2, <1>3 DEF MachineSound
<1>5. SessionsSound' BY <1>0, <1>2, <1>3, <1>4 DEF SessionsSound
<1>6. tokens <= tokens' /\ now <= now' /\ \A s \in sess' : s \in sess
  BY <1>0, <1>2 DEF MachinesInv, SessionsSound, KeysSound
<1>7. MachinesAdvance BY Zenon, <1>0, <1>6 DEF MachinesAdvance, KeySeen
<1>8. RowTypes' BY Zenon, <1>0 DEF MachinesInv, RowTypes
<1>9. ClaimsSound' BY Zenon, <1>0 DEF MachinesInv, ClaimsSound
<1>10. KeysSound' BY Zenon, <1>0 DEF MachinesInv, KeysSound
<1>11. MachineSound(Machine!Idle)' BY Zenon, MachineIdle DEF Unbound, MachineSound
<1> QED BY Zenon, <1>2, <1>5, <1>7, <1>8, <1>9, <1>10, <1>11, MachineIdle, MachineMoves

\* authorizeMachine: the session it finds has not ended.
LEMMA AuthorizeInv ==
  ASSUME MachineConstants, MachinesInv, NEW q \in Reqs, Machine!AuthorizeMachine(q)
  PROVE  MachinesInv'
<1>0. UNCHANGED <<sa, trust, made, sess, tokens, ended, now, key, left, cache, once, used>>
  BY Zenon DEF Machine!AuthorizeMachine, Machine!Rows, Machine!Clock, Machine!Issuer, Machine!Tokens
<1>1. RowTypes' BY Zenon, <1>0 DEF MachinesInv, RowTypes
<1>2. SessionsSound BY Zenon DEF MachinesInv
<1>3. PICK r \in MachineRequest : r = mreq[q] /\ MachineSound(r) BY Zenon DEF MachinesInv
<1>4. ASSUME NEW s \in sess,
             Machine!Begin(q, [Machine!Idle EXCEPT !.pc = "account", !.op = "use", !.acct = s.acct,
                                                   !.sid = s.id, !.old = ended])
      PROVE  MachinesInv'
  <2>1. PICK a \in Owner, i \in Nat, gone \in SUBSET Nat :
          a = s.acct /\ i = s.id /\ gone = ended /\ i \notin gone
    <3>1. s.acct \in Owner /\ s.id \notin ended BY Zenon, <1>2 DEF SessionsSound
    <3>2. s.id \in Nat /\ ended \in SUBSET Nat BY <1>2 DEF SessionsSound
    <3> QED BY Zenon, <3>1, <3>2
  <2> DEFINE n == [Machine!Idle EXCEPT !.pc = "account", !.op = "use", !.acct = a, !.sid = i,
                                       !.old = gone]
  <2>2. "account" \in MachineStages /\ "use" \in MachineOps BY DEF MachineStages, MachineOps
  <2>3. n \in MachineRequest /\ n.pc = "account" /\ n.sid = i /\ n.old = gone
    BY Zenon, <2>2, MachineIdle DEF MachineRequest
  <2>4. Machine!Go(q, n) BY Zenon, <1>4, <2>1 DEF Machine!Begin
  <2> HIDE DEF n
  <2>5. MachineSound(n) BY <2>1, <2>3 DEF MachineSound
  <2> QED BY Zenon, <1>0, <1>1, <2>3, <2>4, <2>5, QuietMachines
<1>5. ASSUME r.pc = "account", Machine!Go(q, [r EXCEPT !.pc = "served"]) PROVE MachinesInv'
  <2> DEFINE n == [r EXCEPT !.pc = "served"]
  <2>1. "served" \in MachineStages BY DEF MachineStages
  <2>2. n \in MachineRequest /\ n.pc = "served" /\ n.sid = r.sid /\ n.old = r.old
    BY Zenon, <2>1 DEF MachineRequest
  <2>3. Machine!Go(q, n) BY Zenon, <1>5
  <2> HIDE DEF n
  <2>4. r.sid \notin r.old BY <1>3, <1>5 DEF MachineSound
  <2>5. MachineSound(n) BY <2>2, <2>4 DEF MachineSound
  <2> QED BY Zenon, <1>0, <1>1, <2>2, <2>3, <2>5, QuietMachines
<1>6. CASE Machine!Done(q) BY Zenon, <1>0, <1>6, MachineIdle, MachineBegins DEF Machine!Done
<1> QED BY Zenon, <1>3, <1>4, <1>5, <1>6 DEF Machine!AuthorizeMachine

\* What no request does: an account is made, an identity goes, time passes, the issuer
\* changes its key.
LEMMA MachineEventsInv ==
  ASSUME MachineConstants, MachinesInv,
         \/ \E a \in Accounts : Machine!CreateServiceAccount(a) \/ Machine!DeleteWorkloadIdentity(a)
         \/ Machine!Tick \/ Machine!IssuerRotates \/ UNCHANGED Machine!machineVars
  PROVE  MachinesInv'
<1>0. UNCHANGED <<mreq, tokens, ended, cache, once, used>>
  BY Zenon DEF Machine!CreateServiceAccount, Machine!DeleteWorkloadIdentity, Machine!Tick,
    Machine!IssuerRotates, Machine!machineVars, Machine!Issuer, Machine!Tokens
<1>1. ClaimsSound' BY Zenon, <1>0 DEF MachinesInv, ClaimsSound
<1>2. SessionsSound /\ KeysSound /\ RowTypes BY Zenon DEF MachinesInv
<1>3. ASSUME RowTypes', SessionsSound', KeysSound', MachinesAdvance PROVE MachinesInv'
  <2>1. ASSUME NEW p \in Reqs PROVE MachineSound(mreq[p])'
    <3>1. PICK c \in MachineRequest : c = mreq[p] BY Zenon DEF MachinesInv
    <3>2. MachineSound(c) BY Zenon, <3>1 DEF MachinesInv
    <3>3. MachineSound(c)' BY Zenon, <1>2, <1>3, <3>2, MachineStaysSound
    <3>4. mreq'[p] = c BY Zenon, <1>0, <3>1
    <3> QED BY Zenon, <3>3, <3>4 DEF MachineSound
  <2>2. mreq' \in [Reqs -> MachineRequest] BY Zenon, <1>0 DEF MachinesInv
  <2> QED BY Zenon, <1>1, <1>3, <2>1, <2>2 DEF MachinesInv
<1>4. ASSUME RowTypes', UNCHANGED <<sess, now, key, left>> PROVE MachinesInv'
  <2>1. SessionsSound' BY Zenon, <1>0, <1>2, <1>4 DEF SessionsSound
  <2>2. KeysSound' BY Zenon, <1>0, <1>2, <1>4 DEF KeysSound
  <2>3. tokens <= tokens' /\ now <= now' BY <1>0, <1>2, <1>4 DEF SessionsSound, KeysSound
  <2>4. MachinesAdvance BY Zenon, <1>4, <2>3 DEF MachinesAdvance, KeySeen
  <2> QED BY Zenon, <1>3, <1>4, <2>1, <2>2, <2>4
<1>5. ASSUME NEW a \in Accounts, Machine!CreateServiceAccount(a) PROVE MachinesInv'
  <2>1. /\ sa' = [sa EXCEPT ![a] = [secret |-> made + 1, disabled |-> FALSE]] /\ made' = made + 1
        /\ UNCHANGED <<trust, sess, now, key, left>>
    BY Zenon, <1>5 DEF Machine!CreateServiceAccount, Machine!Clock, Machine!Tokens
  <2>2. made + 1 \in Nat /\ [secret |-> made + 1, disabled |-> FALSE] \in AccountRow
    BY <1>2 DEF RowTypes, AccountRow
  <2>3. RowTypes' BY Zenon, <1>2, <2>1, <2>2 DEF RowTypes
  <2> QED BY Zenon, <1>4, <2>1, <2>3
<1>6. ASSUME NEW a \in Accounts, Machine!DeleteWorkloadIdentity(a) PROVE MachinesInv'
  <2>1. trust' = [trust EXCEPT ![a] = "none"] /\ UNCHANGED <<sa, made, sess, now, key, left>>
    BY Zenon, <1>6 DEF Machine!DeleteWorkloadIdentity, Machine!None, Machine!Clock, Machine!Tokens
  <2>2. trust' \in Identities BY <1>2, <2>1 DEF RowTypes, Identities
  <2>3. RowTypes' BY Zenon, <1>2, <2>1, <2>2 DEF RowTypes
  <2> QED BY Zenon, <1>4, <2>1, <2>3
<1>7. CASE Machine!Tick
  <2>1. now' = now + 1 /\ sess' \subseteq sess /\ UNCHANGED <<sa, trust, made, key, left>>
    BY Zenon, <1>7 DEF Machine!Tick, Machine!Unexpired, Machine!Rows
  <2>2. RowTypes' BY Zenon, <1>2, <2>1 DEF RowTypes
  <2>3. SessionsSound' BY Zenon, <1>0, <1>2, <2>1 DEF SessionsSound
  <2>4. now' \in Nat /\ cache.fetched <= now' /\ tokens <= tokens' /\ now <= now'
    BY <1>0, <1>2, <2>1 DEF KeysSound, SessionsSound, KeyCache
  <2>5. KeysSound' BY Zenon, <1>0, <1>2, <2>1, <2>4 DEF KeysSound
  <2>6. MachinesAdvance BY Zenon, <2>1, <2>4 DEF MachinesAdvance, KeySeen
  <2> QED BY Zenon, <1>3, <2>2, <2>3, <2>5, <2>6
<1>8. CASE Machine!IssuerRotates
  <2>1. /\ key + 1 \in Kids /\ key' = key + 1 /\ left' = [left EXCEPT ![key] = now]
        /\ UNCHANGED <<sa, trust, made, sess, now>>
    BY Zenon, <1>8 DEF Machine!IssuerRotates, Machine!Rows, Machine!Tokens
  <2>2. RowTypes' BY Zenon, <1>2, <2>1 DEF RowTypes
  <2>3. SessionsSound' BY Zenon, <1>0, <1>2, <2>1 DEF SessionsSound
  <2>4. /\ key \in Kids /\ Kids \subseteq Nat /\ now \in Nat /\ left \in [Kids -> Nat]
        /\ cache.fetched \in Nat /\ cache.fetched <= now /\ cache.keys \subseteq Kids /\ KeysTTL \in Nat
    BY <1>2 DEF KeysSound, KeyCache, MachineConstants
  <2>5. left' \in [Kids -> Nat] /\ left'[key] = now /\ \A k \in Kids \ {key} : left'[k] = left[k]
    BY Zenon, <2>1, <2>4
  <2>6. ASSUME NEW k \in cache.keys PROVE k < key' /\ left'[k] >= cache.fetched
    <3>1. k = key \/ (k < key /\ left[k] >= cache.fetched) BY Zenon, <1>2, <2>6 DEF KeysSound
    <3> QED BY <2>1, <2>4, <2>5, <2>6, <3>1
  <2>7. KeysSound' BY Zenon, <1>0, <1>2, <2>1, <2>5, <2>6 DEF KeysSound
  <2>8. tokens <= tokens' /\ now <= now' BY <1>0, <1>2, <2>1 DEF SessionsSound, KeysSound
  <2>9. ASSUME NEW k \in Kids, NEW t \in Nat, t <= now, KeySeen(k, t) PROVE KeySeen(k, t)'
    <3>1. CASE k = key
      <4>1. k < key' /\ left'[k] + KeysTTL >= t BY <2>1, <2>4, <2>5, <2>9, <3>1
      <4> QED BY Zenon, <4>1 DEF KeySeen
    <3>2. CASE k # key
      <4>1. k < key /\ left[k] + KeysTTL >= t BY Zenon, <2>9, <3>2 DEF KeySeen
      <4>2. k < key' /\ left'[k] + KeysTTL >= t BY <2>1, <2>4, <2>5, <3>2, <4>1
      <4> QED BY Zenon, <4>2 DEF KeySeen
    <3> QED BY Zenon, <3>1, <3>2
  <2>10. MachinesAdvance BY Zenon, <2>1, <2>8, <2>9 DEF MachinesAdvance
  <2> QED BY Zenon, <1>3, <2>2, <2>3, <2>7, <2>10
<1>9. CASE UNCHANGED Machine!machineVars
  <2>1. UNCHANGED <<sa, trust, made, sess, now, key, left>> BY Zenon, <1>9 DEF Machine!machineVars
  <2>2. RowTypes' BY Zenon, <1>2, <2>1 DEF RowTypes
  <2> QED BY Zenon, <1>4, <2>1, <2>2
<1> QED BY Zenon, <1>5, <1>6, <1>7, <1>8, <1>9

\* For any number of accounts, requests, assertions and keys: an assertion makes at most
\* one token before its end (claimAssertionOnce), no request is served by a session that
\* a change of the account had ended before the request came
\* (revokeServiceAccountTokens), and an assertion is taken only with a key that the
\* issuer still published within the life of the cached keys (keysFor).
THEOREM MachineTokensJustified ==
  MachineConstants => (Machine!Spec => []Machine!MachinesJustified)
<1> SUFFICES ASSUME MachineConstants PROVE Machine!Spec => []Machine!MachinesJustified
  OBVIOUS
<1>1. Machine!Init => MachinesInv
  <2> SUFFICES ASSUME Machine!Init PROVE MachinesInv OBVIOUS
  <2>1. sa = [a \in Accounts |-> [secret |-> 0, disabled |-> FALSE]] /\ made = 0
        /\ trust = [a \in Accounts |-> "none"]
    BY Zenon DEF Machine!Init, Machine!None
  <2>2. [secret |-> 0, disabled |-> FALSE] \in AccountRow BY DEF AccountRow
  <2>3. RowTypes BY Zenon, <2>1, <2>2 DEF RowTypes, Identities
  <2>4. SessionsSound BY DEF Machine!Init, SessionsSound
  <2>5. /\ cache = [keys |-> {}, fetched |-> 0, asked |-> 0] /\ key = 1 /\ now = 0
        /\ left = [k \in Kids |-> 0]
    BY Zenon DEF Machine!Init
  <2>6. KeysSound BY <2>5 DEF KeysSound, KeyCache, MachineConstants
  <2>7. once = [j \in Ids |-> 0] /\ used = [j \in Ids |-> 0] BY Zenon DEF Machine!Init, Ids
  <2>8. ClaimsSound
    <3>1. \A x \in Assertions : x.jti \in Ids BY Zenon DEF Ids
    <3> QED BY <2>7, <3>1 DEF ClaimsSound
  <2>9. mreq = [q \in Reqs |-> Machine!Idle] BY Zenon DEF Machine!Init
  <2>10. MachineSound(Machine!Idle) BY Zenon, MachineIdle, UnboundSound
  <2> QED BY Zenon, <2>3, <2>4, <2>6, <2>8, <2>9, <2>10, MachineIdle DEF MachinesInv
<1>2. MachinesInv /\ [Machine!Next]_Machine!machineVars => MachinesInv'
  BY Zenon, GrantsInv, KeysForInv, MatchInv, ClaimInv, IssueInv, ChangesInv, RevokedInv, AuthorizeInv,
     MachineEventsInv
  DEF Machine!Next
<1>3. MachinesInv => Machine!MachinesJustified
  <2> SUFFICES ASSUME MachinesInv PROVE Machine!MachinesJustified OBVIOUS
  <2>1. ASSUME NEW j \in DOMAIN used PROVE used[j] <= 1
    <3>1. PICK x \in Assertions : x.jti = j BY Zenon, <2>1 DEF MachinesInv, ClaimsSound, Ids
    <3>2. used[j] = 0 \/ used[j] = 1 BY Zenon, <3>1 DEF MachinesInv, ClaimsSound
    <3> QED BY <3>2
  <2>2. ASSUME NEW q \in Reqs, mreq[q].pc = "served" PROVE mreq[q].sid \notin mreq[q].old
    BY <2>2 DEF MachinesInv, MachineSound
  <2>3. ASSUME NEW q \in Reqs, mreq[q].pc = "match" PROVE KeySeen(mreq[q].claims.kid, mreq[q].sid)
    BY Zenon, <2>3 DEF MachinesInv, MachineSound
  <2> QED BY Zenon, <2>1, <2>2, <2>3 DEF Machine!MachinesJustified, KeySeen
<1> QED BY <1>1, <1>2, <1>3, PTL DEF Machine!Spec

-----------------------------------------------------------------------------
(* Tokens of an agent.                                                     *)

CONSTANT MaxTokens

VARIABLES status, valid, issued, conn, areq, aops, dead

AgentToken == INSTANCE AgentTokens WITH req <- areq, ops <- aops

TokenStages == {"idle", "issue", "old", "revoke", "tokens", "close", "patch", "disable", "delete",
                "agent", "accept"}
TokenOps == {"none", "rotate", "revoke", "active", "disabled", "revoked"}

\* What a request has copied: tokens, a status, or nothing.
Copies == TokenOps \cup SUBSET Nat

TokenRequest == [pc : TokenStages, op : TokenOps, copy : Copies, prev : SUBSET Nat, tok : Nat]

\* What request r is about to put out of use has been issued, and what it has already
\* worked off is not valid; what a patch writes back is a status.
Gone(r, last, good) ==
  /\ r.pc = "issue" => r.prev \subseteq 1 .. last
  /\ r.pc = "old" => r.copy \subseteq 1 .. last /\ (r.copy \ r.prev) \cap good = {}
  /\ r.pc = "close" => r.prev \subseteq 1 .. last /\ r.prev \cap good = {}
  /\ r.pc = "patch" => r.copy \in TokenOps

\* A request that is not about tokens.
Plain(r) == r.pc \notin {"issue", "old", "close"} /\ (r.pc = "patch" => r.copy \in TokenOps)

TokenTypes ==
  /\ issued \in Nat /\ valid \subseteq 1 .. issued /\ dead \subseteq 1 .. issued
  /\ status \in TokenOps \cup {"gone"} /\ areq \in [Reqs -> TokenRequest]

TokensInv == TokenTypes /\ AgentToken!OldTokensRefused /\ \A q \in Reqs : Gone(areq[q], issued, valid)

\* Tokens are issued in order and revoked for good.
TokensOnly ==
  /\ issued' \in Nat /\ issued <= issued' /\ valid' \subseteq 1 .. issued'
  /\ \A t \in 1 .. issued : t \in valid' => t \in valid

StatusKept == status' \in TokenOps \cup {"gone"}

\* A request takes a step: no token becomes valid again, so what the others have worked
\* off stays so.
LEMMA TokensMove ==
  ASSUME TokensInv, NEW q \in Reqs, NEW r \in TokenRequest, AgentToken!Go(q, r), TokensOnly,
         dead' \subseteq 1 .. issued', dead' \cap valid' = {}, Gone(r, issued', valid'),
         StatusKept
  PROVE  TokensInv'
<1>1. areq' = [areq EXCEPT ![q] = r] BY DEF AgentToken!Go
<1>2. areq'[q] = r /\ areq' \in [Reqs -> TokenRequest] /\ \A p \in Reqs \ {q} : areq'[p] = areq[p]
  BY Zenon, <1>1 DEF TokensInv, TokenTypes
<1>3. ASSUME NEW p \in Reqs, p # q PROVE Gone(areq[p], issued', valid')
  BY DEF TokensInv, TokenTypes, TokensOnly, Gone
<1>4. TokenTypes' /\ AgentToken!OldTokensRefused'
  BY Zenon, <1>2 DEF TokenTypes, TokensOnly, StatusKept, AgentToken!OldTokensRefused
<1> QED BY Zenon, <1>2, <1>3, <1>4 DEF TokensInv

\* A request takes a step that leaves the tokens alone.
LEMMA QuietTokens ==
  ASSUME TokensInv, NEW q \in Reqs, NEW r \in TokenRequest, AgentToken!Go(q, r),
         Plain(r), UNCHANGED <<valid, issued, dead>>, StatusKept
  PROVE  TokensInv'
<1>1. TokensOnly BY DEF TokensInv, TokenTypes, TokensOnly
<1>2. dead' \subseteq 1 .. issued' /\ dead' \cap valid' = {}
  BY Zenon DEF TokensInv, TokenTypes, AgentToken!OldTokensRefused
<1>3. Gone(r, issued', valid') BY Zenon DEF Gone, Plain
<1> QED BY Zenon, <1>1, <1>2, <1>3, TokensMove

\* A request that has not begun, and what a request may copy.
LEMMA IdleRequest ==
  /\ AgentToken!Idle \in TokenRequest /\ AgentToken!Idle.pc = "idle"
  /\ TokenOps \subseteq Copies /\ SUBSET Nat \subseteq Copies
BY DEF AgentToken!Idle, AgentToken!None, TokenRequest, TokenStages, TokenOps, Copies

\* RotateToken: the tokens from before it are listed, and revoked one by one once the new
\* one is there.
LEMMA RotateTokenInv == ASSUME TokensInv, NEW q \in Reqs, AgentToken!RotateToken(q) PROVE TokensInv'
<1> DEFINE r == areq[q]
<1>0. /\ issued \in Nat /\ valid \subseteq 1 .. issued /\ dead \subseteq 1 .. issued
      /\ dead \cap valid = {} /\ r \in TokenRequest /\ Gone(r, issued, valid)
      /\ status \in TokenOps \cup {"gone"}
  BY DEF TokensInv, TokenTypes, AgentToken!OldTokensRefused
<1> HIDE DEF r
<1>a. r.prev \in SUBSET Nat /\ r.prev \in Copies BY Zenon, <1>0, IdleRequest DEF TokenRequest
<1>1. ASSUME AgentToken!Begin(q, [AgentToken!Idle EXCEPT !.pc = "issue", !.op = "rotate",
                                                        !.prev = AgentToken!ListTokensByAgent])
      PROVE  TokensInv'
  <2> DEFINE n == [AgentToken!Idle EXCEPT !.pc = "issue", !.op = "rotate", !.prev = valid]
  <2>1. valid \in SUBSET Nat /\ "issue" \in TokenStages /\ "rotate" \in TokenOps
    BY <1>0 DEF TokenStages, TokenOps
  <2>2. n \in TokenRequest BY Zenon, <2>1, IdleRequest DEF TokenRequest
  <2>3. AgentToken!Go(q, n) /\ UNCHANGED <<status, valid, issued, dead>>
    BY Zenon, <1>1 DEF AgentToken!Begin, AgentToken!ListTokensByAgent
  <2>4. n.pc = "issue" /\ n.prev = valid BY DEF AgentToken!Idle
  <2> HIDE DEF n
  <2>5. Gone(n, issued', valid') BY <1>0, <2>3, <2>4 DEF Gone
  <2>6. TokensOnly /\ StatusKept BY <1>0, <2>3 DEF TokensOnly, StatusKept
  <2> QED BY Zenon, <1>0, <2>2, <2>3, <2>5, <2>6, TokensMove
<1>2. ASSUME r.pc = "issue", AgentToken!IssueToken, UNCHANGED <<status, dead>>,
             AgentToken!Go(q, [r EXCEPT !.pc = "old", !.tok = issued + 1, !.copy = r.prev])
      PROVE  TokensInv'
  <2> DEFINE n == [r EXCEPT !.pc = "old", !.tok = issued + 1, !.copy = r.prev]
  <2>1. issued' = issued + 1 /\ valid' = valid \cup {issued + 1} BY <1>2 DEF AgentToken!IssueToken
  <2>2. issued + 1 \in Nat /\ "old" \in TokenStages BY <1>0 DEF TokenStages
  <2>3. n \in TokenRequest BY Zenon, <1>0, <1>a, <2>2 DEF TokenRequest
  <2>4. n.pc = "old" /\ n.copy = r.prev /\ n.prev = r.prev BY <1>0 DEF TokenRequest
  <2>5. r.prev \subseteq 1 .. issued BY <1>0, <1>2 DEF Gone
  <2>6. AgentToken!Go(q, n) BY Zenon, <1>2
  <2> HIDE DEF n
  <2>7. Gone(n, issued', valid') BY <1>0, <2>1, <2>4, <2>5 DEF Gone
  <2>8. TokensOnly /\ StatusKept BY <1>0, <1>2, <2>1 DEF TokensOnly, StatusKept
  <2>9. dead' \subseteq 1 .. issued' /\ dead' \cap valid' = {} BY <1>0, <1>2, <2>1
  <2> QED BY Zenon, <2>3, <2>6, <2>7, <2>8, <2>9, TokensMove
<1>3. ASSUME r.pc = "old", UNCHANGED <<status, issued, dead>>, NEW t \in r.prev,
             AgentToken!RevokeToken(t), AgentToken!Go(q, [r EXCEPT !.prev = r.prev \ {t}])
      PROVE  TokensInv'
  <2> DEFINE n == [r EXCEPT !.prev = r.prev \ {t}]
  <2>1. valid' = valid \ {t} BY <1>3 DEF AgentToken!RevokeToken
  <2>2. r.prev \ {t} \in SUBSET Nat BY <1>a
  <2>3. n \in TokenRequest BY Zenon, <1>0, <2>2 DEF TokenRequest
  <2>4. n.pc = "old" /\ n.copy = r.copy /\ n.prev = r.prev \ {t} BY <1>0, <1>3 DEF TokenRequest
  <2>5. AgentToken!Go(q, n) BY Zenon, <1>3
  <2>6. r.copy \subseteq 1 .. issued /\ (r.copy \ r.prev) \cap valid = {} BY <1>0, <1>3 DEF Gone
  <2> HIDE DEF n
  <2>7. Gone(n, issued', valid') BY <1>3, <2>1, <2>4, <2>6 DEF Gone
  <2>8. TokensOnly /\ StatusKept BY <1>0, <1>3, <2>1 DEF TokensOnly, StatusKept
  <2>9. dead' \subseteq 1 .. issued' /\ dead' \cap valid' = {} BY <1>0, <1>3, <2>1
  <2> QED BY Zenon, <2>3, <2>5, <2>7, <2>8, <2>9, TokensMove
<1>4. ASSUME AgentToken!Done(q), UNCHANGED <<status, valid, issued, dead>> PROVE TokensInv'
  <2>1. StatusKept BY Zenon, <1>0, <1>4 DEF StatusKept
  <2>2. Plain(AgentToken!Idle) BY IdleRequest DEF Plain
  <2> QED BY Zenon, <1>4, <2>1, <2>2, IdleRequest, QuietTokens DEF AgentToken!Done
<1>5. ASSUME r.pc = "old", r.prev = {}, dead' = dead \cup r.copy, AgentToken!Done(q),
             UNCHANGED <<status, valid, issued>>
      PROVE  TokensInv'
  <2>1. dead' \subseteq 1 .. issued' /\ dead' \cap valid' = {} BY <1>0, <1>5 DEF Gone
  <2>2. TokensOnly /\ StatusKept BY <1>0, <1>5 DEF TokensOnly, StatusKept
  <2>3. Gone(AgentToken!Idle, issued', valid') BY IdleRequest DEF Gone
  <2> QED BY Zenon, <1>5, <2>1, <2>2, <2>3, IdleRequest, TokensMove DEF AgentToken!Done
<1> QED BY Zenon, <1>1, <1>2, <1>3, <1>4, <1>5 DEF AgentToken!RotateToken, r

\* RevokeAgent: every token goes in one statement.
LEMMA RevokeAgentInv == ASSUME TokensInv, NEW q \in Reqs, AgentToken!RevokeAgent(q) PROVE TokensInv'
<1> DEFINE r == areq[q]
<1>0. /\ issued \in Nat /\ valid \subseteq 1 .. issued /\ dead \subseteq 1 .. issued
      /\ dead \cap valid = {} /\ r \in TokenRequest /\ Gone(r, issued, valid)
      /\ status \in TokenOps \cup {"gone"}
  BY DEF TokensInv, TokenTypes, AgentToken!OldTokensRefused
<1> HIDE DEF r
<1>a. {"revoke", "tokens", "close"} \subseteq TokenStages /\ "revoke" \in TokenOps
      /\ "revoked" \in TokenOps
  BY DEF TokenStages, TokenOps
<1>1. ASSUME AgentToken!Begin(q, [AgentToken!Idle EXCEPT !.pc = "revoke", !.op = "revoke"])
      PROVE  TokensInv'
  <2> DEFINE n == [AgentToken!Idle EXCEPT !.pc = "revoke", !.op = "revoke"]
  <2>1. n \in TokenRequest BY Zenon, <1>a, IdleRequest DEF TokenRequest
  <2>2. Plain(n) BY DEF AgentToken!Idle, Plain
  <2>3. AgentToken!Go(q, n) /\ UNCHANGED <<status, valid, issued, dead>>
    BY Zenon, <1>1 DEF AgentToken!Begin
  <2> HIDE DEF n
  <2>4. StatusKept BY Zenon, <1>0, <2>3 DEF StatusKept
  <2> QED BY Zenon, <2>1, <2>2, <2>3, <2>4, QuietTokens
<1>2. ASSUME AgentToken!UpdateAgent("revoked"), AgentToken!Go(q, [r EXCEPT !.pc = "tokens"]),
             UNCHANGED <<valid, issued, dead>>
      PROVE  TokensInv'
  <2> DEFINE n == [r EXCEPT !.pc = "tokens"]
  <2>1. n \in TokenRequest BY Zenon, <1>0, <1>a DEF TokenRequest
  <2>2. Plain(n) BY <1>0 DEF TokenRequest, Plain
  <2>3. AgentToken!Go(q, n) BY Zenon, <1>2
  <2> HIDE DEF n
  <2>4. StatusKept BY <1>0, <1>2, <1>a DEF StatusKept, AgentToken!UpdateAgent
  <2> QED BY Zenon, <1>2, <2>1, <2>2, <2>3, <2>4, QuietTokens
<1>3. ASSUME AgentToken!RevokeTokensByAgent, UNCHANGED <<status, issued, dead>>,
             AgentToken!Go(q, [r EXCEPT !.pc = "close", !.prev = 1 .. issued])
      PROVE  TokensInv'
  <2> DEFINE n == [r EXCEPT !.pc = "close", !.prev = 1 .. issued]
  <2>1. valid' = {} /\ 1 .. issued \in SUBSET Nat BY <1>0, <1>3 DEF AgentToken!RevokeTokensByAgent
  <2>2. n \in TokenRequest BY Zenon, <1>0, <1>a, <2>1 DEF TokenRequest
  <2>3. n.pc = "close" /\ n.prev = 1 .. issued BY <1>0 DEF TokenRequest
  <2>4. AgentToken!Go(q, n) BY Zenon, <1>3
  <2> HIDE DEF n
  <2>5. Gone(n, issued', valid') BY <1>3, <2>1, <2>3 DEF Gone
  <2>6. TokensOnly /\ StatusKept BY <1>0, <1>3, <2>1 DEF TokensOnly, StatusKept
  <2>7. dead' \subseteq 1 .. issued' /\ dead' \cap valid' = {} BY <1>0, <1>3, <2>1
  <2> QED BY Zenon, <2>2, <2>4, <2>5, <2>6, <2>7, TokensMove
<1>4. ASSUME r.pc = "close", dead' = dead \cup r.prev, AgentToken!Done(q),
             UNCHANGED <<status, valid, issued>>
      PROVE  TokensInv'
  <2>1. dead' \subseteq 1 .. issued' /\ dead' \cap valid' = {} BY <1>0, <1>4 DEF Gone
  <2>2. TokensOnly /\ StatusKept BY <1>0, <1>4 DEF TokensOnly, StatusKept
  <2>3. Gone(AgentToken!Idle, issued', valid') BY IdleRequest DEF Gone
  <2> QED BY Zenon, <1>4, <2>1, <2>2, <2>3, IdleRequest, TokensMove DEF AgentToken!Done
<1> QED BY Zenon, <1>1, <1>2, <1>3, <1>4 DEF AgentToken!RevokeAgent, r

\* The handlers that touch no token.
LEMMA OtherHandlersInv ==
  ASSUME TokensInv, NEW q \in Reqs,
         \/ AgentToken!PatchAgent(q) \/ AgentToken!DeleteAgent(q)
         \/ AgentToken!AuthenticateAgent(q) \/ AgentToken!HandleAgentConnect(q)
  PROVE  TokensInv'
<1> DEFINE r == areq[q]
<1>0. /\ issued \in Nat /\ r \in TokenRequest /\ status \in TokenOps \cup {"gone"}
      /\ r.pc = "patch" => r.copy \in TokenOps
  BY Zenon DEF TokensInv, TokenTypes, Gone
<1> HIDE DEF r
<1>1. UNCHANGED <<valid, issued, dead>>
  BY Zenon DEF AgentToken!PatchAgent, AgentToken!DeleteAgent, AgentToken!AuthenticateAgent,
     AgentToken!HandleAgentConnect, AgentToken!Begin
<1>2. ASSUME NEW n \in TokenRequest, Plain(n), StatusKept,
             AgentToken!Go(q, n)
      PROVE  TokensInv'
  BY Zenon, <1>1, <1>2, QuietTokens
<1>3. ASSUME AgentToken!Done(q), StatusKept PROVE TokensInv'
  <2>1. Plain(AgentToken!Idle) BY IdleRequest DEF Plain
  <2> QED BY Zenon, <1>2, <1>3, <2>1, IdleRequest DEF AgentToken!Done
<1>4. CASE AgentToken!PatchAgent(q)
  <2>1. ASSUME NEW s \in AgentToken!Statuses \cup {AgentToken!None}, status # "gone",
               AgentToken!Begin(q, [AgentToken!Idle EXCEPT !.pc = "patch", !.op = s,
                 !.copy = IF s \in {AgentToken!None, "revoked"} THEN status ELSE s])
        PROVE  TokensInv'
    <3> DEFINE c == IF s \in {AgentToken!None, "revoked"} THEN status ELSE s
               n == [AgentToken!Idle EXCEPT !.pc = "patch", !.op = s, !.copy = c]
    <3>1. "patch" \in TokenStages /\ s \in TokenOps /\ c \in TokenOps
      BY <1>0, <2>1 DEF TokenStages, TokenOps, AgentToken!Statuses, AgentToken!None
    <3>2. AgentToken!Go(q, n) /\ status' = status BY Zenon, <2>1 DEF AgentToken!Begin
    <3> HIDE DEF c
    <3>3. c \in Copies BY Zenon, <3>1, IdleRequest
    <3>4. n \in TokenRequest BY Zenon, <3>1, <3>3, IdleRequest DEF TokenRequest
    <3>5. Plain(n) BY <3>1 DEF AgentToken!Idle, Plain
    <3> HIDE DEF n
    <3>6. StatusKept BY Zenon, <1>0, <3>2 DEF StatusKept
    <3> QED BY Zenon, <1>2, <3>2, <3>4, <3>5, <3>6
  <2>2. ASSUME r.pc = "patch", AgentToken!UpdateAgent(r.copy),
               IF status = "gone" THEN AgentToken!Done(q)
               ELSE AgentToken!Go(q, [AgentToken!Idle EXCEPT !.pc =
                      CASE r.op = "revoked" -> "revoke" [] r.op = "disabled" -> "disable"
                        [] OTHER -> "idle"])
        PROVE  TokensInv'
    <3> DEFINE n == [AgentToken!Idle EXCEPT !.pc =
                       CASE r.op = "revoked" -> "revoke" [] r.op = "disabled" -> "disable"
                         [] OTHER -> "idle"]
    <3>1. StatusKept BY Zenon, <1>0, <2>2 DEF StatusKept, AgentToken!UpdateAgent
    <3>2. CASE status = "gone" BY Zenon, <1>3, <2>2, <3>1, <3>2
    <3>3. CASE status # "gone"
      <4>1. AgentToken!Go(q, n) BY Zenon, <2>2, <3>3
      <4>2. PICK p \in {"revoke", "disable", "idle"} : n = [AgentToken!Idle EXCEPT !.pc = p] OBVIOUS
      <4>3. p \in TokenStages BY DEF TokenStages
      <4> HIDE DEF n
      <4>4. n \in TokenRequest BY Zenon, <4>2, <4>3, IdleRequest DEF TokenRequest
      <4>5. Plain(n) BY <4>2 DEF AgentToken!Idle, Plain
      <4> QED BY Zenon, <1>2, <3>1, <4>1, <4>4, <4>5
    <3> QED BY Zenon, <3>2, <3>3
  <2>3. CASE AgentToken!Done(q) /\ status' = status
    BY Zenon, <1>0, <1>3, <2>3 DEF StatusKept
  <2> QED BY Zenon, <1>4, <2>1, <2>2, <2>3 DEF AgentToken!PatchAgent, r
<1>5. CASE AgentToken!DeleteAgent(q)
  <2>1. CASE AgentToken!Begin(q, [AgentToken!Idle EXCEPT !.pc = "delete"])
    <3> DEFINE n == [AgentToken!Idle EXCEPT !.pc = "delete"]
    <3>1. "delete" \in TokenStages BY DEF TokenStages
    <3>2. n \in TokenRequest BY Zenon, <3>1, IdleRequest DEF TokenRequest
    <3>3. Plain(n) BY DEF AgentToken!Idle, Plain
    <3>4. AgentToken!Go(q, n) /\ StatusKept
      BY Zenon, <1>0, <2>1 DEF AgentToken!Begin, StatusKept
    <3> HIDE DEF n
    <3> QED BY Zenon, <1>2, <3>2, <3>3, <3>4
  <2>2. CASE AgentToken!DeleteAgentRow /\ AgentToken!Done(q)
    BY Zenon, <1>3, <2>2 DEF AgentToken!DeleteAgentRow, StatusKept
  <2> QED BY Zenon, <1>5, <2>1, <2>2 DEF AgentToken!DeleteAgent
<1>6. CASE AgentToken!AuthenticateAgent(q)
  <2>1. ASSUME NEW t \in 1 .. issued,
               AgentToken!Begin(q, [AgentToken!Idle EXCEPT !.pc = "agent", !.tok = t])
        PROVE  TokensInv'
    <3> DEFINE n == [AgentToken!Idle EXCEPT !.pc = "agent", !.tok = t]
    <3>1. "agent" \in TokenStages /\ t \in Nat BY <1>0 DEF TokenStages
    <3>2. n \in TokenRequest BY Zenon, <3>1, IdleRequest DEF TokenRequest
    <3>3. Plain(n) BY DEF AgentToken!Idle, Plain
    <3>4. AgentToken!Go(q, n) /\ StatusKept
      BY Zenon, <1>0, <2>1 DEF AgentToken!Begin, StatusKept
    <3> HIDE DEF n
    <3> QED BY Zenon, <1>2, <3>2, <3>3, <3>4
  <2>2. ASSUME AgentToken!Go(q, [r EXCEPT !.pc = "accept"]), status' = status PROVE TokensInv'
    <3> DEFINE n == [r EXCEPT !.pc = "accept"]
    <3>1. "accept" \in TokenStages BY DEF TokenStages
    <3>2. n \in TokenRequest BY Zenon, <1>0, <3>1 DEF TokenRequest
    <3>3. Plain(n) BY <1>0 DEF TokenRequest, Plain
    <3>4. AgentToken!Go(q, n) /\ StatusKept BY Zenon, <1>0, <2>2 DEF StatusKept
    <3> HIDE DEF n
    <3> QED BY Zenon, <1>2, <3>2, <3>3, <3>4
  <2>3. CASE AgentToken!Done(q) /\ status' = status
    BY Zenon, <1>0, <1>3, <2>3 DEF StatusKept
  <2> QED BY Zenon, <1>6, <2>1, <2>2, <2>3 DEF AgentToken!AuthenticateAgent, r
<1>7. CASE AgentToken!HandleAgentConnect(q)
  BY Zenon, <1>0, <1>3, <1>7 DEF AgentToken!HandleAgentConnect, StatusKept
<1> QED BY Zenon, <1>4, <1>5, <1>6, <1>7

\* For any number of requests and tokens, with no lock between the store calls of a
\* handler: a token that an answered rotation or revocation has put out of use is not
\* valid again.
THEOREM OldTokensStayRefused == AgentToken!Spec => []AgentToken!OldTokensRefused
<1>1. AgentToken!Init => TokensInv
  <2> SUFFICES ASSUME AgentToken!Init PROVE TokensInv OBVIOUS
  <2>1. issued = 1 /\ valid = {1} /\ dead = {} /\ status = "active"
        /\ areq = [q \in Reqs |-> AgentToken!Idle]
    BY Zenon DEF AgentToken!Init, AgentToken!CreateAgent
  <2>2. status \in TokenOps \cup {"gone"} BY <2>1 DEF TokenOps
  <2>3. issued \in Nat /\ valid \subseteq 1 .. issued /\ dead \subseteq 1 .. issued BY <2>1
  <2>4. TokenTypes BY Zenon, <2>1, <2>2, <2>3, IdleRequest DEF TokenTypes
  <2>5. Gone(AgentToken!Idle, issued, valid) BY IdleRequest DEF Gone
  <2> QED BY Zenon, <2>1, <2>4, <2>5 DEF TokensInv, AgentToken!OldTokensRefused
<1>2. TokensInv /\ [AgentToken!Next]_AgentToken!tokenVars => TokensInv'
  <2> SUFFICES ASSUME TokensInv, [AgentToken!Next]_AgentToken!tokenVars PROVE TokensInv' OBVIOUS
  <2>1. CASE AgentToken!Disconnect \/ UNCHANGED AgentToken!tokenVars
    <3>1. UNCHANGED <<status, valid, issued, areq, dead>>
      BY Zenon, <2>1 DEF AgentToken!Disconnect, AgentToken!tokenVars
    <3> QED BY Zenon, <3>1 DEF TokensInv, TokenTypes, AgentToken!OldTokensRefused
  <2> QED BY Zenon, <2>1, RotateTokenInv, RevokeAgentInv, OtherHandlersInv DEF AgentToken!Next
<1>3. TokensInv => AgentToken!OldTokensRefused BY DEF TokensInv
<1> QED BY <1>1, <1>2, <1>3, PTL DEF AgentToken!Spec
=============================================================================
