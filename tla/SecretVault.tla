------------------------------ MODULE SecretVault ------------------------------
(***************************************************************************)
(* The secrets of an organisation and the caches of their plain values on  *)
(* the nodes of a cluster: one secret, versions for values.  Sections under *)
(* v.mu and store calls are single steps.                                   *)
(***************************************************************************)
EXTENDS Naturals, Sequences

CONSTANTS
  Nodes,
  MaxValue,   \* bound: values ever put
  MaxNow,     \* bound: the clock
  TTL,        \* life of a cached value
  Readers     \* calls of Open on a node at one time

VARIABLES
  row,      \* the stored value, 0 when there is none
  put,      \* values given to Put or Delete so far
  cache,    \* on each node: the value, 0 when it has none, and when it expires
  gen,      \* on each node: invalidations so far
  writer,   \* on each node: the Put or Delete under way
  reader,   \* on each node: the calls of Open
  due,      \* on each node: invalidations on the bus
  lost,     \* on each node: values it had read when an invalidation of them was lost
  now

vaultVars == <<row, put, cache, gen, writer, reader, due, lost, now>>

Empty == [value |-> 0, expires |-> 0]
NoWrite == [pc |-> "idle", value |-> 0]
NoRead == [pc |-> "idle", gen |-> 0, value |-> 0]

TypeOK ==
  /\ row \in 0 .. MaxValue /\ put \in 0 .. MaxValue /\ now \in 0 .. MaxNow
  /\ cache \in [Nodes -> [value : 0 .. MaxValue, expires : 0 .. MaxNow + TTL]]
  /\ \A n \in Nodes : cache[n].expires <= now + TTL /\ lost[n] \subseteq 0 .. MaxValue
  /\ \A n \in Nodes : writer[n].pc \in {"idle", "write", "after"} /\ due[n] \in 0 .. MaxValue

Init ==
  /\ row = 0 /\ put = 0 /\ now = 0
  /\ cache = [n \in Nodes |-> Empty] /\ gen = [n \in Nodes |-> 0]
  /\ writer = [n \in Nodes |-> NoWrite] /\ reader = [n \in Nodes |-> [r \in Readers |-> NoRead]]
  /\ due = [n \in Nodes |-> 0] /\ lost = [n \in Nodes |-> {}]

-----------------------------------------------------------------------------
\* invalidate: what was read before it is not stored after it.
Invalidate(n) == cache' = [cache EXCEPT ![n] = Empty] /\ gen' = [gen EXCEPT ![n] = @ + 1]

\* Put and Delete: both drop the cached value before the store has the new one, so that
\* an Open under way stores nothing, and after it.
Put(n) ==
  \/ /\ writer[n] = NoWrite /\ put < MaxValue /\ put' = put + 1
     /\ \E v \in {0, put + 1} : writer' = [writer EXCEPT ![n] = [pc |-> "write", value |-> v]]
     /\ Invalidate(n)
     /\ UNCHANGED <<row, reader, due, lost, now>>
  \/ /\ writer[n].pc = "write"
     /\ row' \in {row, writer[n].value}
     /\ writer' = [writer EXCEPT ![n].pc = "after"]
     /\ UNCHANGED <<put, cache, gen, reader, due, lost, now>>

Held(n) == {cache[n].value} \cup {reader[n][r].value : r \in Readers}

\* invalidateEverywhere: this node at once; the others by the bus, which may fail.
InvalidateEverywhere(n) ==
  /\ writer[n].pc = "after" /\ Invalidate(n)
  /\ writer' = [writer EXCEPT ![n] = NoWrite]
  /\ \/ due' = [m \in Nodes |-> IF m = n THEN due[m] ELSE due[m] + 1] /\ UNCHANGED lost
     \/ lost' = [m \in Nodes |-> IF m = n THEN lost[m] ELSE lost[m] \cup Held(m)] /\ UNCHANGED due
  /\ UNCHANGED <<row, put, reader, now>>

HandleRemoteInvalidation(n) ==
  /\ due[n] > 0 /\ due' = [due EXCEPT ![n] = @ - 1]
  /\ Invalidate(n)
  /\ UNCHANGED <<row, put, writer, reader, lost, now>>

Cached(n) == cache[n].value # 0 /\ now < cache[n].expires

Reads(n, r, v) == reader' = [reader EXCEPT ![n][r] = v]

\* Open: a cached value changes nothing; otherwise the generation, then the row.
Open(n, r) ==
  \/ /\ reader[n][r] = NoRead /\ ~Cached(n)
     /\ Reads(n, r, [pc |-> "get", gen |-> gen[n], value |-> 0])
     /\ UNCHANGED <<row, put, cache, gen, writer, due, lost, now>>
  \/ /\ reader[n][r].pc = "get"
     /\ IF row = 0 THEN Reads(n, r, NoRead) ELSE Reads(n, r, [reader[n][r] EXCEPT !.pc = "store", !.value = row])
     /\ UNCHANGED <<row, put, cache, gen, writer, due, lost, now>>

\* store, with room in the cache or without.
Store(n, r) ==
  /\ reader[n][r].pc = "store" /\ Reads(n, r, NoRead)
  /\ \/ gen[n] = reader[n][r].gen
        /\ cache' = [cache EXCEPT ![n] = [value |-> reader[n][r].value, expires |-> now + TTL]]
     \/ UNCHANGED cache
  /\ UNCHANGED <<row, put, gen, writer, due, lost, now>>

Tick ==
  /\ now < MaxNow /\ now' = now + 1
  /\ UNCHANGED <<row, put, cache, gen, writer, reader, due, lost>>

Next ==
  \/ \E n \in Nodes :
       \/ Put(n) \/ InvalidateEverywhere(n) \/ HandleRemoteInvalidation(n)
       \/ \E r \in Readers : Open(n, r) \/ Store(n, r)
  \/ Tick

Spec == Init /\ [][Next]_vaultVars

-----------------------------------------------------------------------------
(* Properties.                                                             *)

\* A node serves the stored value from its cache, unless a Put or Delete has not come
\* back yet, an invalidation is on its way to the node, or the one was lost that came
\* after the node had read the value: then the value goes when it expires.
SecretCurrent ==
  \A n \in Nodes : Cached(n) /\ cache[n].value # row =>
    due[n] > 0 \/ cache[n].value \in lost[n] \/ \E m \in Nodes : writer[m].pc = "after"

=============================================================================
