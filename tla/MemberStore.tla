------------------------------ MODULE MemberStore ------------------------------
(***************************************************************************)
(* What the control plane expects of a store of members: each of its calls *)
(* is one step, and none of them takes its last active owner from an       *)
(* organisation.                                                           *)
(***************************************************************************)
CONSTANTS Users, Invites

VARIABLES member, account, invite

store == <<member, account, invite>>

Roles == {"owner", "admin", "member"}
NoMember == [role |-> "none", off |-> FALSE]
Rows == [role : Roles, off : BOOLEAN]

ActiveOwner(u) == member[u].role = "owner" /\ ~member[u].off

HasOwner == \E u \in Users : ActiveOwner(u)

LastOwner(u) == ActiveOwner(u) /\ ~\E v \in Users \ {u} : ActiveOwner(v)

\* The methods that end in KeepingOwner.
KeepOwner(u, row) ==
  /\ member[u] # NoMember
  /\ LastOwner(u) => row.role = "owner" /\ ~row.off
  /\ member' = [member EXCEPT ![u] = row]
  /\ UNCHANGED <<account, invite>>

CreateMembership(u) ==
  /\ u \in account
  /\ member' = [member EXCEPT ![u].role = "owner"]
  /\ UNCHANGED <<account, invite>>

CreateUser(u) == account' = account \cup {u} /\ UNCHANGED <<member, invite>>

\* An invite is claimed by a user who is no member, or by one who is.
ClaimInvite(i, u, role) ==
  /\ i \in invite /\ invite' = invite \ {i}
  /\ member[u] = NoMember /\ member' = [member EXCEPT ![u] = [role |-> role, off |-> FALSE]]
  /\ account' = account \cup {u}

DeleteInvite(i) == invite' = invite \ {i} /\ UNCHANGED <<member, account>>

CreateInvite(i) == invite' = invite \cup {i} /\ UNCHANGED <<member, account>>

Next ==
  \/ \E u \in Users : CreateMembership(u) \/ CreateUser(u)
  \/ \E u \in Users, row \in Rows \cup {NoMember} : KeepOwner(u, row)
  \/ \E i \in Invites : CreateInvite(i) \/ DeleteInvite(i)
  \/ \E i \in Invites, u \in Users, role \in Roles : ClaimInvite(i, u, role)

\* An organisation that has an active owner keeps one.
OwnerStays == HasOwner => HasOwner'

================================================================================
