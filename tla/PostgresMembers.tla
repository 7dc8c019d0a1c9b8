---------------------------- MODULE PostgresMembers ----------------------------
(***************************************************************************)
(* The members of an organisation in Postgres: transactions at READ        *)
(* COMMITTED, in which every statement sees what others have committed,    *)
(* waits for the rows that they have written and goes by those rows as     *)
(* they left them.  The tables hold what is committed; a transaction       *)
(* changes them when it commits.                                           *)
(***************************************************************************)
EXTENDS Naturals

CONSTANTS
  Users, Invites,
  Txs,           \* connections, with one transaction each at a time
  MaxOps         \* bound: transactions a behaviour begins

VARIABLES
  member, account, invite,    \* rows of memberships, users and invites
  op, pc,                     \* the method of a transaction, and its next statement
  user, inv, to,              \* its arguments
  inserted,                   \* transactions whose insert made a membership
  overtaken,                  \* those whose target was made an owner after they read it
  ops

pgVars == <<member, account, invite, op, pc, user, inv, to, inserted, overtaken, ops>>
rows == <<member, account, invite>>
args == <<op, user, inv, to>>
marks == <<inserted, overtaken>>

S == INSTANCE MemberStore

None == "none"
Changes == S!Roles \cup {"disabled", "enabled", "removed"}

Changed(row, change) ==
  CASE change = "removed"  -> S!NoMember
    [] change = "disabled" -> [row EXCEPT !.off = TRUE]
    [] change = "enabled"  -> [row EXCEPT !.off = FALSE]
    [] OTHER               -> [row EXCEPT !.role = change]

\* A new organisation, or one whose users are all owners.
Init ==
  /\ account \in {{}, Users}
  /\ member = [u \in Users |-> IF u \in account THEN [role |-> "owner", off |-> FALSE] ELSE S!NoMember]
  /\ invite = {}
  /\ op = [t \in Txs |-> None] /\ pc = [t \in Txs |-> "idle"]
  /\ user = [t \in Txs |-> None] /\ inv = [t \in Txs |-> None] /\ to = [t \in Txs |-> None]
  /\ inserted = {} /\ overtaken = {} /\ ops = 0

TypeOK ==
  /\ member \in [Users -> S!Rows \cup {S!NoMember}]
  /\ account \subseteq Users /\ invite \subseteq Invites
  /\ op \in [Txs -> {None, "keep", "claim", "signup", "first"}]
  /\ pc \in [Txs -> {"idle", "lock", "read", "count", "write", "invite", "user", "insert", "join", "commit"}]
  /\ user \in [Txs -> Users \cup {None}] /\ inv \in [Txs -> Invites \cup {None}] /\ to \in [Txs -> Changes \cup {None}]
  /\ inserted \subseteq Txs /\ overtaken \subseteq Txs /\ ops \in 0 .. MaxOps

-----------------------------------------------------------------------------
(* Locks, which a transaction holds until it ends.                         *)

\* A mutant: the row of the organisation is not locked.
BugHoldsOrg(t) == FALSE

\* SELECT ... FROM orgs ... FOR UPDATE.
HoldsOrg(t) == op[t] = "keep" /\ pc[t] \in {"read", "count", "write", "commit"}

\* The foreign key of a new membership shares the row of the organisation.
SharesOrg(t) == t \in inserted

HoldsMember(t, u) == user[t] = u /\ pc[t] = "commit" /\ (op[t] = "keep" \/ t \in inserted)

HoldsInvite(t, i) == inv[t] = i /\ op[t] \in {"claim", "signup"} /\ pc[t] \in {"user", "insert", "commit"}

HoldsUser(t, u) == user[t] = u /\ op[t] = "signup" /\ pc[t] \in {"insert", "commit"}

Free(t, Holds(_)) == \A s \in Txs \ {t} : ~Holds(s)

Goto(t, next) == pc' = [pc EXCEPT ![t] = next] /\ UNCHANGED <<args, marks, ops>>

End(t) ==
  /\ op' = [op EXCEPT ![t] = None] /\ pc' = [pc EXCEPT ![t] = "idle"]
  /\ user' = [user EXCEPT ![t] = None] /\ inv' = [inv EXCEPT ![t] = None] /\ to' = [to EXCEPT ![t] = None]
  /\ inserted' = inserted \ {t} /\ overtaken' = overtaken \ {t}
  /\ UNCHANGED ops

Begin(t, method, first, u, i, change) ==
  /\ pc[t] = "idle" /\ ops < MaxOps /\ ops' = ops + 1
  /\ op' = [op EXCEPT ![t] = method] /\ pc' = [pc EXCEPT ![t] = first]
  /\ user' = [user EXCEPT ![t] = u] /\ inv' = [inv EXCEPT ![t] = i] /\ to' = [to EXCEPT ![t] = change]
  /\ UNCHANGED <<member, account, invite, marks>>

\* Fails, or is given up at its deadline, and is rolled back.
Rollback(t) == pc[t] # "idle" /\ End(t) /\ UNCHANGED rows

-----------------------------------------------------------------------------
(* DemoteOrRemoveMembershipKeepingOwner and SetMembershipDisabledKeepingOwner. *)

LockOrg(t) ==
  /\ pc[t] = "lock"
  /\ Free(t, HoldsOrg) /\ Free(t, SharesOrg)
  /\ Goto(t, "read") /\ UNCHANGED rows

\* An active owner ceases to be one, so that the other owners are counted.
EndsOwner(t) == S!ActiveOwner(user[t]) /\ to[t] \notin {"owner", "enabled"}

ReadTarget(t) ==
  /\ pc[t] = "read" /\ member[user[t]] # S!NoMember
  /\ Goto(t, IF EndsOwner(t) THEN "count" ELSE "write")
  /\ UNCHANGED rows

CountOwners(t) ==
  /\ pc[t] = "count"
  /\ \E v \in Users \ {user[t]} : S!ActiveOwner(v)
  /\ Goto(t, "write") /\ UNCHANGED rows

WriteMember(t) ==
  /\ pc[t] = "write"
  /\ Free(t, LAMBDA s : HoldsMember(s, user[t]))
  /\ Goto(t, "commit") /\ UNCHANGED rows

CommitKeep(t) ==
  /\ pc[t] = "commit" /\ op[t] = "keep"
  /\ member' = [member EXCEPT ![user[t]] = Changed(@, to[t])]
  /\ End(t) /\ UNCHANGED <<account, invite>>

-----------------------------------------------------------------------------
(* ClaimInviteCreatingMembership, CreateUserWithMembershipClaimingInvite.  *)

\* A mutant: the rows that the deletion met are not looked at.
BugTakeInvite(t) ==
  /\ pc[t] = "invite"
  /\ Goto(t, IF op[t] = "signup" THEN "user" ELSE "insert") /\ UNCHANGED rows

TakeInvite(t) ==
  /\ pc[t] = "invite"
  /\ Free(t, LAMBDA s : HoldsInvite(s, inv[t])) /\ inv[t] \in invite
  /\ Goto(t, IF op[t] = "signup" THEN "user" ELSE "insert") /\ UNCHANGED rows

InsertUser(t) ==
  /\ pc[t] = "user" /\ op[t] = "signup"
  /\ Free(t, LAMBDA s : HoldsUser(s, user[t])) /\ user[t] \notin account
  /\ Goto(t, "insert") /\ UNCHANGED rows

\* ON CONFLICT DO NOTHING, of a user who is a member; a new row refers to the organisation.
InsertMember(t) ==
  /\ pc[t] = "insert"
  /\ Free(t, LAMBDA s : HoldsMember(s, user[t]))
  /\ IF member[user[t]] = S!NoMember
     THEN Free(t, HoldsOrg) /\ inserted' = inserted \cup {t}
     ELSE UNCHANGED inserted
  /\ pc' = [pc EXCEPT ![t] = "commit"]
  /\ UNCHANGED <<rows, args, overtaken, ops>>

CommitClaim(t) ==
  /\ pc[t] = "commit" /\ op[t] \in {"claim", "signup"}
  /\ invite' = invite \ {inv[t]}
  /\ member' = IF t \in inserted THEN [member EXCEPT ![user[t]] = [role |-> to[t], off |-> FALSE]] ELSE member
  /\ account' = IF op[t] = "signup" THEN account \cup {user[t]} ELSE account
  /\ End(t)

-----------------------------------------------------------------------------
(* Single statements.                                                      *)

CreateInvite(i) ==
  /\ ops < MaxOps /\ ops' = ops + 1 /\ i \notin invite
  /\ invite' = invite \cup {i}
  /\ UNCHANGED <<member, account, pc, args, marks>>

DeleteInvite(i) ==
  /\ i \in invite /\ \A s \in Txs : ~HoldsInvite(s, i)
  /\ invite' = invite \ {i}
  /\ UNCHANGED <<member, account, pc, args, marks, ops>>

\* provisionNewUser of the first user: CreateUser, then CreateMembership of an owner.
CreateUser(t) ==
  /\ pc[t] = "user" /\ op[t] = "first"
  /\ Free(t, LAMBDA s : HoldsUser(s, user[t])) /\ user[t] \notin account
  /\ account' = account \cup {user[t]}
  /\ Goto(t, "join") /\ UNCHANGED <<member, invite>>

\* ON CONFLICT DO UPDATE: a member becomes an owner.  A transaction that has read the
\* member and is about to change it has not seen this.
CreateMembership(t) ==
  /\ pc[t] = "join"
  /\ Free(t, LAMBDA s : HoldsMember(s, user[t]))
  /\ member[user[t]] = S!NoMember => Free(t, HoldsOrg)
  /\ member' = [member EXCEPT ![user[t]].role = "owner"]
  /\ op' = [op EXCEPT ![t] = None] /\ pc' = [pc EXCEPT ![t] = "idle"]
  /\ user' = [user EXCEPT ![t] = None] /\ inv' = [inv EXCEPT ![t] = None] /\ to' = [to EXCEPT ![t] = None]
  /\ overtaken' = (overtaken \cup {s \in Txs \ {t} : pc[s] = "write" /\ user[s] = user[t]})
  /\ UNCHANGED <<account, invite, inserted, ops>>

-----------------------------------------------------------------------------
Begins(t) ==
  \E u \in Users :
    \/ \E change \in Changes : Begin(t, "keep", "lock", u, None, change)
    \/ u \notin account /\ (\A v \in Users : member[v].role # "owner") /\ Begin(t, "first", "user", u, None, None)
    \/ \E i \in invite, role \in S!Roles :
         \/ u \in account /\ Begin(t, "claim", "invite", u, i, role)
         \/ u \notin account /\ Begin(t, "signup", "invite", u, i, role)

Next ==
  \/ \E t \in Txs :
       \/ Begins(t) \/ Rollback(t)
       \/ LockOrg(t) \/ ReadTarget(t) \/ CountOwners(t) \/ WriteMember(t) \/ CommitKeep(t)
       \/ TakeInvite(t) \/ InsertUser(t) \/ InsertMember(t) \/ CommitClaim(t)
       \/ CreateUser(t) \/ CreateMembership(t)
  \/ \E i \in Invites : CreateInvite(i) \/ DeleteInvite(i)

Spec == Init /\ [][Next]_pgVars

-----------------------------------------------------------------------------
(* Properties.                                                             *)

\* What a transaction commits is a step that a store without concurrency takes, with the
\* last owner kept and an invite exchanged once (the methods ending in KeepingOwner, and
\* ClaimInvite).  The one exception is a change of a member who was made an owner, as the
\* first user of the organisation, between its SELECT and its UPDATE.
Atomic ==
  \/ S!Next \/ UNCHANGED rows
  \/ \E t \in overtaken : CommitKeep(t)

================================================================================
