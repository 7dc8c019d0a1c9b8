------------------------------ MODULE Membership ------------------------------
(***************************************************************************)
(* The members of one organisation: invites, sign-up, roles, disabled      *)
(* members, the members of one group and the dashboard sessions.  Every    *)
(* store call is one step, as SQLite runs it, so handlers interleave       *)
(* between their store calls.                                              *)
(*                                                                         *)
(* The server signs up by invitation: without an invite only an            *)
(* organisation that has no owner yet takes a new user.                    *)
(***************************************************************************)
EXTENDS Naturals

CONSTANTS
  Users,      \* people; a user's email address is the user
  Admin,      \* the caller that holds the admin key
  Invites,    \* invites that may be made
  Reqs,       \* requests to the control plane
  MaxOps      \* bound: requests a behaviour makes

Roles == {"owner", "admin", "member"}
None == "none"

VARIABLES
  account,   \* rows of users
  member,    \* rows of memberships
  invite,    \* rows of invites
  grouped,   \* user rows of group_members
  session,   \* users with a dashboard session for the organisation
  req,       \* the handlers under way
  ops,       \* requests made so far
  owned,     \* the organisation has had an active owner
  claims     \* memberships and accounts each invite was exchanged for

memVars == <<account, member, invite, grouped, session, req, ops, owned, claims>>

NoMember == [role |-> None, off |-> FALSE]
NoInvite == [st |-> "free", email |-> None, role |-> None]
Idle == [op |-> None, pc |-> "idle"]

RoleRank(role) == CASE role = "owner" -> 3 [] role = "admin" -> 2 [] role = "member" -> 1 [] OTHER -> 0

IsMember(u) == member[u] # NoMember
Active(u) == IsMember(u) /\ ~member[u].off
ActiveOwner(u) == Active(u) /\ member[u].role = "owner"

TypeOK ==
  /\ account \subseteq Users /\ grouped \subseteq Users /\ session \subseteq Users
  /\ member \in [Users -> {NoMember} \cup [role : Roles, off : BOOLEAN]]
  /\ invite \in [Invites -> {NoInvite} \cup [st : {"open", "gone"}, email : Users, role : Roles]]
  /\ ops \in 0 .. MaxOps /\ owned \in BOOLEAN
  /\ \A u \in Users : IsMember(u) => u \in account

\* A new organisation, or one whose users have all become owners, which has one
\* request less of the bound.
Init ==
  /\ account \in {{}, Users}
  /\ member = [u \in Users |-> IF u \in account THEN [role |-> "owner", off |-> FALSE] ELSE NoMember]
  /\ invite = [i \in Invites |-> NoInvite]
  /\ grouped = {} /\ session = account /\ req = [q \in Reqs |-> Idle]
  /\ ops = (IF account = {} THEN 0 ELSE 1) /\ owned = (account # {}) /\ claims = [i \in Invites |-> 0]

-----------------------------------------------------------------------------
(* The store.                                                              *)

\* Rows of memberships change, and with them whether there has been an owner.
Write(rows) ==
  /\ member' = rows
  /\ owned' = (owned \/ \E u \in Users : rows[u].role = "owner" /\ ~rows[u].off)

\* A mutant: disabled owners count as well.
BugLastOwner(u) ==
  ActiveOwner(u) /\ ~\E v \in Users \ {u} : member[v].role = "owner"

\* The count of other active owners in the transactions that keep one.
LastOwner(u) == ActiveOwner(u) /\ ~\E v \in Users \ {u} : ActiveOwner(v)

\* DemoteOrRemoveMembershipKeepingOwner and SetMembershipDisabledKeepingOwner.
KeepsOwner(u, row) ==
  /\ IsMember(u)
  /\ LastOwner(u) => row.role = "owner" /\ ~row.off
  /\ Write([member EXCEPT ![u] = row])

\* ClaimInviteCreatingMembership: the invite is deleted and the user becomes a
\* member, unless the user is one already.
Claim(i, u) ==
  /\ invite[i].st = "open"
  /\ invite' = [invite EXCEPT ![i].st = "gone"]
  /\ claims' = [claims EXCEPT ![i] = @ + 1]
  /\ Write(IF IsMember(u) THEN member
           ELSE [member EXCEPT ![u] = [role |-> invite[i].role, off |-> FALSE]])

-----------------------------------------------------------------------------
(* Requests.                                                               *)

At(q, pc) == req[q].pc = pc
Goto(q, pc) == req' = [req EXCEPT ![q].pc = pc]
End(q) == req' = [req EXCEPT ![q] = Idle]

\* lookupSession: the role of whoever calls, as it is when the request arrives.
CallerRole(c) ==
  IF c = Admin THEN "owner"
  ELSE IF c \in session /\ Active(c) THEN member[c].role ELSE None

CanGrant(rank, role) == RoleRank(role) \in 1 .. rank

Arrive(q, record) ==
  /\ At(q, "idle") /\ ops < MaxOps /\ ops' = ops + 1
  /\ req' = [req EXCEPT ![q] = record]

\* addMemberHandler.
CreateInvite(q, c, i, u, role) ==
  /\ At(q, "idle") /\ ops < MaxOps /\ ops' = ops + 1
  /\ RoleRank(CallerRole(c)) >= 2 /\ CanGrant(RoleRank(CallerRole(c)), role)
  /\ invite[i].st = "free"
  /\ invite' = [invite EXCEPT ![i] = [st |-> "open", email |-> u, role |-> role]]
  /\ UNCHANGED <<account, member, grouped, session, req, owned, claims>>

\* revokeInviteHandler, and the expiry of an invite.
DeleteInvite(i) ==
  /\ invite[i].st = "open"
  /\ invite' = [invite EXCEPT ![i].st = "gone"]
  /\ UNCHANGED <<account, member, grouped, session, req, ops, owned, claims>>

\* A user with an account presents an invite (acceptInviteHandler), or signs in
\* with a verified address that has one (redeemVerifiedEmailInvites).
LookupInvite(q, u, i) ==
  /\ u \in account /\ invite[i].st = "open" /\ invite[i].email = u
  /\ Arrive(q, [op |-> "accept", pc |-> "claim", user |-> u, inv |-> i])
  /\ UNCHANGED <<account, member, invite, grouped, session, owned, claims>>

AcceptInvite(q) ==
  /\ At(q, "claim") /\ req[q].op = "accept"
  /\ End(q)
  /\ \/ Claim(req[q].inv, req[q].user)
     \/ invite[req[q].inv].st = "gone" /\ UNCHANGED <<member, invite, owned, claims>>
  /\ UNCHANGED <<account, grouped, session, ops>>

\* registerHandler: the address is free, and the invite is read.
Register(q, u, i) ==
  /\ u \notin account
  /\ IF i = None THEN Arrive(q, [op |-> "register", pc |-> "owner", user |-> u])
     ELSE /\ invite[i].st = "open" /\ invite[i].email = u
          /\ Arrive(q, [op |-> "register", pc |-> "claim", user |-> u, inv |-> i])
  /\ UNCHANGED <<account, member, invite, grouped, session, owned, claims>>

\* CreateUserWithMembershipClaimingInvite: all of it or, when the address was
\* taken or the invite used meanwhile, nothing.
RegisterWithInvite(q) ==
  LET u == req[q].user  i == req[q].inv IN
  /\ At(q, "claim") /\ req[q].op = "register"
  /\ \/ /\ u \notin account /\ Claim(i, u)
        /\ account' = account \cup {u}
        /\ Goto(q, "session")
     \/ /\ u \in account \/ invite[i].st = "gone"
        /\ End(q)
        /\ UNCHANGED <<account, member, invite, owned, claims>>
  /\ UNCHANGED <<grouped, session, ops>>

\* provisionNewUser of the first user: hasDefaultOwner (a store error counts as
\* an owner), CreateUser, joinDefaultOrg.
HasDefaultOwner(q) ==
  /\ At(q, "owner")
  /\ \/ End(q)
     \/ (\A u \in Users : member[u].role # "owner") /\ Goto(q, "user")
  /\ UNCHANGED <<account, member, invite, grouped, session, ops, owned, claims>>

CreateUser(q) ==
  /\ At(q, "user")
  /\ IF req[q].user \in account THEN End(q) /\ UNCHANGED account
     ELSE Goto(q, "join") /\ account' = account \cup {req[q].user}
  /\ UNCHANGED <<member, invite, grouped, session, ops, owned, claims>>

\* CreateMembership overwrites the role of a member.
JoinDefaultOrg(q) ==
  /\ At(q, "join")
  /\ \/ /\ Write([member EXCEPT ![req[q].user].role = "owner"])
        /\ Goto(q, "session")
     \/ End(q) /\ UNCHANGED <<member, owned>>
  /\ UNCHANGED <<account, invite, grouped, session, ops, claims>>

\* primaryOrg and issueSession of a login, and of a registration that succeeded.
Login(q, u) ==
  /\ Active(u)
  /\ Arrive(q, [op |-> "login", pc |-> "issue", user |-> u])
  /\ UNCHANGED <<account, member, invite, grouped, session, owned, claims>>

PrimaryOrg(q) ==
  /\ At(q, "session")
  /\ IF Active(req[q].user) THEN Goto(q, "issue") ELSE End(q)
  /\ UNCHANGED <<account, member, invite, grouped, session, ops, owned, claims>>

IssueSession(q) ==
  /\ At(q, "issue") /\ End(q)
  /\ session' = session \cup {req[q].user}
  /\ UNCHANGED <<account, member, invite, grouped, ops, owned, claims>>

Logout(u) ==
  /\ u \in session /\ session' = session \ {u}
  /\ UNCHANGED <<account, member, invite, grouped, req, ops, owned, claims>>

-----------------------------------------------------------------------------
(* Changes of a member.                                                    *)

\* updateMemberHandler: the first read of the target, with the checks of the
\* request against it.  A change that the target already has is not made.
UpdateMember(q, c, u, role, off) ==
  LET rank == RoleRank(CallerRole(c)) IN
  /\ rank >= 2 /\ IsMember(u)
  /\ role # None => CanGrant(rank, role)
  /\ off = "yes" /\ ~member[u].off => c # u
  /\ role # None \/ off # None
  /\ Arrive(q, [op |-> "update", pc |-> "authorize", user |-> u, rank |-> rank,
                role |-> IF role = member[u].role THEN None ELSE role,
                off |-> IF off = (IF member[u].off THEN "yes" ELSE "no") THEN None ELSE off])
  /\ UNCHANGED <<account, member, invite, grouped, session, owned, claims>>

RemoveMember(q, c, u) ==
  LET rank == RoleRank(CallerRole(c)) IN
  /\ rank >= 2
  /\ Arrive(q, [op |-> "remove", pc |-> "authorize", user |-> u, rank |-> rank])
  /\ UNCHANGED <<account, member, invite, grouped, session, owned, claims>>

\* What follows of an update: the role, then the disabling.
Then(q, done) ==
  IF done = "none" /\ req[q].role # None THEN "role"
  ELSE IF done # "disable" /\ req[q].off # None THEN "disable" ELSE "idle"

\* authorizeMemberChange reads the target again.
Authorize(q) ==
  /\ At(q, "authorize")
  /\ IF IsMember(req[q].user) /\ RoleRank(member[req[q].user].role) <= req[q].rank
     THEN IF req[q].op = "remove" THEN Goto(q, "remove")
          ELSE IF Then(q, "none") = "idle" THEN End(q) ELSE Goto(q, Then(q, "none"))
     ELSE End(q)
  /\ UNCHANGED <<account, member, invite, grouped, session, ops, owned, claims>>

ChangeRole(q) ==
  LET u == req[q].user IN
  /\ At(q, "role")
  /\ \/ /\ KeepsOwner(u, [member[u] EXCEPT !.role = req[q].role])
        /\ IF Then(q, "role") = "idle" THEN End(q) ELSE Goto(q, "disable")
     \/ /\ ~IsMember(u) \/ (LastOwner(u) /\ req[q].role # "owner")
        /\ End(q) /\ UNCHANGED <<member, owned>>
  /\ UNCHANGED <<account, invite, grouped, session, ops, claims>>

SetDisabled(q) ==
  LET u == req[q].user  off == req[q].off = "yes" IN
  /\ At(q, "disable")
  /\ \/ /\ KeepsOwner(u, [member[u] EXCEPT !.off = off])
        /\ IF off THEN Goto(q, "revoke") ELSE End(q)
     \/ /\ ~IsMember(u) \/ (LastOwner(u) /\ off)
        /\ End(q) /\ UNCHANGED <<member, owned>>
  /\ UNCHANGED <<account, invite, grouped, session, ops, claims>>

\* The membership goes, and its rows in groups with it.
Remove(q) ==
  LET u == req[q].user IN
  /\ At(q, "remove")
  /\ \/ /\ KeepsOwner(u, NoMember)
        /\ grouped' = grouped \ {u}
        /\ Goto(q, "revoke")
     \/ /\ ~IsMember(u) \/ LastOwner(u)
        /\ End(q) /\ UNCHANGED <<member, owned, grouped>>
  /\ UNCHANGED <<account, invite, session, ops, claims>>

\* revokeMemberAccess; an error is answered and not tried again.
RevokeAccess(q) ==
  /\ At(q, "revoke") /\ End(q)
  /\ session' \in {session, session \ {req[q].user}}
  /\ UNCHANGED <<account, member, invite, grouped, ops, owned, claims>>

\* addGroupMemberHandler reads the membership and then adds the row.
AddGroupMember(q, u) ==
  /\ IsMember(u)
  /\ Arrive(q, [op |-> "group", pc |-> "add", user |-> u])
  /\ UNCHANGED <<account, member, invite, grouped, session, owned, claims>>

InsertGroupMember(q) ==
  /\ At(q, "add") /\ End(q)
  /\ grouped' = grouped \cup {req[q].user}
  /\ UNCHANGED <<account, member, invite, session, ops, owned, claims>>

RemoveGroupMember(u) ==
  /\ u \in grouped /\ grouped' = grouped \ {u}
  /\ UNCHANGED <<account, member, invite, session, req, ops, owned, claims>>

-----------------------------------------------------------------------------
Callers == Users \cup {Admin}

Arrives(q) ==
  \/ \E u \in Users :
       \/ Register(q, u, None) \/ Login(q, u) \/ AddGroupMember(q, u)
       \/ \E i \in Invites : Register(q, u, i) \/ LookupInvite(q, u, i)
       \/ \E c \in Callers :
            \/ RemoveMember(q, c, u)
            \/ \E role \in Roles, i \in Invites : CreateInvite(q, c, i, u, role)
            \/ \E role \in Roles \cup {None}, off \in {None, "yes", "no"} :
                 UpdateMember(q, c, u, role, off)

Next ==
  \/ \E q \in Reqs :
       \/ Arrives(q)
       \/ AcceptInvite(q) \/ RegisterWithInvite(q) \/ HasDefaultOwner(q) \/ CreateUser(q)
       \/ JoinDefaultOrg(q) \/ PrimaryOrg(q) \/ IssueSession(q)
       \/ Authorize(q) \/ ChangeRole(q) \/ SetDisabled(q) \/ Remove(q) \/ RevokeAccess(q)
       \/ InsertGroupMember(q)
  \/ \E i \in Invites : DeleteInvite(i)
  \/ \E u \in Users : Logout(u) \/ RemoveGroupMember(u)

Spec == Init /\ [][Next]_memVars

-----------------------------------------------------------------------------
(* Properties.                                                             *)

S == INSTANCE MemberStore WITH invite <- {i \in Invites : invite[i].st = "open"}

\* The handlers change the rows of the store by its calls alone, one call in a step
\* (the methods of the SQLite store that end in KeepingOwner, and ClaimInvite).
StoreSteps == S!Next \/ UNCHANGED <<member, account, invite>>

\* Once an organisation has an active owner it always has one, whatever demotions,
\* removals and disablings overlap: each reads the other owners in the transaction
\* that changes the row (the KeepingOwner methods of the stores).
OwnerKept == owned => \E u \in Users : ActiveOwner(u)

\* An invite makes at most one member, however many requests present it and
\* whether or not it is revoked meanwhile (ClaimInviteCreatingMembership).
InviteSpentOnce == \A i \in Invites : claims[i] <= 1
===============================================================================
