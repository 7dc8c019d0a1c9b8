---------------------------- MODULE IdentityProofs ----------------------------
(***************************************************************************)
(* Proofs about the members of an organisation, and about the one-time     *)
(* codes of their logins.                                                  *)
(*                                                                         *)
(* An organisation that has had an active owner has one, for every set of  *)
(* users, invites and requests.  The invariant needs the shape of the rows *)
(* and of the requests under way (Shape): a request acts on a user it has  *)
(* read, and it writes a role.  What it has read of that user may be out   *)
(* of date; only the transaction that changes a row goes by the rows as    *)
(* they are.  No invite is claimed twice (Spent: a claim closes the        *)
(* invite, and no step opens it again), and every step of a handler is a   *)
(* call of the store's interface or none of its business (Standing: a      *)
(* member, and a user a request acts for, has an account).                 *)
(*                                                                         *)
(* A login is given one session at most, for every set of calls: its code, *)
(* its grant, the calls that have taken one of them and the sessions given *)
(* add up to one (LoginSound).                                             *)
(***************************************************************************)
EXTENDS Membership, TLAPS

Made == [st : {"open", "gone"}, email : Users, role : Roles]
AnyRow == S!Rows \cup {NoMember}
AnyInvite == Made \cup {NoInvite}

\* Requests by what they carry.
Plain == [op : {"register", "login", "group"},
          pc : {"owner", "user", "join", "session", "issue", "add"}, user : Users]
Inviting == [op : {"accept", "register"}, pc : {"claim", "session", "issue"}, user : Users, inv : Invites]
Removing == [op : {"remove"}, pc : {"authorize", "remove", "revoke"}, user : Users, rank : 0 .. 3]
Updating == [op : {"update"}, pc : {"authorize", "role", "disable", "revoke"}, user : Users, rank : 0 .. 3,
             role : Roles \cup {None}, off : {None, "yes", "no"}]

AnyReq == {Idle} \cup Plain \cup Inviting \cup Removing \cup Updating

Shape ==
  /\ member \in [Users -> AnyRow]
  /\ invite \in [Invites -> AnyInvite]
  /\ req \in [Reqs -> AnyReq]

\* What a request has made sure of and nobody undoes: an account stays.
Fit(r, accounts) ==
  /\ r.pc = "role" => r.role \in Roles
  /\ r.pc = "join" \/ r.op = "accept" => r.user \in accounts

Standing ==
  /\ \A u \in Users : IsMember(u) => u \in account
  /\ \A q \in Reqs : Fit(req[q], account)

MembershipInv == Shape /\ OwnerKept

-----------------------------------------------------------------------------

\* What the steps that follow the arrival of a request know of it.
LEMMA Carried ==
  ASSUME Shape, NEW q \in Reqs
  PROVE  /\ req[q].pc # "idle" => req[q].user \in Users
         /\ req[q].pc = "claim" => req[q] \in Inviting
         /\ req[q].pc \in {"owner", "user", "join", "add"} => req[q] \in Plain
         /\ req[q].pc \in {"session", "issue"} => req[q] \in Plain \cup Inviting
         /\ req[q].pc = "authorize" => req[q] \in Removing \cup Updating
         /\ req[q].pc = "remove" => req[q] \in Removing
         /\ req[q].pc \in {"role", "disable"} => req[q] \in Updating
         /\ req[q].pc = "revoke" => req[q] \in Removing \cup Updating
<1>1. req[q] \in {Idle} \cup Plain \cup Inviting \cup Removing \cup Updating
  BY Zenon DEF Shape, AnyReq
<1>2. CASE req[q] = Idle
  BY <1>2 DEF Idle
<1>3. CASE req[q] \in Plain
  BY <1>3 DEF Plain
<1>4. CASE req[q] \in Inviting
  BY <1>4 DEF Inviting
<1>5. CASE req[q] \in Removing
  BY <1>5 DEF Removing
<1>6. CASE req[q] \in Updating
  BY <1>6 DEF Updating
<1> QED BY Zenon, <1>1, <1>2, <1>3, <1>4, <1>5, <1>6


\* The next stage of a request that carries what that stage needs.
LEMMA GotoShape ==
  ASSUME Shape, NEW q \in Reqs, NEW stage, Goto(q, stage),
         \/ req[q] \in Plain /\ stage \in {"user", "join", "session", "issue"}
         \/ req[q] \in Inviting /\ stage \in {"session", "issue"}
         \/ req[q] \in Removing /\ stage \in {"remove", "revoke"}
         \/ req[q] \in Updating /\ stage \in {"role", "disable", "revoke"}
  PROVE  req' \in [Reqs -> AnyReq]
<1>1. [req[q] EXCEPT !.pc = stage] \in AnyReq
  <2>1. CASE req[q] \in Plain /\ stage \in {"user", "join", "session", "issue"}
    BY <2>1 DEF Plain, AnyReq
  <2>2. CASE req[q] \in Inviting /\ stage \in {"session", "issue"}
    BY <2>2 DEF Inviting, AnyReq
  <2>3. CASE req[q] \in Removing /\ stage \in {"remove", "revoke"}
    BY <2>3 DEF Removing, AnyReq
  <2>4. CASE req[q] \in Updating /\ stage \in {"role", "disable", "revoke"}
    BY <2>4 DEF Updating, AnyReq
  <2> QED BY Zenon, <2>1, <2>2, <2>3, <2>4
<1> QED BY Zenon, <1>1 DEF Goto, Shape

\* A request that ends leaves the requests well-formed.
LEMMA EndShape ==
  ASSUME Shape, NEW q \in Reqs, End(q)
  PROVE  req' \in [Reqs -> AnyReq]
BY Zenon DEF End, Shape, AnyReq

\* A request that arrives is well-formed.
LEMMA ArriveShape ==
  ASSUME Shape, NEW q \in Reqs, NEW r \in Plain \cup Inviting \cup Removing \cup Updating, Arrive(q, r)
  PROVE  req' \in [Reqs -> AnyReq]
BY Zenon DEF Arrive, Shape, AnyReq

\* RoleRank is one of the four ranks.
LEMMA RankIsRank == ASSUME NEW role PROVE RoleRank(role) \in 0 .. 3
BY DEF RoleRank

\* An arrival is a request of one of these forms.
LEMMA ArrivesShape ==
  ASSUME Shape, NEW q \in Reqs, Arrives(q)
  PROVE  Shape' /\ UNCHANGED <<member, owned>>
<1>1. ASSUME NEW u \in Users, Register(q, u, None) PROVE Shape' /\ UNCHANGED <<member, owned>>
  <2>1. [op |-> "register", pc |-> "owner", user |-> u] \in Plain
    BY DEF Plain
  <2> QED BY Zenon, <1>1, <2>1, ArriveShape DEF Register, Shape
<1>2. ASSUME NEW u \in Users, Login(q, u) PROVE Shape' /\ UNCHANGED <<member, owned>>
  <2>1. [op |-> "login", pc |-> "issue", user |-> u] \in Plain
    BY DEF Plain
  <2> QED BY Zenon, <1>2, <2>1, ArriveShape DEF Login, Shape
<1>3. ASSUME NEW u \in Users, AddGroupMember(q, u) PROVE Shape' /\ UNCHANGED <<member, owned>>
  <2>1. [op |-> "group", pc |-> "add", user |-> u] \in Plain
    BY DEF Plain
  <2> QED BY Zenon, <1>3, <2>1, ArriveShape DEF AddGroupMember, Shape
<1>4. ASSUME NEW u \in Users, NEW i \in Invites, Register(q, u, i) PROVE Shape' /\ UNCHANGED <<member, owned>>
  <2>1. [op |-> "register", pc |-> "claim", user |-> u, inv |-> i] \in Inviting
    BY DEF Inviting
  <2>2. [op |-> "register", pc |-> "owner", user |-> u] \in Plain
    BY DEF Plain
  <2> QED BY Zenon, <1>4, <2>1, <2>2, ArriveShape DEF Register, Shape
<1>5. ASSUME NEW u \in Users, NEW i \in Invites, LookupInvite(q, u, i) PROVE Shape' /\ UNCHANGED <<member, owned>>
  <2>1. [op |-> "accept", pc |-> "claim", user |-> u, inv |-> i] \in Inviting
    BY DEF Inviting
  <2> QED BY Zenon, <1>5, <2>1, ArriveShape DEF LookupInvite, Shape
<1>6. ASSUME NEW u \in Users, NEW c, RemoveMember(q, c, u) PROVE Shape' /\ UNCHANGED <<member, owned>>
  <2>1. [op |-> "remove", pc |-> "authorize", user |-> u, rank |-> RoleRank(CallerRole(c))] \in Removing
    BY RankIsRank DEF Removing
  <2> QED BY Zenon, <1>6, <2>1, ArriveShape DEF RemoveMember, Shape
<1>7. ASSUME NEW u \in Users, NEW c, NEW i \in Invites, NEW role \in Roles, CreateInvite(q, c, i, u, role)
      PROVE  Shape' /\ UNCHANGED <<member, owned>>
  <2>1. [st |-> "open", email |-> u, role |-> role] \in AnyInvite
    BY DEF AnyInvite, Made
  <2> QED BY Zenon, <1>7, <2>1 DEF CreateInvite, Shape
<1>8. ASSUME NEW u \in Users, NEW c, NEW role \in Roles \cup {None}, NEW off \in {None, "yes", "no"},
             UpdateMember(q, c, u, role, off)
      PROVE  Shape' /\ UNCHANGED <<member, owned>>
  <2>1. \A p \in Roles \cup {None}, o \in {None, "yes", "no"} :
          [op |-> "update", pc |-> "authorize", user |-> u, rank |-> RoleRank(CallerRole(c)), role |-> p, off |-> o]
            \in Updating
    BY RankIsRank DEF Updating
  <2>2. None \in Roles \cup {None} /\ None \in {None, "yes", "no"}
    BY Zenon
  <2> QED BY Zenon, <1>8, <2>1, <2>2, ArriveShape DEF UpdateMember, Shape
<1> QED BY Zenon, <1>1, <1>2, <1>3, <1>4, <1>5, <1>6, <1>7, <1>8 DEF Arrives

\* Rows that keep an active owner, if there was one, keep the invariant.
LEMMA WriteKeeps ==
  ASSUME NEW rows, rows \in [Users -> AnyRow], Write(rows), OwnerKept,
         (\E u \in Users : ActiveOwner(u)) => \E u \in Users : rows[u].role = "owner" /\ ~rows[u].off
  PROVE  member' \in [Users -> AnyRow] /\ OwnerKept'
<1>1. \A u \in Users : rows[u].role = "owner" => rows[u] # NoMember
  BY DEF NoMember, None
<1> QED BY Zenon, <1>1 DEF Write, OwnerKept, ActiveOwner, Active, IsMember

\* Whoever leaves the rows alone keeps the owner.
LEMMA NoChangeKeeps ==
  ASSUME OwnerKept, UNCHANGED <<member, owned>>
  PROVE  OwnerKept'
BY Zenon DEF OwnerKept, ActiveOwner, Active, IsMember

\* A transaction that keeps an owner.
LEMMA KeepsOwnerKeeps ==
  ASSUME MembershipInv, NEW u \in Users, NEW row \in AnyRow, KeepsOwner(u, row)
  PROVE  member' \in [Users -> AnyRow] /\ OwnerKept'
<1> DEFINE rows == [member EXCEPT ![u] = row]
<1>1. rows \in [Users -> AnyRow] /\ rows[u] = row /\ \A v \in Users \ {u} : rows[v] = member[v]
  BY Zenon DEF MembershipInv, Shape
<1>2. Write(rows) /\ (LastOwner(u) => row.role = "owner" /\ ~row.off)
  BY Zenon DEF KeepsOwner
<1>3. ASSUME NEW v \in Users, ActiveOwner(v)
      PROVE  \E w \in Users : rows[w].role = "owner" /\ ~rows[w].off
  <2>1. CASE LastOwner(u)
    BY Zenon, <1>1, <1>2, <2>1
  <2>2. CASE ~LastOwner(u)
    <3>1. \E w \in Users \ {u} : ActiveOwner(w)
      BY Zenon, <1>3, <2>2 DEF LastOwner
    <3> QED BY Zenon, <1>1, <3>1 DEF ActiveOwner, Active
  <2> QED BY Zenon, <2>1, <2>2
<1> HIDE DEF rows
<1> QED BY Zenon, <1>1, <1>2, <1>3, WriteKeeps DEF MembershipInv

\* An invite that is open has an address and a role.
LEMMA OpenIsMade ==
  ASSUME Shape, NEW i \in Invites, invite[i].st = "open"
  PROVE  invite[i] \in Made
<1>1. invite[i] \in Made \cup {NoInvite}
  BY Zenon DEF Shape, AnyInvite
<1>2. NoInvite.st # "open"
  BY DEF NoInvite
<1> QED BY Zenon, <1>1, <1>2

\* A claim changes the row of somebody who is no member.
LEMMA ClaimKeeps ==
  ASSUME MembershipInv, NEW i \in Invites, NEW u \in Users, Claim(i, u)
  PROVE  member' \in [Users -> AnyRow] /\ invite' \in [Invites -> AnyInvite] /\ OwnerKept'
<1>1. invite[i] \in Made
  BY Zenon, OpenIsMade DEF MembershipInv, Claim
<1>2. [role |-> invite[i].role, off |-> FALSE] \in AnyRow /\ [invite[i] EXCEPT !.st = "gone"] \in AnyInvite
  <2>1. invite[i].role \in Roles /\ [invite[i] EXCEPT !.st = "gone"] \in Made
    BY <1>1 DEF Made
  <2> QED BY <2>1 DEF AnyInvite, AnyRow, S!Rows, S!Roles, Roles
<1>3. invite' \in [Invites -> AnyInvite]
  BY Zenon, <1>2 DEF Claim, MembershipInv, Shape
<1> DEFINE rows == IF IsMember(u) THEN member ELSE [member EXCEPT ![u] = [role |-> invite[i].role, off |-> FALSE]]
<1>4. rows \in [Users -> AnyRow] /\ Write(rows)
  BY Zenon, <1>2 DEF Claim, MembershipInv, Shape
<1>5. ASSUME NEW v \in Users, ActiveOwner(v)
      PROVE  \E w \in Users : rows[w].role = "owner" /\ ~rows[w].off
  <2>1. rows[v] = member[v]
    BY Zenon, <1>5 DEF MembershipInv, Shape, ActiveOwner, Active
  <2> QED BY Zenon, <1>5, <2>1 DEF ActiveOwner, Active
<1> HIDE DEF rows
<1> QED BY Zenon, <1>3, <1>4, <1>5, WriteKeeps DEF MembershipInv

\* A row with the role of an owner.
LEMMA OwnerRow ==
  ASSUME NEW old \in AnyRow
  PROVE  LET row == [old EXCEPT !.role = "owner"]
         IN  row \in S!Rows /\ row.role = "owner" /\ row.off = old.off
<1> DEFINE row == [old EXCEPT !.role = "owner"]
<1>1. old \in [role : Roles \cup {None}, off : BOOLEAN]
  <2>1. NoMember \in [role : Roles \cup {None}, off : BOOLEAN]
    BY DEF NoMember
  <2>2. \A r \in S!Rows : r \in [role : Roles \cup {None}, off : BOOLEAN]
    BY DEF S!Rows, S!Roles, Roles
  <2> QED BY Zenon, <2>1, <2>2 DEF AnyRow
<1>2. row.role = "owner" /\ row.off = old.off /\ row \in S!Rows
  BY <1>1 DEF S!Rows, S!Roles
<1> QED BY Zenon, <1>2

\* The first user becomes an owner; nobody else's row changes.
LEMMA JoinKeeps ==
  ASSUME MembershipInv, NEW u \in Users, Write([member EXCEPT ![u].role = "owner"])
  PROVE  member' \in [Users -> AnyRow] /\ OwnerKept'
<1> DEFINE row == [member[u] EXCEPT !.role = "owner"]
           rows == [member EXCEPT ![u] = row]
<1>0. member[u] \in AnyRow
  BY Zenon DEF MembershipInv, Shape
<1>1. row \in AnyRow /\ row.role = "owner" /\ row.off = member[u].off
  BY Zenon, <1>0, OwnerRow DEF AnyRow
<1> HIDE DEF row
<1>2. rows \in [Users -> AnyRow] /\ rows[u] = row /\ \A v \in Users \ {u} : rows[v] = member[v]
  BY Zenon, <1>1 DEF MembershipInv, Shape
<1>3. Write(rows)
  BY Zenon DEF row
<1>4. ASSUME NEW v \in Users, ActiveOwner(v)
      PROVE  \E w \in Users : rows[w].role = "owner" /\ ~rows[w].off
  <2>1. CASE v = u
    BY Zenon, <1>1, <1>2, <1>4, <2>1 DEF ActiveOwner, Active
  <2>2. CASE v # u
    BY Zenon, <1>2, <1>4, <2>2 DEF ActiveOwner, Active
  <2> QED BY Zenon, <2>1, <2>2
<1> HIDE DEF rows
<1> QED BY Zenon, <1>2, <1>3, <1>4, WriteKeeps DEF MembershipInv

\* A step that leaves the rows alone and moves a request on, or ends it.
LEMMA QuietKeeps ==
  ASSUME MembershipInv, UNCHANGED <<member, owned>>,
         invite' \in [Invites -> AnyInvite], req' \in [Reqs -> AnyReq]
  PROVE  MembershipInv'
BY Zenon, NoChangeKeeps DEF MembershipInv, Shape

\* The steps of signing up and signing in.
LEMMA SignUpKeeps ==
  ASSUME MembershipInv, NEW q \in Reqs,
         \/ AcceptInvite(q) \/ RegisterWithInvite(q) \/ HasDefaultOwner(q) \/ CreateUser(q)
         \/ JoinDefaultOrg(q) \/ PrimaryOrg(q) \/ IssueSession(q)
  PROVE  MembershipInv'
<1> USE DEF MembershipInv
<1>0. Shape /\ invite \in [Invites -> AnyInvite]
  BY Zenon DEF Shape
<1>a. req[q] \in Inviting => req[q].user \in Users /\ req[q].inv \in Invites
  BY DEF Inviting
<1>b. req[q] \in Plain => req[q].user \in Users
  BY DEF Plain
<1>1. CASE AcceptInvite(q)
  <2>1. req[q] \in Inviting /\ req' \in [Reqs -> AnyReq]
    BY Zenon, <1>0, <1>1, Carried, EndShape DEF AcceptInvite, At
  <2>2. CASE Claim(req[q].inv, req[q].user)
    BY Zenon, <1>a, <2>1, <2>2, ClaimKeeps DEF Shape
  <2>3. CASE UNCHANGED <<member, invite, owned, claims>>
    BY Zenon, <1>0, <2>1, <2>3, QuietKeeps
  <2> QED BY Zenon, <1>1, <2>2, <2>3 DEF AcceptInvite
<1>2. CASE RegisterWithInvite(q)
  <2>1. req[q] \in Inviting
    BY Zenon, <1>0, <1>2, Carried DEF RegisterWithInvite, At
  <2>2. CASE Claim(req[q].inv, req[q].user) /\ Goto(q, "session")
    <3>1. req' \in [Reqs -> AnyReq]
      BY <1>0, <2>1, <2>2, GotoShape
    <3> QED BY Zenon, <1>a, <2>1, <2>2, <3>1, ClaimKeeps DEF Shape
  <2>3. CASE End(q) /\ UNCHANGED <<account, member, invite, owned, claims>>
    BY Zenon, <1>0, <2>3, EndShape, QuietKeeps
  <2> QED BY Zenon, <1>2, <2>2, <2>3 DEF RegisterWithInvite
<1>3. CASE HasDefaultOwner(q)
  <2>1. req[q] \in Plain /\ UNCHANGED <<member, invite, owned>>
    BY Zenon, <1>0, <1>3, Carried DEF HasDefaultOwner, At
  <2>2. CASE End(q)
    BY Zenon, <1>0, <2>1, <2>2, EndShape, QuietKeeps
  <2>3. CASE Goto(q, "user")
    <3>1. req' \in [Reqs -> AnyReq]
      BY <1>0, <2>1, <2>3, GotoShape
    <3> QED BY Zenon, <1>0, <2>1, <3>1, QuietKeeps
  <2> QED BY Zenon, <1>3, <2>2, <2>3 DEF HasDefaultOwner
<1>4. CASE CreateUser(q)
  <2>1. req[q] \in Plain /\ UNCHANGED <<member, invite, owned>>
    BY Zenon, <1>0, <1>4, Carried DEF CreateUser, At
  <2>2. CASE End(q)
    BY Zenon, <1>0, <2>1, <2>2, EndShape, QuietKeeps
  <2>3. CASE Goto(q, "join")
    <3>1. req' \in [Reqs -> AnyReq]
      BY <1>0, <2>1, <2>3, GotoShape
    <3> QED BY Zenon, <1>0, <2>1, <3>1, QuietKeeps
  <2> QED BY Zenon, <1>4, <2>2, <2>3 DEF CreateUser
<1>5. CASE JoinDefaultOrg(q)
  <2>1. req[q] \in Plain /\ UNCHANGED invite
    BY Zenon, <1>0, <1>5, Carried DEF JoinDefaultOrg, At
  <2>2. CASE Write([member EXCEPT ![req[q].user].role = "owner"]) /\ Goto(q, "session")
    <3>1. req' \in [Reqs -> AnyReq]
      BY <1>0, <2>1, <2>2, GotoShape
    <3> QED BY Zenon, <1>0, <1>b, <2>1, <2>2, <3>1, JoinKeeps DEF Shape
  <2>3. CASE End(q) /\ UNCHANGED <<member, owned>>
    BY Zenon, <1>0, <2>1, <2>3, EndShape, QuietKeeps
  <2> QED BY Zenon, <1>5, <2>2, <2>3 DEF JoinDefaultOrg
<1>6. CASE PrimaryOrg(q)
  <2>1. req[q] \in Plain \cup Inviting /\ UNCHANGED <<member, invite, owned>>
    BY Zenon, <1>0, <1>6, Carried DEF PrimaryOrg, At
  <2>2. CASE End(q)
    BY Zenon, <1>0, <2>1, <2>2, EndShape, QuietKeeps
  <2>3. CASE Goto(q, "issue")
    <3>1. req' \in [Reqs -> AnyReq]
      BY <1>0, <2>1, <2>3, GotoShape
    <3> QED BY Zenon, <1>0, <2>1, <3>1, QuietKeeps
  <2> QED BY Zenon, <1>6, <2>2, <2>3 DEF PrimaryOrg
<1>7. CASE IssueSession(q)
  BY Zenon, <1>0, <1>7, EndShape, QuietKeeps DEF IssueSession
<1> QED BY Zenon, <1>1, <1>2, <1>3, <1>4, <1>5, <1>6, <1>7

\* The steps that change a member.
LEMMA ChangeKeeps ==
  ASSUME MembershipInv, Standing, NEW q \in Reqs,
         Authorize(q) \/ ChangeRole(q) \/ SetDisabled(q) \/ Remove(q) \/ RevokeAccess(q) \/ InsertGroupMember(q)
  PROVE  MembershipInv'
<1> USE DEF MembershipInv
<1>0. Shape /\ invite \in [Invites -> AnyInvite] /\ \A u \in Users : member[u] \in AnyRow
  BY Zenon DEF Shape
<1>a. req[q] \in Updating => req[q].user \in Users
  BY DEF Updating
<1>b. req[q] \in Removing => req[q].user \in Users /\ req[q].op = "remove"
  BY DEF Removing
<1>c. req[q] \in Updating => req[q].op # "remove"
  BY DEF Updating
<1>d. \A row \in S!Rows : /\ \A role \in Roles : [row EXCEPT !.role = role] \in S!Rows
                          /\ \A off \in BOOLEAN : [row EXCEPT !.off = off] \in S!Rows
  BY DEF S!Rows, S!Roles, Roles
<1>e. NoMember \in AnyRow /\ S!Rows \subseteq AnyRow
  BY Zenon DEF AnyRow
<1>1. CASE Authorize(q)
  <2>1. req[q] \in Removing \cup Updating /\ UNCHANGED <<member, invite, owned>>
    BY Zenon, <1>0, <1>1, Carried DEF Authorize, At
  <2>2. CASE End(q)
    BY Zenon, <1>0, <2>1, <2>2, EndShape, QuietKeeps
  <2>3. CASE req[q].op = "remove" /\ Goto(q, "remove")
    <3>1. req' \in [Reqs -> AnyReq]
      BY <1>0, <1>c, <2>1, <2>3, GotoShape
    <3> QED BY Zenon, <1>0, <2>1, <3>1, QuietKeeps
  <2>4. CASE req[q].op # "remove" /\ Then(q, "none") # "idle" /\ Goto(q, Then(q, "none"))
    <3>1. Then(q, "none") \in {"role", "disable"}
      BY <2>4 DEF Then
    <3>2. req' \in [Reqs -> AnyReq]
      BY <1>0, <1>b, <2>1, <2>4, <3>1, GotoShape
    <3> QED BY Zenon, <1>0, <2>1, <3>2, QuietKeeps
  <2> QED BY Zenon, <1>1, <2>2, <2>3, <2>4 DEF Authorize
<1>2. CASE ChangeRole(q)
  <2>1. req[q] \in Updating /\ UNCHANGED invite
    BY Zenon, <1>0, <1>2, Carried DEF ChangeRole, At
  <2>2. CASE End(q) /\ UNCHANGED <<member, owned>>
    BY Zenon, <1>0, <2>1, <2>2, EndShape, QuietKeeps
  <2>3. CASE /\ KeepsOwner(req[q].user, [member[req[q].user] EXCEPT !.role = req[q].role])
             /\ End(q) \/ Goto(q, "disable")
    <3>1. req' \in [Reqs -> AnyReq]
      BY <1>0, <2>1, <2>3, GotoShape, EndShape
    <3>2. member[req[q].user] \in S!Rows /\ req[q].role \in Roles
      BY Zenon, <1>0, <1>2, <1>a, <2>1, <2>3 DEF AnyRow, KeepsOwner, IsMember, Standing, Fit, ChangeRole, At
    <3>3. [member[req[q].user] EXCEPT !.role = req[q].role] \in AnyRow
      BY Zenon, <1>d, <1>e, <3>2
    <3> QED BY Zenon, <1>0, <1>a, <2>1, <2>3, <3>1, <3>3, KeepsOwnerKeeps DEF Shape
  <2> QED BY Zenon, <1>2, <2>2, <2>3 DEF ChangeRole
<1>3. CASE SetDisabled(q)
  <2>1. req[q] \in Updating /\ UNCHANGED invite
    BY Zenon, <1>0, <1>3, Carried DEF SetDisabled, At
  <2>2. CASE End(q) /\ UNCHANGED <<member, owned>>
    BY Zenon, <1>0, <2>1, <2>2, EndShape, QuietKeeps
  <2>3. CASE /\ KeepsOwner(req[q].user, [member[req[q].user] EXCEPT !.off = (req[q].off = "yes")])
             /\ Goto(q, "revoke") \/ End(q)
    <3>1. req' \in [Reqs -> AnyReq]
      BY <1>0, <2>1, <2>3, GotoShape, EndShape
    <3>2. (req[q].off = "yes") \in BOOLEAN
      BY Zenon
    <3>3. member[req[q].user] \in S!Rows
      BY Zenon, <1>0, <1>a, <2>1, <2>3 DEF AnyRow, KeepsOwner, IsMember
    <3>4. [member[req[q].user] EXCEPT !.off = (req[q].off = "yes")] \in AnyRow
      BY Zenon, <1>d, <1>e, <3>2, <3>3
    <3> QED BY Zenon, <1>0, <1>a, <2>1, <2>3, <3>1, <3>4, KeepsOwnerKeeps DEF Shape
  <2> QED BY Zenon, <1>3, <2>2, <2>3 DEF SetDisabled
<1>4. CASE Remove(q)
  <2>1. req[q] \in Removing /\ UNCHANGED invite
    BY Zenon, <1>0, <1>4, Carried DEF Remove, At
  <2>2. CASE End(q) /\ UNCHANGED <<member, owned>>
    BY Zenon, <1>0, <2>1, <2>2, EndShape, QuietKeeps
  <2>3. CASE KeepsOwner(req[q].user, NoMember) /\ Goto(q, "revoke")
    <3>1. req' \in [Reqs -> AnyReq]
      BY <1>0, <2>1, <2>3, GotoShape
    <3> QED BY Zenon, <1>0, <1>b, <1>e, <2>1, <2>3, <3>1, KeepsOwnerKeeps DEF Shape
  <2> QED BY Zenon, <1>4, <2>2, <2>3 DEF Remove
<1>5. CASE RevokeAccess(q)
  BY Zenon, <1>0, <1>5, EndShape, QuietKeeps DEF RevokeAccess
<1>6. CASE InsertGroupMember(q)
  BY Zenon, <1>0, <1>6, EndShape, QuietKeeps DEF InsertGroupMember
<1> QED BY Zenon, <1>1, <1>2, <1>3, <1>4, <1>5, <1>6

\* The invariant holds at the start.
LEMMA InitMembership == ASSUME Init PROVE MembershipInv
<1>1. [role |-> "owner", off |-> FALSE] \in AnyRow /\ NoMember \in AnyRow /\ NoInvite \in AnyInvite
  BY DEF AnyRow, AnyInvite, S!Rows, S!Roles
<1>2. Shape
  BY Zenon, <1>1 DEF Init, Shape, AnyReq
<1>3. OwnerKept
  <2>1. ASSUME NEW u \in account PROVE u \in Users /\ ActiveOwner(u)
    <3>1. u \in Users /\ member[u] = [role |-> "owner", off |-> FALSE]
      BY Zenon, <2>1 DEF Init
    <3> QED BY <3>1 DEF ActiveOwner, Active, IsMember, NoMember, None
  <2> QED BY Zenon, <2>1 DEF Init, OwnerKept
<1> QED BY Zenon, <1>2, <1>3 DEF MembershipInv

\* Every step keeps the shape of the rows and an active owner.
LEMMA MembershipStep == ASSUME MembershipInv, Standing, [Next]_memVars PROVE MembershipInv'
<1>1. ASSUME NEW q \in Reqs, Arrives(q) PROVE MembershipInv'
  BY Zenon, <1>1, ArrivesShape, NoChangeKeeps DEF MembershipInv
<1>2. ASSUME NEW i \in Invites, DeleteInvite(i) PROVE MembershipInv'
  <2>1. invite[i] \in Made
    BY Zenon, <1>2, OpenIsMade DEF MembershipInv, DeleteInvite
  <2>2. [invite[i] EXCEPT !.st = "gone"] \in AnyInvite
    BY <2>1 DEF AnyInvite, Made
  <2>3. invite' \in [Invites -> AnyInvite] /\ req' \in [Reqs -> AnyReq]
    BY Zenon, <1>2, <2>2 DEF DeleteInvite, MembershipInv, Shape
  <2> QED BY Zenon, <1>2, <2>3, QuietKeeps DEF DeleteInvite
<1>3. ASSUME NEW u \in Users, Logout(u) \/ RemoveGroupMember(u) PROVE MembershipInv'
  BY Zenon, <1>3, QuietKeeps DEF Logout, RemoveGroupMember, MembershipInv, Shape
<1>4. ASSUME UNCHANGED memVars PROVE MembershipInv'
  BY Zenon, <1>4, QuietKeeps DEF memVars, MembershipInv, Shape
<1> QED BY Zenon, <1>1, <1>2, <1>3, <1>4, SignUpKeeps, ChangeKeeps DEF Next

-----------------------------------------------------------------------------

\* A request is replaced by one that is fit, and the accounts grow.
LEMMA FitMoves ==
  ASSUME Shape, Standing, account \subseteq account', NEW q \in Reqs, NEW r, req' = [req EXCEPT ![q] = r],
         Fit(r, account')
  PROVE  \A p \in Reqs : Fit(req'[p], account')
<1> SUFFICES ASSUME NEW p \in Reqs PROVE Fit(req'[p], account')
  BY Zenon
<1>1. CASE p = q
  BY Zenon, <1>1 DEF Shape
<1>2. CASE p # q
  <2>1. req'[p] = req[p] /\ Fit(req[p], account)
    BY Zenon, <1>2 DEF Shape, Standing
  <2> QED BY Zenon, <2>1 DEF Fit
<1> QED BY Zenon, <1>1, <1>2

\* A request that ends asks nothing of the accounts.
LEMMA FitEnd ==
  ASSUME Shape, Standing, account \subseteq account', NEW q \in Reqs, End(q)
  PROVE  \A p \in Reqs : Fit(req'[p], account')
<1>1. Fit(Idle, account')
  BY DEF Fit, Idle, None
<1> QED BY Zenon, <1>1, FitMoves DEF End

\* A request that goes on has what its next step needs.
LEMMA FitGoto ==
  ASSUME Shape, Standing, account \subseteq account', NEW q \in Reqs, NEW stage, Goto(q, stage),
         req[q].pc # "idle",
         stage = "role" => req[q].role \in Roles, stage = "join" => req[q].user \in account'
  PROVE  \A p \in Reqs : Fit(req'[p], account')
<1> DEFINE r == [req[q] EXCEPT !.pc = stage]
<1>1. req[q] \in Plain \cup Inviting \cup Removing \cup Updating
  <2>1. req[q] \in AnyReq
    BY Zenon DEF Shape
  <2>2. Idle.pc = "idle"
    BY DEF Idle
  <2> QED BY Zenon, <2>1, <2>2 DEF AnyReq
<1>2. r.pc = stage /\ r.op = req[q].op /\ r.user = req[q].user
  <2>1. CASE req[q] \in Plain BY <2>1 DEF Plain
  <2>2. CASE req[q] \in Inviting BY <2>2 DEF Inviting
  <2>3. CASE req[q] \in Removing BY <2>3 DEF Removing
  <2>4. CASE req[q] \in Updating BY <2>4 DEF Updating
  <2> QED BY Zenon, <1>1, <2>1, <2>2, <2>3, <2>4
<1>3. r.role = req[q].role
  BY DEF r
<1> HIDE DEF r
<1>4. Fit(r, account')
  BY Zenon, <1>2, <1>3 DEF Fit, Standing
<1> QED BY Zenon, <1>4, FitMoves DEF Goto, r

\* The step of a request that arrives is fit, and changes no row of a member.
LEMMA ArrivesStanding ==
  ASSUME MembershipInv, Standing, NEW q \in Reqs, Arrives(q)
  PROVE  UNCHANGED account /\ \A p \in Reqs : Fit(req'[p], account')
<1>0. Shape /\ Standing
  BY Zenon DEF MembershipInv
<1>1. ASSUME NEW r, Arrive(q, r), r.pc # "role", r.pc # "join", r.op # "accept", UNCHANGED account
      PROVE  \A p \in Reqs : Fit(req'[p], account')
  BY Zenon, <1>0, <1>1, FitMoves DEF Arrive, Fit
<1> DEFINE Goal == UNCHANGED account /\ \A p \in Reqs : Fit(req'[p], account')
<1>2. ASSUME NEW u \in Users, Register(q, u, None) \/ (\E i \in Invites : Register(q, u, i)) PROVE Goal
  <2> DEFINE Asking(r) == r.pc # "role" /\ r.pc # "join" /\ r.op # "accept"
  <2>1. /\ Asking([op |-> "register", pc |-> "owner", user |-> u])
        /\ \A i : Asking([op |-> "register", pc |-> "claim", user |-> u, inv |-> i])
    BY SMT
  <2> QED BY Zenon, <1>1, <1>2, <2>1 DEF Register
<1>3. ASSUME NEW u \in Users, Login(q, u) PROVE Goal
  <2> DEFINE r == [op |-> "login", pc |-> "issue", user |-> u]
  <2>1. r.pc # "role" /\ r.pc # "join" /\ r.op # "accept" BY SMT
  <2>2. Arrive(q, r) /\ UNCHANGED account BY Zenon, <1>3 DEF Login
  <2> HIDE DEF r
  <2> QED BY Zenon, <1>1, <2>1, <2>2
<1>4. ASSUME NEW u \in Users, AddGroupMember(q, u) PROVE Goal
  <2> DEFINE r == [op |-> "group", pc |-> "add", user |-> u]
  <2>1. r.pc # "role" /\ r.pc # "join" /\ r.op # "accept" BY SMT
  <2>2. Arrive(q, r) /\ UNCHANGED account BY Zenon, <1>4 DEF AddGroupMember
  <2> HIDE DEF r
  <2> QED BY Zenon, <1>1, <2>1, <2>2
<1>5. ASSUME NEW u \in Users, NEW c, RemoveMember(q, c, u) PROVE Goal
  <2> DEFINE r == [op |-> "remove", pc |-> "authorize", user |-> u, rank |-> RoleRank(CallerRole(c))]
  <2>1. r.pc # "role" /\ r.pc # "join" /\ r.op # "accept" BY SMT
  <2>2. Arrive(q, r) /\ UNCHANGED account BY Zenon, <1>5 DEF RemoveMember
  <2> HIDE DEF r
  <2> QED BY Zenon, <1>1, <2>1, <2>2
<1>6. ASSUME NEW u \in Users, NEW c, NEW role, NEW off, UpdateMember(q, c, u, role, off) PROVE Goal
  <2> DEFINE r == [op |-> "update", pc |-> "authorize", user |-> u, rank |-> RoleRank(CallerRole(c)),
                   role |-> IF role = member[u].role THEN None ELSE role,
                   off |-> IF off = (IF member[u].off THEN "yes" ELSE "no") THEN None ELSE off]
  <2>1. r.pc # "role" /\ r.pc # "join" /\ r.op # "accept" BY SMT
  <2>2. Arrive(q, r) /\ UNCHANGED account BY Zenon, <1>6 DEF UpdateMember
  <2> HIDE DEF r
  <2> QED BY Zenon, <1>1, <2>1, <2>2
<1>7. ASSUME NEW u \in Users, NEW i \in Invites, LookupInvite(q, u, i) PROVE Goal
  <2> DEFINE r == [op |-> "accept", pc |-> "claim", user |-> u, inv |-> i]
  <2>1. r.pc # "role" /\ r.user = u BY SMT
  <2>2. req' = [req EXCEPT ![q] = r] /\ UNCHANGED account /\ u \in account BY Zenon, <1>7 DEF LookupInvite, Arrive
  <2> HIDE DEF r
  <2>3. Fit(r, account') BY Zenon, <2>1, <2>2 DEF Fit
  <2> QED BY Zenon, <1>0, <2>2, <2>3, FitMoves
<1>8. ASSUME NEW u \in Users, NEW c, NEW i, NEW role, CreateInvite(q, c, i, u, role) PROVE Goal
  BY Zenon, <1>0, <1>8 DEF CreateInvite, Standing
<1> HIDE DEF Goal
<1>9. Goal
  BY Zenon, <1>2, <1>3, <1>4, <1>5, <1>6, <1>7, <1>8 DEF Arrives
<1> QED BY Zenon, <1>9 DEF Goal

-----------------------------------------------------------------------------
(* The store's calls.                                                      *)

Members == \A u \in Users : IsMember(u) => u \in account

\* The handlers and the store mean the same by a row, a role and an owner.
LEMMA SameNotions ==
  /\ NoMember = S!NoMember /\ Roles = S!Roles
  /\ \A u : ActiveOwner(u) <=> S!ActiveOwner(u)
  /\ \A u : LastOwner(u) <=> S!LastOwner(u)
<1>1. NoMember = S!NoMember /\ Roles = S!Roles
  BY DEF NoMember, S!NoMember, None, Roles, S!Roles
<1>2. NoMember.role # "owner"
  BY DEF NoMember, None
<1>3. \A u : ActiveOwner(u) <=> S!ActiveOwner(u)
  BY Zenon, <1>2 DEF ActiveOwner, Active, IsMember, S!ActiveOwner
<1> QED BY Zenon, <1>1, <1>3 DEF LastOwner, S!LastOwner

\* A claim is a call that exchanges the invite, or one that deletes it.
LEMMA ClaimIsCall ==
  ASSUME MembershipInv, Members, NEW i \in Invites, NEW u \in Users, Claim(i, u),
         account' = account \cup {u}, IsMember(u) => account' = account
  PROVE  StoreSteps /\ Members'
<1>1. invite[i] \in Made
  BY Zenon, OpenIsMade DEF MembershipInv, Claim
<1>2. invite[i].role \in Roles /\ [invite[i] EXCEPT !.st = "gone"].st # "open"
  BY <1>1 DEF Made
<1> DEFINE open == {j \in Invites : invite[j].st = "open"}
<1>3. i \in open /\ open' = open \ {i}
  BY Zenon, <1>2 DEF Claim, MembershipInv, Shape
<1>4. member' = IF IsMember(u) THEN member ELSE [member EXCEPT ![u] = [role |-> invite[i].role, off |-> FALSE]]
  BY Zenon DEF Claim, Write
<1>5. Members'
  BY Zenon, <1>4 DEF Members, IsMember, MembershipInv, Shape
<1>6. CASE IsMember(u)
  <2>1. S!DeleteInvite(i)
    BY Zenon, <1>3, <1>4, <1>6 DEF S!DeleteInvite
  <2> QED BY Zenon, <1>5, <2>1 DEF StoreSteps, S!Next
<1>7. CASE ~IsMember(u)
  <2>1. PICK role \in S!Roles : role = invite[i].role
    BY Zenon, <1>2, SameNotions
  <2>2. S!ClaimInvite(i, u, role)
    BY Zenon, <1>3, <1>4, <1>7, <2>1, SameNotions DEF S!ClaimInvite, IsMember
  <2> QED BY Zenon, <1>5, <2>2 DEF StoreSteps, S!Next
<1> QED BY Zenon, <1>6, <1>7

\* A transaction that keeps an owner is a call of the store.
LEMMA KeepIsCall ==
  ASSUME MembershipInv, Members, NEW u \in Users, NEW row \in AnyRow, KeepsOwner(u, row), UNCHANGED <<account, invite>>
  PROVE  StoreSteps /\ Members'
<1>1. member' = [member EXCEPT ![u] = row] /\ IsMember(u)
  BY Zenon DEF KeepsOwner, Write
<1>2. S!KeepOwner(u, row)
  BY Zenon, <1>1, SameNotions DEF S!KeepOwner, KeepsOwner, IsMember
<1>3. Members'
  BY Zenon, <1>1 DEF Members, IsMember, MembershipInv, Shape
<1> QED BY Zenon, <1>2, <1>3, SameNotions DEF StoreSteps, S!Next, AnyRow

\* The ownership of the first user is a call of the store.
LEMMA JoinIsCall ==
  ASSUME MembershipInv, Members, NEW u \in Users, u \in account, UNCHANGED <<account, invite>>,
         Write([member EXCEPT ![u].role = "owner"])
  PROVE  StoreSteps /\ Members'
<1>1. member' = [member EXCEPT ![u].role = "owner"]
  BY Zenon DEF Write
<1>2. S!CreateMembership(u)
  BY Zenon, <1>1 DEF S!CreateMembership
<1>3. Members'
  BY Zenon, <1>1 DEF Members, IsMember, MembershipInv, Shape
<1> QED BY Zenon, <1>2, <1>3 DEF StoreSteps, S!Next

\* A step that changes no row.
LEMMA NoCall ==
  ASSUME Members, UNCHANGED <<member, account, invite>>
  PROVE  StoreSteps /\ Members'
BY Zenon DEF StoreSteps, Members, IsMember

\* The steps of signing up and signing in.
LEMMA SignUpCalls ==
  ASSUME MembershipInv, Standing, NEW q \in Reqs,
         \/ AcceptInvite(q) \/ RegisterWithInvite(q) \/ HasDefaultOwner(q) \/ CreateUser(q)
         \/ JoinDefaultOrg(q) \/ PrimaryOrg(q) \/ IssueSession(q)
  PROVE  StoreSteps /\ Standing'
<1>0. Shape /\ Members /\ (Standing' <=> Members' /\ \A p \in Reqs : Fit(req'[p], account'))
  BY Zenon DEF MembershipInv, Standing, Members
<1>a. req[q].pc = "claim" => req[q].user \in Users /\ req[q].inv \in Invites
  <2>1. req[q] \in Inviting => req[q].user \in Users /\ req[q].inv \in Invites
    BY DEF Inviting
  <2> QED BY Zenon, <1>0, <2>1, Carried
<1>b. req[q].pc # "idle" => req[q].user \in Users
  BY Zenon, <1>0, Carried
<1>c. Fit(req[q], account)
  BY Zenon DEF Standing
<1>d. account \subseteq account /\ account \subseteq account \cup {req[q].user}
  BY Zenon
<1>1. CASE AcceptInvite(q)
  <2>1. req[q].user \in account /\ account' = account /\ account' = account \cup {req[q].user} /\ End(q)
    BY Zenon, <1>1, <1>c DEF AcceptInvite, Fit
  <2>2. \A p \in Reqs : Fit(req'[p], account')
    BY Zenon, <1>0, <1>d, <2>1, FitEnd
  <2>3. CASE Claim(req[q].inv, req[q].user)
    BY Zenon, <1>0, <1>1, <1>a, <2>1, <2>2, <2>3, ClaimIsCall DEF AcceptInvite, At
  <2>4. CASE UNCHANGED <<member, invite, owned, claims>>
    BY Zenon, <1>0, <2>1, <2>2, <2>4, NoCall
  <2> QED BY Zenon, <1>1, <2>3, <2>4 DEF AcceptInvite
<1>2. CASE RegisterWithInvite(q)
  <2>1. CASE /\ req[q].user \notin account /\ Claim(req[q].inv, req[q].user)
             /\ account' = account \cup {req[q].user} /\ Goto(q, "session")
    <3>1. \A p \in Reqs : Fit(req'[p], account')
      BY <1>0, <1>2, <1>d, <2>1, FitGoto DEF RegisterWithInvite, At
    <3>2. ~IsMember(req[q].user)
      BY Zenon, <1>0, <1>2, <1>a, <2>1 DEF Members, RegisterWithInvite, At
    <3> QED BY Zenon, <1>0, <1>2, <1>a, <2>1, <3>1, <3>2, ClaimIsCall DEF RegisterWithInvite, At
  <2>2. CASE End(q) /\ UNCHANGED <<account, member, invite, owned, claims>>
    BY Zenon, <1>0, <1>d, <2>2, FitEnd, NoCall
  <2> QED BY Zenon, <1>2, <2>1, <2>2 DEF RegisterWithInvite
<1>3. CASE HasDefaultOwner(q)
  <2>1. req[q].pc # "idle" /\ (End(q) \/ Goto(q, "user")) /\ UNCHANGED <<account, member, invite>>
    BY <1>3 DEF HasDefaultOwner, At
  <2>2. \A p \in Reqs : Fit(req'[p], account')
    BY <1>0, <1>d, <2>1, FitEnd, FitGoto
  <2> QED BY Zenon, <1>0, <2>1, <2>2, NoCall
<1>4. CASE CreateUser(q)
  <2>0. req[q].pc # "idle" /\ UNCHANGED <<member, invite>>
    BY <1>4 DEF CreateUser, At
  <2>1. CASE End(q) /\ UNCHANGED account
    BY Zenon, <1>0, <1>d, <2>0, <2>1, FitEnd, NoCall
  <2>2. CASE Goto(q, "join") /\ account' = account \cup {req[q].user}
    <3>1. \A p \in Reqs : Fit(req'[p], account')
      BY <1>0, <1>d, <2>0, <2>2, FitGoto
    <3>2. S!CreateUser(req[q].user)
      BY Zenon, <2>0, <2>2 DEF S!CreateUser
    <3>3. Members'
      BY Zenon, <1>0, <2>0, <2>2 DEF Members, IsMember
    <3> QED BY Zenon, <1>0, <1>b, <2>0, <3>1, <3>2, <3>3 DEF StoreSteps, S!Next
  <2> QED BY Zenon, <1>4, <2>1, <2>2 DEF CreateUser
<1>5. CASE JoinDefaultOrg(q)
  <2>0. req[q].pc # "idle" /\ req[q].user \in account /\ UNCHANGED <<account, invite>>
    BY <1>5, <1>c DEF JoinDefaultOrg, At, Fit
  <2>1. CASE Write([member EXCEPT ![req[q].user].role = "owner"]) /\ Goto(q, "session")
    <3>1. \A p \in Reqs : Fit(req'[p], account')
      BY <1>0, <1>d, <2>0, <2>1, FitGoto
    <3> QED BY Zenon, <1>0, <1>b, <2>0, <2>1, <3>1, JoinIsCall
  <2>2. CASE End(q) /\ UNCHANGED <<member, owned>>
    BY Zenon, <1>0, <1>d, <2>0, <2>2, FitEnd, NoCall
  <2> QED BY Zenon, <1>5, <2>1, <2>2 DEF JoinDefaultOrg
<1>6. CASE PrimaryOrg(q)
  <2>1. req[q].pc # "idle" /\ (End(q) \/ Goto(q, "issue")) /\ UNCHANGED <<account, member, invite>>
    BY <1>6 DEF PrimaryOrg, At
  <2>2. \A p \in Reqs : Fit(req'[p], account')
    BY <1>0, <1>d, <2>1, FitEnd, FitGoto
  <2> QED BY Zenon, <1>0, <2>1, <2>2, NoCall
<1>7. CASE IssueSession(q)
  BY Zenon, <1>0, <1>7, <1>d, FitEnd, NoCall DEF IssueSession
<1> QED BY Zenon, <1>1, <1>2, <1>3, <1>4, <1>5, <1>6, <1>7

\* The steps that change a member.
LEMMA ChangeCalls ==
  ASSUME MembershipInv, Standing, NEW q \in Reqs,
         Authorize(q) \/ ChangeRole(q) \/ SetDisabled(q) \/ Remove(q) \/ RevokeAccess(q) \/ InsertGroupMember(q)
  PROVE  StoreSteps /\ Standing'
<1>0. Shape /\ Members /\ (Standing' <=> Members' /\ \A p \in Reqs : Fit(req'[p], account'))
  BY Zenon DEF MembershipInv, Standing, Members
<1>a. req[q].pc \in {"role", "disable", "remove"} => req[q].user \in Users /\ member[req[q].user] \in AnyRow
  BY <1>0, Carried DEF Shape
<1>b. Fit(req[q], account) /\ account \subseteq account
  BY Zenon DEF Standing
<1>c. \A row \in S!Rows : /\ \A role \in Roles : [row EXCEPT !.role = role] \in AnyRow
                          /\ \A off \in BOOLEAN : [row EXCEPT !.off = off] \in AnyRow
  BY DEF S!Rows, S!Roles, Roles, AnyRow
<1>1. CASE Authorize(q)
  <2>0. req[q].pc = "authorize" /\ UNCHANGED <<account, member, invite>>
    BY Zenon, <1>1 DEF Authorize, At
  <2>1. CASE End(q)
    BY Zenon, <1>0, <1>b, <2>0, <2>1, FitEnd, NoCall
  <2>2. CASE Goto(q, "remove")
    <3>1. \A p \in Reqs : Fit(req'[p], account')
      BY <1>0, <1>b, <2>0, <2>2, FitGoto
    <3> QED BY Zenon, <1>0, <2>0, <3>1, NoCall
  <2>3. CASE req[q].op # "remove" /\ Then(q, "none") # "idle" /\ Goto(q, Then(q, "none"))
    <3>0. req[q] \in Updating
      <4>1. req[q] \in Removing => req[q].op = "remove"
        BY DEF Removing
      <4> QED BY Zenon, <1>0, <2>0, <2>3, <4>1, Carried
    <3>1. req[q].role \in Roles \cup {None}
      BY <3>0 DEF Updating
    <3>2. Then(q, "none") \in {"role", "disable"} /\ (Then(q, "none") = "role" => req[q].role \in Roles)
      BY <2>3, <3>1 DEF Then
    <3>3. PICK stage \in {"role", "disable"} : stage = Then(q, "none")
      BY Zenon, <3>2
    <3>4. Goto(q, stage)
      BY Zenon, <2>3, <3>3
    <3>5. \A p \in Reqs : Fit(req'[p], account')
      BY <1>0, <1>b, <2>0, <3>2, <3>3, <3>4, FitGoto
    <3> QED BY Zenon, <1>0, <2>0, <3>5, NoCall
  <2> QED BY Zenon, <1>1, <2>1, <2>2, <2>3 DEF Authorize
<1>2. CASE ChangeRole(q)
  <2>0. req[q].pc = "role" /\ req[q].role \in Roles /\ req[q].user \in Users /\ UNCHANGED <<account, invite>>
    BY Zenon, <1>2, <1>a, <1>b DEF ChangeRole, At, Fit
  <2>1. CASE End(q) /\ UNCHANGED <<member, owned>>
    BY Zenon, <1>0, <1>b, <2>0, <2>1, FitEnd, NoCall
  <2>2. CASE /\ KeepsOwner(req[q].user, [member[req[q].user] EXCEPT !.role = req[q].role])
             /\ End(q) \/ Goto(q, "disable")
    <3>1. \A p \in Reqs : Fit(req'[p], account')
      BY <1>0, <1>b, <2>0, <2>2, FitEnd, FitGoto
    <3>2. member[req[q].user] \in S!Rows
      BY Zenon, <1>a, <2>0, <2>2 DEF AnyRow, KeepsOwner, IsMember
    <3>3. PICK u \in Users, row \in AnyRow : u = req[q].user /\ row = [member[req[q].user] EXCEPT !.role = req[q].role]
      BY Zenon, <1>c, <2>0, <3>2
    <3>4. KeepsOwner(u, row)
      BY Zenon, <2>2, <3>3
    <3> QED BY Zenon, <1>0, <2>0, <3>1, <3>4, KeepIsCall
  <2> QED BY Zenon, <1>2, <2>1, <2>2 DEF ChangeRole
<1>3. CASE SetDisabled(q)
  <2>0. req[q].pc = "disable" /\ req[q].user \in Users /\ UNCHANGED <<account, invite>>
    BY Zenon, <1>3, <1>a DEF SetDisabled, At
  <2>1. CASE End(q) /\ UNCHANGED <<member, owned>>
    BY Zenon, <1>0, <1>b, <2>0, <2>1, FitEnd, NoCall
  <2>2. CASE /\ KeepsOwner(req[q].user, [member[req[q].user] EXCEPT !.off = (req[q].off = "yes")])
             /\ Goto(q, "revoke") \/ End(q)
    <3>1. \A p \in Reqs : Fit(req'[p], account')
      BY <1>0, <1>b, <2>0, <2>2, FitEnd, FitGoto
    <3>2. member[req[q].user] \in S!Rows /\ (req[q].off = "yes") \in BOOLEAN
      BY Zenon, <1>a, <2>0, <2>2 DEF AnyRow, KeepsOwner, IsMember
    <3>3. PICK u \in Users, row \in AnyRow :
            u = req[q].user /\ row = [member[req[q].user] EXCEPT !.off = (req[q].off = "yes")]
      BY Zenon, <1>c, <2>0, <3>2
    <3>4. KeepsOwner(u, row)
      BY Zenon, <2>2, <3>3
    <3> QED BY Zenon, <1>0, <2>0, <3>1, <3>4, KeepIsCall
  <2> QED BY Zenon, <1>3, <2>1, <2>2 DEF SetDisabled
<1>4. CASE Remove(q)
  <2>0. req[q].pc = "remove" /\ req[q].user \in Users /\ UNCHANGED <<account, invite>>
    BY Zenon, <1>4, <1>a DEF Remove, At
  <2>1. CASE End(q) /\ UNCHANGED <<member, owned>>
    BY Zenon, <1>0, <1>b, <2>0, <2>1, FitEnd, NoCall
  <2>2. CASE KeepsOwner(req[q].user, NoMember) /\ Goto(q, "revoke")
    <3>1. \A p \in Reqs : Fit(req'[p], account')
      BY <1>0, <1>b, <2>0, <2>2, FitGoto
    <3>2. NoMember \in AnyRow
      BY Zenon DEF AnyRow
    <3> QED BY Zenon, <1>0, <2>0, <2>2, <3>1, <3>2, KeepIsCall
  <2> QED BY Zenon, <1>4, <2>1, <2>2 DEF Remove
<1>5. CASE RevokeAccess(q)
  BY Zenon, <1>0, <1>5, <1>b, FitEnd, NoCall DEF RevokeAccess
<1>6. CASE InsertGroupMember(q)
  BY Zenon, <1>0, <1>6, <1>b, FitEnd, NoCall DEF InsertGroupMember
<1> QED BY Zenon, <1>1, <1>2, <1>3, <1>4, <1>5, <1>6

\* A request that arrives makes an invite, or changes no row.
LEMMA ArrivesCalls ==
  ASSUME MembershipInv, Standing, NEW q \in Reqs, Arrives(q)
  PROVE  StoreSteps /\ Standing'
<1>1. UNCHANGED account /\ \A p \in Reqs : Fit(req'[p], account')
  BY Zenon, ArrivesStanding
<1>2. Members /\ (Standing' <=> Members' /\ \A p \in Reqs : Fit(req'[p], account'))
  BY Zenon DEF Standing, Members
<1>3. CASE UNCHANGED <<member, invite>>
  BY Zenon, <1>1, <1>2, <1>3, NoCall
<1>4. ASSUME NEW c, NEW i \in Invites, NEW u \in Users, NEW role, CreateInvite(q, c, i, u, role)
      PROVE  StoreSteps /\ Standing'
  <2>1. invite' = [invite EXCEPT ![i] = [st |-> "open", email |-> u, role |-> role]] /\ member' = member
    BY Zenon, <1>4 DEF CreateInvite
  <2>2. [st |-> "open", email |-> u, role |-> role].st = "open"
    BY SMT
  <2> DEFINE open == {j \in Invites : invite[j].st = "open"}
  <2>3. open' = open \cup {i}
    BY Zenon, <2>1, <2>2 DEF MembershipInv, Shape
  <2>4. S!CreateInvite(i)
    BY Zenon, <1>1, <2>1, <2>3 DEF S!CreateInvite
  <2>5. Members'
    BY Zenon, <1>1, <1>2, <2>1 DEF Members, IsMember
  <2> QED BY Zenon, <1>1, <1>2, <2>4, <2>5 DEF StoreSteps, S!Next
<1> QED BY Zenon, <1>3, <1>4 DEF Arrives, Register, Login, AddGroupMember, LookupInvite, RemoveMember, UpdateMember

\* The handlers change the rows by calls of the store.
LEMMA CallStep ==
  ASSUME MembershipInv, Standing, [Next]_memVars
  PROVE  Standing' /\ [StoreSteps]_memVars
<1>1. Members /\ (Standing' <=> Members' /\ \A p \in Reqs : Fit(req'[p], account'))
  BY Zenon DEF Standing, Members
<1>2. CASE UNCHANGED <<member, account, invite, req>>
  BY Zenon, <1>1, <1>2, NoCall DEF Standing
<1>3. ASSUME NEW i \in Invites, DeleteInvite(i) PROVE StoreSteps /\ Standing'
  <2>1. invite' = [invite EXCEPT ![i].st = "gone"] /\ UNCHANGED <<member, account, req>>
    BY Zenon, <1>3 DEF DeleteInvite
  <2>2. invite[i] \in Made
    BY Zenon, <1>3, OpenIsMade DEF MembershipInv, DeleteInvite
  <2>3. [invite[i] EXCEPT !.st = "gone"].st # "open"
    BY <2>2 DEF Made
  <2> DEFINE open == {j \in Invites : invite[j].st = "open"}
  <2>4. open' = open \ {i}
    BY Zenon, <2>1, <2>3 DEF MembershipInv, Shape
  <2>5. S!DeleteInvite(i)
    BY Zenon, <2>1, <2>4 DEF S!DeleteInvite
  <2>6. Standing'
    BY Zenon, <2>1 DEF Standing, IsMember
  <2> QED BY Zenon, <2>5, <2>6 DEF StoreSteps, S!Next
<1>4. ASSUME NEW u \in Users, Logout(u) \/ RemoveGroupMember(u) PROVE UNCHANGED <<member, account, invite, req>>
  BY Zenon, <1>4 DEF Logout, RemoveGroupMember
<1>5. ASSUME UNCHANGED memVars PROVE UNCHANGED <<member, account, invite, req>>
  BY Zenon, <1>5 DEF memVars
<1> QED BY Zenon, <1>2, <1>3, <1>4, <1>5, ArrivesCalls, SignUpCalls, ChangeCalls DEF Next

\* Nobody is a member without an account at the start.
LEMMA InitStanding == ASSUME Init PROVE Standing
<1>1. \A u \in Users : IsMember(u) => u \in account
  BY Zenon DEF Init, IsMember
<1>2. \A q \in Reqs : req[q] = Idle
  BY Zenon DEF Init
<1>3. Fit(Idle, account)
  BY DEF Fit, Idle, None
<1> QED BY Zenon, <1>1, <1>2, <1>3 DEF Standing

-----------------------------------------------------------------------------

\* An invite that may still be exchanged has not been.
Spent ==
  /\ claims \in [Invites -> 0 .. 1]
  /\ \A i \in Invites : invite[i].st # "gone" => claims[i] = 0

\* A claim closes the invite it counts.
LEMMA ClaimSpends ==
  ASSUME Shape, Spent, NEW i \in Invites, NEW u, Claim(i, u)
  PROVE  Spent'
<1>1. invite' = [invite EXCEPT ![i].st = "gone"] /\ claims' = [claims EXCEPT ![i] = claims[i] + 1] /\ invite[i].st = "open"
  BY Zenon DEF Claim
<1>2. invite[i] \in Made
  BY Zenon, <1>1, OpenIsMade
<1>3. [invite[i] EXCEPT !.st = "gone"].st = "gone"
  BY <1>2 DEF Made
<1>4. claims[i] = 0
  BY <1>1 DEF Spent
<1>5. claims[i] + 1 \in 0 .. 1
  BY <1>4
<1>6. claims' \in [Invites -> 0 .. 1]
  BY Zenon, <1>1, <1>5 DEF Spent
<1>7. ASSUME NEW j \in Invites, invite'[j].st # "gone" PROVE claims'[j] = 0
  <2>1. j # i
    BY Zenon, <1>1, <1>3, <1>7 DEF Shape
  <2> QED BY Zenon, <1>1, <1>7, <2>1 DEF Spent, Shape
<1> QED BY Zenon, <1>6, <1>7 DEF Spent

\* Steps keep that an invite is closed by its first claim.
LEMMA SpentStep == ASSUME Shape, Spent, [Next]_memVars PROVE Spent'
<1>1. CASE UNCHANGED <<invite, claims>>
  BY Zenon, <1>1 DEF Spent
<1>2. ASSUME NEW q \in Reqs, At(q, "claim") PROVE req[q].inv \in Invites
  <2>1. req[q] \in Inviting
    BY Zenon, <1>2, Carried DEF At
  <2> QED BY <2>1 DEF Inviting
<1>3. ASSUME NEW q \in Reqs, AcceptInvite(q) \/ RegisterWithInvite(q) PROVE Spent'
  <2>1. req[q].inv \in Invites
    BY Zenon, <1>2, <1>3 DEF AcceptInvite, RegisterWithInvite
  <2>2. Claim(req[q].inv, req[q].user) \/ UNCHANGED <<invite, claims>>
    BY Zenon, <1>3 DEF AcceptInvite, RegisterWithInvite
  <2> QED BY Zenon, <1>1, <2>1, <2>2, ClaimSpends
<1>4. ASSUME NEW q, NEW c, NEW i \in Invites, NEW u, NEW role, CreateInvite(q, c, i, u, role) PROVE Spent'
  <2>1. invite' = [invite EXCEPT ![i] = [st |-> "open", email |-> u, role |-> role]] /\ claims' = claims /\ invite[i].st = "free"
    BY Zenon, <1>4 DEF CreateInvite
  <2>2. claims[i] = 0
    BY <2>1 DEF Spent
  <2> QED BY Zenon, <2>1, <2>2 DEF Spent, Shape
<1>5. ASSUME NEW i \in Invites, DeleteInvite(i) PROVE Spent'
  <2>1. invite' = [invite EXCEPT ![i].st = "gone"] /\ claims' = claims /\ invite[i].st = "open"
    BY Zenon, <1>5 DEF DeleteInvite
  <2>2. claims[i] = 0
    BY <2>1 DEF Spent
  <2> QED BY Zenon, <2>1, <2>2 DEF Spent, Shape
<1>6. ASSUME NEW q \in Reqs, Arrives(q) PROVE Spent'
  BY Zenon, <1>1, <1>4, <1>6
     DEF Arrives, Register, Login, AddGroupMember, LookupInvite, RemoveMember, UpdateMember
<1>7. ASSUME NEW q \in Reqs,
             \/ HasDefaultOwner(q) \/ CreateUser(q) \/ JoinDefaultOrg(q) \/ PrimaryOrg(q) \/ IssueSession(q)
             \/ Authorize(q) \/ ChangeRole(q) \/ SetDisabled(q) \/ Remove(q) \/ RevokeAccess(q) \/ InsertGroupMember(q)
      PROVE  Spent'
  BY Zenon, <1>1, <1>7 DEF HasDefaultOwner, CreateUser, JoinDefaultOrg, PrimaryOrg, IssueSession,
     Authorize, ChangeRole, SetDisabled, Remove, RevokeAccess, InsertGroupMember
<1>8. ASSUME NEW u \in Users, Logout(u) \/ RemoveGroupMember(u) PROVE Spent'
  BY Zenon, <1>1, <1>8 DEF Logout, RemoveGroupMember
<1>9. CASE UNCHANGED memVars
  BY Zenon, <1>1, <1>9 DEF memVars
<1> QED BY Zenon, <1>3, <1>5, <1>6, <1>7, <1>8, <1>9 DEF Next

-----------------------------------------------------------------------------

IndInv == MembershipInv /\ Standing /\ Spent

\* The inductive invariant of the handlers.
LEMMA MembershipInvariant == Spec => []IndInv
<1>1. Init => Spent
  BY DEF Init, Spent
<1>2. Init => IndInv
  BY Zenon, <1>1, InitMembership, InitStanding DEF IndInv
<1>3. IndInv /\ [Next]_memVars => IndInv'
  BY Zenon, MembershipStep, CallStep, SpentStep DEF IndInv, MembershipInv
<1> QED BY <1>2, <1>3, PTL DEF Spec

\* Once the organisation has an active owner it always has one, for any number of
\* users, invites and overlapping requests (the KeepingOwner methods of the stores).
THEOREM OwnerAlways == Spec => []OwnerKept
<1>1. IndInv => OwnerKept
  BY Zenon DEF IndInv, MembershipInv
<1> QED BY <1>1, MembershipInvariant, PTL

\* An invite makes at most one member, for any number of requests that present it
\* (ClaimInviteCreatingMembership).
THEOREM InvitesSpentOnce == Spec => []InviteSpentOnce
<1>1. IndInv => InviteSpentOnce
  BY DEF IndInv, Spent, InviteSpentOnce
<1> QED BY <1>1, MembershipInvariant, PTL

\* The handlers implement the store of members: whatever handlers overlap, a step of
\* theirs is one call of the abstract store or changes none of its rows.
THEOREM HandlersCallTheStore == Spec => [][StoreSteps]_memVars
<1>1. IndInv /\ [Next]_memVars => [StoreSteps]_memVars
  BY Zenon, CallStep DEF IndInv
<1> QED BY <1>1, MembershipInvariant, PTL DEF Spec


-----------------------------------------------------------------------------
(* One-time login codes.                                                   *)

CONSTANTS Calls, Device, Consent

VARIABLES keys, expired, polled, call, answer, given

Codes == INSTANCE LoginCodes WITH sessions <- given

Stand(c, l, st) == call[c].st = st /\ call[c].login = l

\* The calls that have taken the pending code of login l and not put anything in its
\* place, and those that have taken its grant and not issued a session.
Deciding(c, l) == Stand(c, l, "grant") \/ Stand(c, l, "note")
Issuing(c, l) == Stand(c, l, "issue")

Pending(l) == Codes!pendingKey(l) \in keys
Grant(l) == Codes!grantKey(l) \in keys
NoSessionYet(l) == given[l] = 0 /\ ~Codes!Told(l, "denied")

\* A login is at one stage only: its code is pending, or one call decides it, or there
\* is a grant, or one call issues the session, or it has its session, or it was denied.
LoginSound(l) ==
  /\ given[l] \in {0, 1}
  /\ Pending(l) => /\ \A c \in Calls : ~Deciding(c, l) /\ ~Issuing(c, l)
                   /\ ~Grant(l) /\ NoSessionYet(l) /\ ~Codes!Told(l, "approved")
  /\ \A c \in Calls : Deciding(c, l) =>
       /\ \A d \in Calls : ~Issuing(d, l) /\ (Deciding(d, l) => d = c)
       /\ ~Grant(l) /\ NoSessionYet(l) /\ ~Codes!Told(l, "approved")
  /\ Grant(l) => NoSessionYet(l) /\ \A c \in Calls : ~Issuing(c, l)
  /\ \A c \in Calls : Issuing(c, l) => NoSessionYet(l) /\ \A d \in Calls : Issuing(d, l) => d = c
  /\ Codes!Told(l, "denied") => given[l] = 0 /\ ~Codes!Told(l, "approved")

CallStages == {"free", "look", "approve", "deny", "poll", "redeem", "grant", "note", "issue", "done"}

\* Only a call that has ended has answered.
CallsSound ==
  /\ call \in [Calls -> [st : CallStages, login : Codes!Logins]]
  /\ answer \in [Calls -> Codes!Answers] /\ given \in [Codes!Logins -> Nat]
  /\ \A c \in Calls : answer[c] = "none" \/ call[c].st = "done"

CodesInv == CallsSound /\ \A l \in Codes!Logins : LoginSound(l)

\* Only call c moves, and goes on with its login.
Moves(c, st, a) ==
  /\ call'[c].st = st /\ call'[c].login = call[c].login /\ answer'[c] = a
  /\ \A d \in Calls \ {c} : call'[d] = call[d] /\ answer'[d] = answer[d]

\* A call that goes on moves no other.
LEMMA GotoMoves ==
  ASSUME CallsSound, NEW c \in Calls, NEW st, Codes!Goto(c, st)
  PROVE  Moves(c, st, answer[c])
BY DEF CallsSound, Codes!Goto, Moves

\* A call that answers moves no other.
LEMMA ReplyMoves ==
  ASSUME CallsSound, NEW c \in Calls, NEW a, Codes!Reply(c, a)
  PROVE  Moves(c, "done", a)
BY DEF CallsSound, Codes!Reply, Moves

\* Nothing about login l is added.
Shrinks(l) ==
  /\ (Pending(l)' => Pending(l)) /\ (Grant(l)' => Grant(l)) /\ given'[l] = given[l]
  /\ \A d \in Calls : (Deciding(d, l)' => Deciding(d, l)) /\ (Issuing(d, l)' => Issuing(d, l))
  /\ \A a \in {"denied", "approved"} : Codes!Told(l, a)' => Codes!Told(l, a)

\* A login that only loses codes and calls stays sound.
LEMMA ShrunkSound == ASSUME NEW l, LoginSound(l), Shrinks(l) PROVE LoginSound(l)'
BY DEF LoginSound, Shrinks, NoSessionYet

\* The keys of different logins differ.
LEMMA KeysDiffer ==
  ASSUME NEW l, NEW k, l # k
  PROVE  /\ Codes!pendingKey(k) \notin {Codes!pendingKey(l), Codes!grantKey(l)}
         /\ Codes!grantKey(k) \notin {Codes!pendingKey(l), Codes!grantKey(l)}
         /\ Codes!pendingKey(l) # Codes!grantKey(l)
         /\ Codes!deniedKey \notin {Codes!pendingKey(l), Codes!grantKey(l)}
BY DEF Codes!pendingKey, Codes!grantKey, Codes!deniedKey

\* A call that has not ended has not answered, so what it tells its caller, and the
\* login it is about, are all that its step adds.
LEMMA OtherLoginShrinks ==
  ASSUME CallsSound, NEW c \in Calls, call[c].st # "done", NEW st, NEW a, Moves(c, st, a),
         NEW l, l # call[c].login, given'[l] = given[l],
         Pending(l)' => Pending(l), Grant(l)' => Grant(l)
  PROVE  Shrinks(l)
BY DEF Moves, Shrinks, Deciding, Issuing, Stand, Codes!Told

\* A call that goes on or ends without deciding, granting or issuing.
LEMMA QuietShrinks ==
  ASSUME CallsSound, NEW c \in Calls, call[c].st # "done", NEW st, NEW a, Moves(c, st, a),
         st \notin {"grant", "note", "issue"}, a \notin {"denied", "approved"},
         NEW l, given'[l] = given[l], Pending(l)' => Pending(l), Grant(l)' => Grant(l)
  PROVE  Shrinks(l)
BY DEF Moves, Shrinks, Deciding, Issuing, Stand, Codes!Told

\* Decide: whoever takes the pending code has the login to itself.
LEMMA DecideSound ==
  ASSUME CodesInv, NEW c \in Calls, Codes!Decide(c), NEW l \in Codes!Logins
  PROVE  LoginSound(l)'
<1> DEFINE k == call[c].login
<1>0. CallsSound /\ LoginSound(l) /\ k \in Codes!Logins BY DEF CodesInv, CallsSound
<1>1. /\ call[c].st \in {"approve", "deny"} /\ call[c].st # "done"
      /\ given' = given /\ answer[c] = "none"
  BY <1>0 DEF Codes!Decide, CallsSound
<1>2. CASE Codes!pendingKey(k) \notin keys
  <2>1. Codes!Reply(c, "not_found") /\ keys' = keys BY <1>2 DEF Codes!Decide, Codes!TakeOnce
  <2>2. Shrinks(l)
    BY <1>0, <1>1, <2>1, ReplyMoves, QuietShrinks DEF Pending, Grant
  <2> QED BY Zenon, <1>0, <2>2, ShrunkSound
<1>3. CASE Codes!pendingKey(k) \in keys
  <2>1. keys' = keys \ {Codes!pendingKey(k)} BY <1>3 DEF Codes!Decide, Codes!TakeOnce
  <2>2. \/ Codes!Reply(c, "not_found") \/ Codes!Reply(c, "denied")
        \/ Codes!Goto(c, "grant") \/ Codes!Goto(c, "note")
    BY Zenon, <1>3 DEF Codes!Decide
  <2>3. PICK st \in {"grant", "note", "done"}, a \in {"none", "not_found", "denied"} :
          Moves(c, st, a) /\ (st # "done" => a = "none")
    BY Zenon, <1>0, <1>1, <2>2, GotoMoves, ReplyMoves
  <2>4. (Pending(l)' => Pending(l)) /\ (Grant(l)' => Grant(l))
    BY <2>1 DEF Pending, Grant
  <2>5. CASE l # k
    <3>1. Shrinks(l) BY Zenon, <1>0, <1>1, <2>3, <2>4, <2>5, OtherLoginShrinks
    <3> QED BY Zenon, <1>0, <3>1, ShrunkSound
  <2>6. CASE l = k
    <3>1. Pending(l) /\ ~Pending(l)' BY <1>3, <2>1, <2>6 DEF Pending
    <3> QED
      BY <1>0, <1>1, <2>3, <2>4, <2>6, <3>1
         DEF LoginSound, NoSessionYet, Moves, Deciding, Issuing, Stand, Codes!Told
  <2> QED BY Zenon, <2>5, <2>6
<1> QED BY Zenon, <1>2, <1>3

\* PutGrant: the grant takes the place of the call that decided.
LEMMA PutGrantSound ==
  ASSUME CodesInv, NEW c \in Calls, Codes!PutGrant(c), NEW l \in Codes!Logins
  PROVE  LoginSound(l)'
<1> DEFINE k == call[c].login
<1>0. CallsSound /\ LoginSound(l) /\ k \in Codes!Logins BY DEF CodesInv, CallsSound
<1>1. /\ call[c].st \in {"grant", "note"} /\ call[c].st # "done"
      /\ given' = given /\ answer[c] = "none"
  BY <1>0 DEF Codes!PutGrant, CallsSound
<1>2. PICK a \in {"approved", "denied", "unavailable"} :
        /\ Codes!Reply(c, a)
        /\ \/ a # "denied" /\ keys' = keys \cup {Codes!grantKey(k)}
           \/ a # "approved" /\ keys' = keys \cup {Codes!deniedKey}
  BY Zenon DEF Codes!PutGrant
<1>3. Moves(c, "done", a) BY Zenon, <1>0, <1>2, ReplyMoves
<1>4. CASE l # k
  <2>1. (Pending(l)' => Pending(l)) /\ (Grant(l)' => Grant(l))
    BY <1>2, <1>4, KeysDiffer DEF Pending, Grant
  <2>2. Shrinks(l) BY Zenon, <1>0, <1>1, <1>3, <1>4, <2>1, OtherLoginShrinks
  <2> QED BY Zenon, <1>0, <2>2, ShrunkSound
<1>5. CASE l = k
  <2>1. Deciding(c, l) BY <1>1, <1>5 DEF Deciding, Stand
  <2>2. ~Pending(l)' /\ (a = "denied" => ~Grant(l)')
    BY <1>0, <1>2, <1>5, <2>1
       DEF LoginSound, Pending, Grant, Codes!pendingKey, Codes!grantKey, Codes!deniedKey
  <2> QED
    BY <1>0, <1>1, <1>3, <1>5, <2>1, <2>2
       DEF LoginSound, NoSessionYet, Moves, Deciding, Issuing, Stand, Codes!Told
<1> QED BY Zenon, <1>4, <1>5

\* Redeem: whoever takes the grant issues the session.
LEMMA RedeemSound ==
  ASSUME CodesInv, NEW c \in Calls, Codes!Redeem(c), NEW l \in Codes!Logins
  PROVE  LoginSound(l)'
<1> DEFINE k == call[c].login
<1>0. CallsSound /\ LoginSound(l) /\ k \in Codes!Logins BY DEF CodesInv, CallsSound
<1>1. /\ call[c].st = "redeem" /\ call[c].st # "done" /\ given' = given /\ answer[c] = "none"
  BY <1>0 DEF Codes!Redeem, CallsSound
<1>2. CASE Codes!grantKey(k) \notin keys
  <2>1. keys' = keys /\ \E a \in {"not_found", "access_denied", "pending"} : Codes!Reply(c, a)
    BY <1>2 DEF Codes!Redeem, Codes!TakeOnce
  <2>2. Shrinks(l)
    BY <1>0, <1>1, <2>1, ReplyMoves, QuietShrinks DEF Pending, Grant
  <2> QED BY Zenon, <1>0, <2>2, ShrunkSound
<1>3. CASE Codes!grantKey(k) \in keys
  <2>1. keys' = keys \ {Codes!grantKey(k)} /\ Codes!Goto(c, "issue")
    BY <1>3 DEF Codes!Redeem, Codes!TakeOnce
  <2>2. Moves(c, "issue", "none") BY Zenon, <1>0, <1>1, <2>1, GotoMoves
  <2>3. (Pending(l)' => Pending(l)) /\ (Grant(l)' => Grant(l))
    BY <2>1 DEF Pending, Grant
  <2>4. CASE l # k
    <3>1. Shrinks(l) BY Zenon, <1>0, <1>1, <2>2, <2>3, <2>4, OtherLoginShrinks
    <3> QED BY Zenon, <1>0, <3>1, ShrunkSound
  <2>5. CASE l = k
    <3>1. Grant(l) /\ ~Grant(l)' BY <1>3, <2>1, <2>5 DEF Grant
    <3> QED
      BY <1>0, <1>1, <2>2, <2>3, <2>5, <3>1
         DEF LoginSound, NoSessionYet, Moves, Deciding, Issuing, Stand, Codes!Told
  <2> QED BY Zenon, <2>4, <2>5
<1> QED BY Zenon, <1>2, <1>3

\* finishAgentLogin: the session is the first one.
LEMMA IssueSound ==
  ASSUME CodesInv, NEW c \in Calls, Codes!Issue(c), NEW l \in Codes!Logins
  PROVE  LoginSound(l)'
<1> DEFINE k == call[c].login
<1>0. CallsSound /\ LoginSound(l) /\ k \in Codes!Logins BY DEF CodesInv, CallsSound
<1>1. call[c].st = "issue" /\ call[c].st # "done" /\ keys' = keys /\ answer[c] = "none"
  BY <1>0 DEF Codes!Issue, CallsSound
<1>2. Moves(c, "done", "tokens") BY Zenon, <1>0, ReplyMoves DEF Codes!Issue
<1>3. (Pending(l)' => Pending(l)) /\ (Grant(l)' => Grant(l)) BY <1>1 DEF Pending, Grant
<1>4. CASE l # k
  <2>1. given'[l] = given[l] BY Zenon, <1>0, <1>4 DEF CallsSound, Codes!Issue
  <2>2. Shrinks(l) BY Zenon, <1>0, <1>1, <1>2, <1>3, <1>4, <2>1, OtherLoginShrinks
  <2> QED BY Zenon, <1>0, <2>2, ShrunkSound
<1>5. CASE l = k
  <2>1. Issuing(c, l) BY <1>1, <1>5 DEF Issuing, Stand
  <2>2. given[l] = 0 /\ given'[l] = 1
    BY <1>0, <1>5, <2>1 DEF CallsSound, LoginSound, NoSessionYet, Codes!Issue
  <2> QED
    BY <1>0, <1>1, <1>2, <1>3, <1>5, <2>1, <2>2
       DEF LoginSound, NoSessionYet, Moves, Deciding, Issuing, Stand, Codes!Told
<1> QED BY Zenon, <1>4, <1>5

\* The other steps of calls add nothing to any login.
LEMMA QuietSound ==
  ASSUME CodesInv, NEW c \in Calls, NEW l \in Codes!Logins,
         Codes!Look(c) \/ Codes!Poll(c) \/ Codes!Fail(c)
  PROVE  LoginSound(l)'
<1>0. CallsSound /\ LoginSound(l) BY Zenon DEF CodesInv
<1>1. call[c].st # "done" /\ given' = given /\ keys' \subseteq keys
  BY DEF Codes!Look, Codes!Poll, Codes!Fail
<1>2. answer[c] = "none" BY Zenon, <1>0, <1>1 DEF CallsSound
<1>3. \/ \E st \in {"approve", "redeem"} : Codes!Goto(c, st)
      \/ \E a \in {"not_found", "expired_token", "slow_down", "unavailable"} : Codes!Reply(c, a)
  BY Zenon DEF Codes!Look, Codes!Poll, Codes!Fail
<1>4. PICK st \in {"approve", "redeem", "done"},
           a \in {"none", "not_found", "expired_token", "slow_down", "unavailable"} : Moves(c, st, a)
  BY Zenon, <1>0, <1>2, <1>3, GotoMoves, ReplyMoves
<1>5. st \notin {"grant", "note", "issue"} /\ a \notin {"denied", "approved"} OBVIOUS
<1>6. (Pending(l)' => Pending(l)) /\ (Grant(l)' => Grant(l)) BY <1>1 DEF Pending, Grant
<1>7. Shrinks(l) BY Zenon, <1>0, <1>1, <1>4, <1>5, <1>6, QuietShrinks
<1> QED BY Zenon, <1>0, <1>7, ShrunkSound

\* A call that comes in has neither decided nor answered anything.
LEMMA BeginSound ==
  ASSUME CodesInv, NEW c \in Calls, NEW k, NEW st, Codes!Begin(c, k, st), NEW l \in Codes!Logins
  PROVE  LoginSound(l)'
<1>0. CallsSound /\ LoginSound(l) BY Zenon DEF CodesInv
<1>1. /\ UNCHANGED <<keys, given, answer>> /\ answer[c] = "none"
      /\ \A d \in Calls \ {c} : call'[d] = call[d]
      /\ call'[c].st \in {"approve", "look", "deny", "poll", "redeem"}
  BY <1>0 DEF Codes!Begin, Codes!Free, CallsSound
<1>2. Shrinks(l)
  BY <1>1 DEF Shrinks, Pending, Grant, Deciding, Issuing, Stand, Codes!Told
<1> QED BY Zenon, <1>0, <1>2, ShrunkSound

\* Lifetimes that end take keys away.
LEMMA ExpireSound ==
  ASSUME CodesInv, NEW l \in Codes!Logins, keys' \subseteq keys, UNCHANGED <<call, answer, given>>
  PROVE  LoginSound(l)'
<1>0. LoginSound(l) BY Zenon DEF CodesInv
<1>1. Shrinks(l) BY DEF Shrinks, Pending, Grant, Deciding, Issuing, Stand, Codes!Told
<1> QED BY Zenon, <1>0, <1>1, ShrunkSound

\* The calls keep their types where one goes on.
LEMMA GotoTyped ==
  ASSUME CallsSound, NEW c \in Calls, call[c].st # "done", NEW st \in CallStages, Codes!Goto(c, st)
  PROVE  /\ call' \in [Calls -> [st : CallStages, login : Codes!Logins]]
         /\ answer' \in [Calls -> Codes!Answers]
         /\ \A d \in Calls : answer'[d] = "none" \/ call'[d].st = "done"
BY DEF CallsSound, Codes!Goto, CallStages

\* The calls keep their types where one answers.
LEMMA ReplyTyped ==
  ASSUME CallsSound, NEW c \in Calls, NEW a \in Codes!Answers, Codes!Reply(c, a)
  PROVE  /\ call' \in [Calls -> [st : CallStages, login : Codes!Logins]]
         /\ answer' \in [Calls -> Codes!Answers]
         /\ \A d \in Calls : answer'[d] = "none" \/ call'[d].st = "done"
BY DEF CallsSound, Codes!Reply, CallStages

\* Every step of a call keeps the types, and only its last one answers.
LEMMA CallsSoundStep == ASSUME CallsSound, [Codes!Next]_Codes!vars PROVE CallsSound'
<1> DEFINE Typed == /\ call' \in [Calls -> [st : CallStages, login : Codes!Logins]]
                    /\ answer' \in [Calls -> Codes!Answers]
                    /\ \A d \in Calls : answer'[d] = "none" \/ call'[d].st = "done"
<1>1. ASSUME NEW c \in Calls, call[c].st # "done",
             \/ \E st \in CallStages : Codes!Goto(c, st)
             \/ \E a \in Codes!Answers : Codes!Reply(c, a)
      PROVE  Typed
  BY Zenon, <1>1, GotoTyped, ReplyTyped
<1> HIDE DEF Typed
<1>2. ASSUME NEW c \in Calls, Codes!Look(c) \/ Codes!Poll(c) \/ Codes!Fail(c)
      PROVE  Typed /\ given' = given
  <2>1. call[c].st # "done" /\ given' = given BY <1>2 DEF Codes!Look, Codes!Poll, Codes!Fail
  <2>2. {"approve", "redeem"} \subseteq CallStages
        /\ {"not_found", "expired_token", "slow_down", "unavailable"} \subseteq Codes!Answers
    BY DEF CallStages, Codes!Answers
  <2>3. \/ \E st \in {"approve", "redeem"} : Codes!Goto(c, st)
        \/ \E a \in {"not_found", "expired_token", "slow_down", "unavailable"} : Codes!Reply(c, a)
    BY Zenon, <1>2 DEF Codes!Look, Codes!Poll, Codes!Fail
  <2> QED BY Zenon, <1>1, <2>1, <2>2, <2>3
<1>3. ASSUME NEW c \in Calls, Codes!Decide(c) \/ Codes!PutGrant(c) \/ Codes!Redeem(c)
      PROVE  Typed /\ given' = given
  <2>1. call[c].st # "done" /\ given' = given
    BY <1>3 DEF Codes!Decide, Codes!PutGrant, Codes!Redeem
  <2>2. {"grant", "note", "issue"} \subseteq CallStages
        /\ {"not_found", "approved", "denied", "unavailable", "access_denied", "pending"}
             \subseteq Codes!Answers
    BY DEF CallStages, Codes!Answers
  <2>3. \/ \E st \in {"grant", "note", "issue"} : Codes!Goto(c, st)
        \/ \E a \in {"not_found", "approved", "denied", "unavailable", "access_denied", "pending"} :
             Codes!Reply(c, a)
    <3>1. CASE Codes!Decide(c) BY Zenon, <3>1 DEF Codes!Decide
    <3>2. CASE Codes!PutGrant(c) BY Zenon, <3>2 DEF Codes!PutGrant
    <3>3. CASE Codes!Redeem(c) BY <3>3 DEF Codes!Redeem
    <3> QED BY Zenon, <1>3, <3>1, <3>2, <3>3
  <2> QED BY Zenon, <1>1, <2>1, <2>2, <2>3
<1>4. ASSUME NEW c \in Calls, Codes!Issue(c) PROVE Typed /\ given' \in [Codes!Logins -> Nat]
  <2>1. call[c].st # "done" /\ Codes!Reply(c, "tokens") /\ "tokens" \in Codes!Answers
    BY <1>4 DEF Codes!Issue, Codes!Answers
  <2>2. given' \in [Codes!Logins -> Nat] BY <1>4 DEF Codes!Issue, CallsSound
  <2> QED BY Zenon, <1>1, <2>1, <2>2
<1>5. ASSUME NEW c \in Calls, NEW l \in Codes!Logins, NEW st \in CallStages, Codes!Begin(c, l, st)
      PROVE  Typed /\ given' = given
  <2>1. [st |-> st, login |-> l] \in [st : CallStages, login : Codes!Logins] OBVIOUS
  <2> QED BY <1>5, <2>1 DEF Codes!Begin, Codes!Free, CallsSound, CallStages, Typed
<1>6. ASSUME UNCHANGED <<call, answer, given>> PROVE Typed /\ given' = given
  BY Zenon, <1>6 DEF CallsSound, Typed
<1>7. given \in [Codes!Logins -> Nat] BY Zenon DEF CallsSound
<1>8. {"look", "approve", "deny", "poll", "redeem"} \subseteq CallStages BY DEF CallStages
<1>9. ASSUME \/ \E l \in Codes!Logins : Codes!Expire(l)
             \/ Codes!PollInterval \/ Codes!ExpireCode \/ UNCHANGED Codes!vars
      PROVE  UNCHANGED <<call, answer, given>>
  BY Zenon, <1>9 DEF Codes!Expire, Codes!PollInterval, Codes!ExpireCode, Codes!vars
<1>10. Typed /\ given' \in [Codes!Logins -> Nat]
  BY Zenon, <1>2, <1>3, <1>4, <1>5, <1>6, <1>7, <1>8, <1>9 DEF Codes!Next
<1> QED BY Zenon, <1>10 DEF CallsSound, Typed

\* Every step leaves every login at one stage.
LEMMA LoginSoundStep ==
  ASSUME CodesInv, [Codes!Next]_Codes!vars, NEW l \in Codes!Logins PROVE LoginSound(l)'
<1>1. ASSUME \/ \E k \in Codes!Logins : Codes!Expire(k)
             \/ Codes!PollInterval \/ Codes!ExpireCode \/ UNCHANGED Codes!vars
      PROVE  LoginSound(l)'
  <2>1. UNCHANGED <<call, answer, given>>
    BY Zenon, <1>1 DEF Codes!Expire, Codes!PollInterval, Codes!ExpireCode, Codes!vars
  <2>2. keys' \subseteq keys
    BY <1>1 DEF Codes!Expire, Codes!PollInterval, Codes!ExpireCode, Codes!vars
  <2> QED BY Zenon, <2>1, <2>2, ExpireSound
<1> QED
  BY Zenon, <1>1, BeginSound, QuietSound, DecideSound, PutGrantSound, RedeemSound, IssueSound
     DEF Codes!Next

\* For any number of calls that overlap, repeat and fail between two operations of
\* the store: a login gives one session at most (TakeOnce), and where a page was
\* told that it is denied, none.
THEOREM LoginsSpentOnce == Codes!Spec => [](Codes!OneSessionPerLogin /\ Codes!DenialHolds)
<1>1. Codes!Init => CodesInv
  <2> SUFFICES ASSUME Codes!Init PROVE CodesInv OBVIOUS
  <2>1. CallsSound BY DEF Codes!Init, CallsSound, CallStages, Codes!Free, Codes!Logins, Codes!Answers
  <2>2. ASSUME NEW l \in Codes!Logins PROVE LoginSound(l)
    <3>1. ~Grant(l) BY DEF Codes!Init, Grant, Codes!grantKey, Codes!pendingKey
    <3>2. \A c \in Calls : call[c].st = "free" /\ answer[c] = "none"
      BY DEF Codes!Init, Codes!Free
    <3>3. given[l] = 0 BY DEF Codes!Init
    <3> QED BY <3>1, <3>2, <3>3 DEF LoginSound, NoSessionYet, Deciding, Issuing, Stand, Codes!Told
  <2> QED BY Zenon, <2>1, <2>2 DEF CodesInv
<1>2. CodesInv /\ [Codes!Next]_Codes!vars => CodesInv'
  BY Zenon, CallsSoundStep, LoginSoundStep DEF CodesInv
<1>3. CodesInv => Codes!OneSessionPerLogin /\ Codes!DenialHolds
  BY DEF CodesInv, LoginSound, NoSessionYet, Grant, Codes!OneSessionPerLogin, Codes!DenialHolds
<1> QED BY <1>1, <1>2, <1>3, PTL DEF Codes!Spec
===============================================================================
