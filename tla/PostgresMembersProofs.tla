------------------------- MODULE PostgresMembersProofs -------------------------
(***************************************************************************)
(* Transactions of the Postgres store change the rows of the members as a  *)
(* store that takes one call at a time does (MemberStore), for every set   *)
(* of users, invites and connections.                                      *)
(*                                                                         *)
(* The argument goes by the locks: whoever has counted the owners holds    *)
(* the row of the organisation, so nobody else removes or adds one before  *)
(* the commit; whoever has deleted an invite holds its row, so nobody else *)
(* exchanges it; and a new membership holds its key and shares the row of  *)
(* the organisation.                                                       *)
(***************************************************************************)
EXTENDS PostgresMembers, TLAPS

\* A transaction has the arguments that its statements use.
Stage(t) ==
  \/ op[t] = None /\ pc[t] = "idle"
  \/ /\ op[t] = "keep" /\ pc[t] \in {"lock", "read", "count", "write", "commit"}
     /\ user[t] \in Users /\ to[t] \in Changes
  \/ /\ op[t] = "claim" /\ pc[t] \in {"invite", "insert", "commit"}
     /\ user[t] \in account /\ inv[t] \in Invites /\ to[t] \in S!Roles
  \/ /\ op[t] = "signup" /\ pc[t] \in {"invite", "user", "insert", "commit"}
     /\ user[t] \in Users /\ inv[t] \in Invites /\ to[t] \in S!Roles
  \/ op[t] = "first" /\ pc[t] = "user" /\ user[t] \in Users
  \/ op[t] = "first" /\ pc[t] = "join" /\ user[t] \in account

\* One transaction has the row of the organisation, and then nobody shares it.
OrgLocked == \A t \in Txs : HoldsOrg(t) => \A s \in Txs \ {t} : ~HoldsOrg(s) /\ ~SharesOrg(s)

\* A membership that a transaction has inserted is not in the table, and nobody else
\* has inserted it.
Inserting(t) ==
  /\ op[t] \in {"claim", "signup"} /\ pc[t] = "commit"
  /\ member[user[t]] = S!NoMember
  /\ \A s \in Txs \ {t} : ~HoldsMember(s, user[t])

\* An invite that a transaction has deleted is in the table until it commits, and
\* nobody else has deleted it.
InviteLocked(t) ==
  HoldsInvite(t, inv[t]) => inv[t] \in invite /\ \A s \in Txs \ {t} : ~HoldsInvite(s, inv[t])

\* The same for a user who signs up, who is no member either.
UserLocked(t) ==
  HoldsUser(t, user[t]) =>
    /\ user[t] \notin account /\ \A s \in Txs \ {t} : ~HoldsUser(s, user[t])
    /\ pc[t] = "commit" => t \in inserted

\* The member that a transaction has read is there, and when it ends an active owner
\* there is another one.
Counted(t) ==
  /\ op[t] = "keep" /\ pc[t] \in {"count", "write", "commit"} => member[user[t]] # S!NoMember
  /\ op[t] = "keep" /\ pc[t] \in {"write", "commit"} /\ t \notin overtaken /\ EndsOwner(t) =>
       \E v \in Users \ {user[t]} : S!ActiveOwner(v)

Tables ==
  /\ member \in [Users -> S!Rows \cup {S!NoMember}]
  /\ account \subseteq Users /\ invite \subseteq Invites
  /\ op \in [Txs -> {None, "keep", "claim", "signup", "first"}]
  /\ pc \in [Txs -> {"idle", "lock", "read", "count", "write", "invite", "user", "insert", "join", "commit"}]
  /\ user \in [Txs -> Users \cup {None}] /\ inv \in [Txs -> Invites \cup {None}] /\ to \in [Txs -> Changes \cup {None}]
  /\ inserted \subseteq Txs
  /\ \A u \in Users : member[u] # S!NoMember => u \in account

PgInv ==
  /\ Tables /\ OrgLocked
  /\ \A t \in Txs : Stage(t) /\ InviteLocked(t) /\ UserLocked(t) /\ Counted(t)
  /\ \A t \in inserted : Inserting(t)

-----------------------------------------------------------------------------

\* What a transaction leaves of the others.
Others(t) ==
  \A s \in Txs \ {t} :
    /\ op'[s] = op[s] /\ pc'[s] = pc[s] /\ user'[s] = user[s] /\ inv'[s] = inv[s] /\ to'[s] = to[s]
    /\ s \in inserted' <=> s \in inserted

\* The invariant holds at the start.
LEMMA InitPg == ASSUME Init PROVE PgInv
<1>1. [role |-> "owner", off |-> FALSE] \in S!Rows /\ [role |-> "owner", off |-> FALSE] # S!NoMember
  BY DEF S!Rows, S!Roles, S!NoMember
<1>2. Tables
  BY Zenon, <1>1 DEF Init, Tables
<1>3. \A t \in Txs : op[t] = None /\ pc[t] = "idle"
  BY Zenon DEF Init
<1>4. \A t \in Txs : op[t] \notin {"keep", "claim", "signup"}
  BY <1>3 DEF None
<1>5. inserted = {}
  BY Zenon DEF Init
<1> QED BY Zenon, <1>2, <1>3, <1>4, <1>5
    DEF PgInv, OrgLocked, HoldsOrg, Stage, InviteLocked, HoldsInvite, UserLocked, HoldsUser, Counted

\* The locks of the others are what they were.
LEMMA OthersHold ==
  ASSUME NEW t \in Txs, Others(t), NEW s \in Txs \ {t}
  PROVE  /\ HoldsOrg(s)' <=> HoldsOrg(s)
         /\ SharesOrg(s)' <=> SharesOrg(s)
         /\ \A u : HoldsMember(s, u)' <=> HoldsMember(s, u)
         /\ \A i : HoldsInvite(s, i)' <=> HoldsInvite(s, i)
         /\ \A u : HoldsUser(s, u)' <=> HoldsUser(s, u)
<1>1. /\ op'[s] = op[s] /\ pc'[s] = pc[s] /\ user'[s] = user[s] /\ inv'[s] = inv[s] /\ to'[s] = to[s]
      /\ s \in inserted' <=> s \in inserted
  BY Zenon DEF Others
<1>2. HoldsOrg(s)' <=> HoldsOrg(s)
  BY Zenon, <1>1 DEF HoldsOrg
<1>3. SharesOrg(s)' <=> SharesOrg(s)
  BY Zenon, <1>1 DEF SharesOrg
<1>4. \A u : HoldsMember(s, u)' <=> HoldsMember(s, u)
  BY Zenon, <1>1 DEF HoldsMember
<1>5. \A i : HoldsInvite(s, i)' <=> HoldsInvite(s, i)
  BY Zenon, <1>1 DEF HoldsInvite
<1>6. \A u : HoldsUser(s, u)' <=> HoldsUser(s, u)
  BY Zenon, <1>1 DEF HoldsUser
<1> QED BY Zenon, <1>2, <1>3, <1>4, <1>5, <1>6

\* A step of transaction t keeps the invariant when t took its locks from nobody and the
\* rows that others hold are as those need them.
LEMMA Combine ==
  ASSUME PgInv, NEW t \in Txs, Others(t), Tables', account \subseteq account',
         (Stage(t) /\ InviteLocked(t) /\ UserLocked(t) /\ Counted(t))',
         t \in inserted' => Inserting(t)',
         HoldsOrg(t)' => \A s \in Txs \ {t} : ~HoldsOrg(s) /\ ~SharesOrg(s),
         SharesOrg(t)' => \A s \in Txs \ {t} : ~HoldsOrg(s),
         \A s \in Txs \ {t} : HoldsMember(t, user[s])' => ~HoldsMember(s, user[s]),
         \A s \in Txs \ {t} : HoldsInvite(t, inv[s])' => ~HoldsInvite(s, inv[s]),
         \A s \in Txs \ {t} : HoldsUser(t, user[s])' => ~HoldsUser(s, user[s]),
         \A s \in inserted \ {t} : member'[user[s]] = S!NoMember,
         \A s \in Txs \ {t} : HoldsInvite(s, inv[s]) => inv[s] \in invite',
         \A s \in Txs \ {t} : HoldsUser(s, user[s]) => user[s] \notin account',
         \A s \in Txs \ {t} : Counted(s)'
  PROVE  PgInv'
<1>0. \A s \in Txs \ {t} : /\ op'[s] = op[s] /\ pc'[s] = pc[s] /\ user'[s] = user[s] /\ inv'[s] = inv[s] /\ to'[s] = to[s]
                           /\ s \in inserted' <=> s \in inserted
  BY Zenon DEF Others
<1>1. OrgLocked'
  <2> SUFFICES ASSUME NEW a \in Txs, HoldsOrg(a)', NEW b \in Txs \ {a} PROVE ~HoldsOrg(b)' /\ ~SharesOrg(b)'
    BY Zenon DEF OrgLocked
  <2>1. CASE a = t
    BY Zenon, <2>1, OthersHold
  <2>2. CASE a # t /\ b = t
    BY Zenon, <2>2, OthersHold
  <2>3. CASE a # t /\ b # t
    BY Zenon, <2>3, OthersHold DEF PgInv, OrgLocked
  <2> QED BY Zenon, <2>1, <2>2, <2>3
<1>2. ASSUME NEW s \in Txs \ {t} PROVE Stage(s)'
  <2>1. Stage(s) BY Zenon DEF PgInv
  <2> QED BY Zenon, <1>0, <2>1 DEF Stage
<1>3. ASSUME NEW s \in Txs \ {t} PROVE InviteLocked(s)'
  <2>1. InviteLocked(s) /\ inv'[s] = inv[s] BY Zenon, <1>0 DEF PgInv
  <2>2. SUFFICES ASSUME HoldsInvite(s, inv[s])
                 PROVE  inv[s] \in invite' /\ \A b \in Txs \ {s} : ~HoldsInvite(b, inv[s])'
    BY Zenon, <2>1, <1>0, OthersHold DEF InviteLocked
  <2>3. ASSUME NEW b \in Txs \ {s} PROVE ~HoldsInvite(b, inv[s])'
    <3>1. CASE b = t BY Zenon, <2>2, <3>1
    <3>2. CASE b # t
      <4>1. ~HoldsInvite(b, inv[s]) BY Zenon, <2>1, <2>2 DEF InviteLocked
      <4> QED BY Zenon, <2>1, <3>2, <4>1, OthersHold
    <3> QED BY Zenon, <3>1, <3>2
  <2> QED BY Zenon, <2>2, <2>3
<1>4. ASSUME NEW s \in Txs \ {t} PROVE UserLocked(s)'
  <2>1. UserLocked(s) /\ user'[s] = user[s] BY Zenon, <1>0 DEF PgInv
  <2>2. SUFFICES ASSUME HoldsUser(s, user[s])
                 PROVE  user[s] \notin account' /\ \A b \in Txs \ {s} : ~HoldsUser(b, user[s])'
    BY Zenon, <2>1, <1>0, OthersHold DEF UserLocked
  <2>3. ASSUME NEW b \in Txs \ {s} PROVE ~HoldsUser(b, user[s])'
    <3>1. CASE b = t BY Zenon, <2>2, <3>1
    <3>2. CASE b # t
      <4>1. ~HoldsUser(b, user[s]) BY Zenon, <2>1, <2>2 DEF UserLocked
      <4> QED BY Zenon, <2>1, <3>2, <4>1, OthersHold
    <3> QED BY Zenon, <3>1, <3>2
  <2> QED BY Zenon, <2>2, <2>3
<1>5. ASSUME NEW s \in inserted' PROVE Inserting(s)'
  <2>1. CASE s = t BY Zenon, <2>1, <1>5
  <2>2. CASE s # t
    <3>1. s \in inserted /\ s \in Txs /\ user'[s] = user[s]
      BY Zenon, <1>0, <1>5, <2>2 DEF Tables
    <3>2. Inserting(s) BY Zenon, <3>1 DEF PgInv
    <3>3. HoldsMember(s, user[s]) BY Zenon, <3>1, <3>2 DEF Inserting, HoldsMember
    <3>4. ASSUME NEW b \in Txs \ {s} PROVE ~HoldsMember(b, user[s])'
      <4>1. CASE b = t BY Zenon, <2>2, <3>1, <3>3, <4>1
      <4>2. CASE b # t
        <5>1. ~HoldsMember(b, user[s]) BY Zenon, <3>2 DEF Inserting
        <5> QED BY Zenon, <3>1, <4>2, <5>1, OthersHold
      <4> QED BY Zenon, <4>1, <4>2
    <3>5. member'[user'[s]] = S!NoMember' BY Zenon, <2>2, <3>1 DEF S!NoMember
    <3> QED BY Zenon, <1>0, <2>2, <3>1, <3>2, <3>4, <3>5 DEF Inserting
  <2> QED BY Zenon, <2>1, <2>2
<1> QED BY Zenon, <1>1, <1>2, <1>3, <1>4, <1>5 DEF PgInv

\* What a transaction has counted holds as long as the memberships do not change.
LEMMA CountedSame ==
  ASSUME PgInv, NEW t \in Txs, Others(t), UNCHANGED member, overtaken \ {t} \subseteq overtaken', NEW s \in Txs \ {t}
  PROVE  Counted(s)'
<1>1. /\ op'[s] = op[s] /\ pc'[s] = pc[s] /\ user'[s] = user[s] /\ to'[s] = to[s]
      /\ s \notin overtaken' => s \notin overtaken
  BY Zenon DEF Others
<1>2. Counted(s) BY Zenon DEF PgInv
<1> QED BY Zenon, <1>1, <1>2 DEF Counted, EndsOwner, S!ActiveOwner, S!NoMember

\* What others hold is safe when the rows do not change.
LEMMA SameRows ==
  ASSUME PgInv, NEW t \in Txs, Others(t), UNCHANGED rows, overtaken \ {t} \subseteq overtaken'
  PROVE  /\ \A s \in inserted \ {t} : member'[user[s]] = S!NoMember
         /\ \A s \in Txs \ {t} : HoldsInvite(s, inv[s]) => inv[s] \in invite'
         /\ \A s \in Txs \ {t} : HoldsUser(s, user[s]) => user[s] \notin account'
         /\ \A s \in Txs \ {t} : Counted(s)'
<1>1. member' = member /\ account' = account /\ invite' = invite
  BY Zenon DEF rows
<1>2. \A s \in inserted \ {t} : member'[user[s]] = S!NoMember
  BY Zenon, <1>1 DEF PgInv, Inserting
<1>3. \A s \in Txs \ {t} : HoldsInvite(s, inv[s]) => inv[s] \in invite'
  BY Zenon, <1>1 DEF PgInv, InviteLocked
<1>4. \A s \in Txs \ {t} : HoldsUser(s, user[s]) => user[s] \notin account'
  BY Zenon, <1>1 DEF PgInv, UserLocked
<1>5. \A s \in Txs \ {t} : Counted(s)'
  BY Zenon, <1>1, CountedSame
<1> QED BY Zenon, <1>2, <1>3, <1>4, <1>5

\* The end of a transaction frees what it held.
LEMMA EndsFree ==
  ASSUME PgInv, NEW t \in Txs, End(t)
  PROVE  /\ Others(t) /\ t \notin inserted' /\ op'[t] = None /\ pc'[t] = "idle"
         /\ overtaken' = overtaken \ {t}
         /\ op' \in [Txs -> {None, "keep", "claim", "signup", "first"}]
         /\ pc' \in [Txs -> {"idle", "lock", "read", "count", "write", "invite", "user", "insert", "join", "commit"}]
         /\ user' \in [Txs -> Users \cup {None}] /\ inv' \in [Txs -> Invites \cup {None}]
         /\ to' \in [Txs -> Changes \cup {None}] /\ inserted' \subseteq Txs
<1>1. Tables BY Zenon DEF PgInv
<1>2. Others(t) /\ t \notin inserted' /\ op'[t] = None /\ pc'[t] = "idle" /\ overtaken' = overtaken \ {t}
  BY <1>1 DEF End, Tables, Others
<1> QED BY Zenon, <1>1, <1>2 DEF End, Tables

\* A transaction that has ended holds nothing.
LEMMA IdleHoldsNothing ==
  ASSUME NEW t \in Txs, op'[t] = None, pc'[t] = "idle", t \notin inserted'
  PROVE  /\ (Stage(t) /\ InviteLocked(t) /\ UserLocked(t) /\ Counted(t))'
         /\ ~HoldsOrg(t)' /\ ~SharesOrg(t)'
         /\ \A s \in Txs : ~HoldsMember(t, user[s])' /\ ~HoldsUser(t, user[s])' /\ ~HoldsInvite(t, inv[s])'
<1>1. op'[t] \notin {"keep", "claim", "signup"} BY DEF None
<1> QED BY Zenon, <1>1 DEF Stage, InviteLocked, UserLocked, Counted, HoldsOrg, SharesOrg, HoldsMember, HoldsUser, HoldsInvite

\* The end of a transaction, with what it has committed.
LEMMA EndKeeps ==
  ASSUME PgInv, NEW t \in Txs, End(t), account \subseteq account',
         member' \in [Users -> S!Rows \cup {S!NoMember}], account' \subseteq Users, invite' \subseteq Invites,
         \A u \in Users : member'[u] # S!NoMember => u \in account',
         \A s \in inserted \ {t} : member'[user[s]] = S!NoMember,
         \A s \in Txs \ {t} : HoldsInvite(s, inv[s]) => inv[s] \in invite',
         \A s \in Txs \ {t} : HoldsUser(s, user[s]) => user[s] \notin account',
         \A s \in Txs \ {t} : Counted(s)'
  PROVE  PgInv'
<1>1. Tables' BY Zenon, EndsFree DEF Tables, S!Rows, S!NoMember, S!Roles
<1>2. Others(t) /\ t \notin inserted' /\ op'[t] = None /\ pc'[t] = "idle" BY Zenon, EndsFree
<1>3. /\ (Stage(t) /\ InviteLocked(t) /\ UserLocked(t) /\ Counted(t))'
      /\ ~HoldsOrg(t)' /\ ~SharesOrg(t)'
      /\ \A s \in Txs : ~HoldsMember(t, user[s])' /\ ~HoldsUser(t, user[s])' /\ ~HoldsInvite(t, inv[s])'
  BY Zenon, <1>2, IdleHoldsNothing
<1> QED BY Zenon, <1>1, <1>2, <1>3, Combine

\* A rollback keeps the invariant: its locks go, its rows were never seen.
LEMMA RollbackKeeps == ASSUME PgInv, NEW t \in Txs, Rollback(t) PROVE PgInv'
<1>1. End(t) /\ UNCHANGED rows BY Zenon DEF Rollback
<1>2. Others(t) /\ overtaken \ {t} \subseteq overtaken' BY Zenon, <1>1, EndsFree
<1>3. Tables /\ member' = member /\ account' = account /\ invite' = invite BY Zenon, <1>1 DEF rows, PgInv
<1>4. /\ \A s \in inserted \ {t} : member'[user[s]] = S!NoMember
      /\ \A s \in Txs \ {t} : HoldsInvite(s, inv[s]) => inv[s] \in invite'
      /\ \A s \in Txs \ {t} : HoldsUser(s, user[s]) => user[s] \notin account'
      /\ \A s \in Txs \ {t} : Counted(s)'
  BY Zenon, <1>1, <1>2, SameRows
<1> QED BY Zenon, <1>1, <1>3, <1>4, EndKeeps DEF Tables

\* A statement that leaves the tables and the marks of transactions alone.
LEMMA GotoOthers ==
  ASSUME PgInv, NEW t \in Txs, NEW stage, Goto(t, stage)
  PROVE  /\ Others(t) /\ pc'[t] = stage /\ op' = op /\ user' = user /\ inv' = inv /\ to' = to
         /\ inserted' = inserted /\ overtaken' = overtaken
BY Zenon DEF Goto, args, marks, Others, PgInv, Tables

\* A statement that changes no row keeps the invariant.
LEMMA GotoKeeps ==
  ASSUME PgInv, NEW t \in Txs,
         NEW stage \in {"read", "count", "write", "user", "insert", "commit"}, Goto(t, stage), UNCHANGED rows,
         (Stage(t) /\ InviteLocked(t) /\ UserLocked(t) /\ Counted(t))',
         t \notin inserted,
         HoldsOrg(t)' => \A s \in Txs \ {t} : ~HoldsOrg(s) /\ ~SharesOrg(s),
         \A s \in Txs \ {t} : HoldsMember(t, user[s])' => ~HoldsMember(s, user[s]),
         \A s \in Txs \ {t} : HoldsInvite(t, inv[s])' => ~HoldsInvite(s, inv[s]),
         \A s \in Txs \ {t} : HoldsUser(t, user[s])' => ~HoldsUser(s, user[s])
  PROVE  PgInv'
<1>1. /\ Others(t) /\ op' = op /\ user' = user /\ inv' = inv /\ to' = to
      /\ inserted' = inserted /\ overtaken' = overtaken
  BY Zenon, GotoOthers
<1>2. member' = member /\ account' = account /\ invite' = invite BY Zenon DEF rows
<1>3. pc' \in [Txs -> {"idle", "lock", "read", "count", "write", "invite", "user", "insert", "join", "commit"}]
  BY Zenon DEF Goto, PgInv, Tables
<1>4. Tables' BY Zenon, <1>1, <1>2, <1>3 DEF PgInv, Tables, S!Rows, S!NoMember, S!Roles
<1>5. /\ \A s \in inserted \ {t} : member'[user[s]] = S!NoMember
      /\ \A s \in Txs \ {t} : HoldsInvite(s, inv[s]) => inv[s] \in invite'
      /\ \A s \in Txs \ {t} : HoldsUser(s, user[s]) => user[s] \notin account'
      /\ \A s \in Txs \ {t} : Counted(s)'
  BY Zenon, <1>1, SameRows
<1>6. t \notin inserted' /\ ~SharesOrg(t)' BY Zenon, <1>1 DEF SharesOrg
<1> QED BY Zenon, <1>1, <1>2, <1>4, <1>5, <1>6, Combine

\* A transaction that changes a member holds the row of the organisation from its first
\* statement on, and nothing else until it has written.
LEMMA KeepingMoves ==
  ASSUME PgInv, NEW t \in Txs, op[t] = "keep",
         NEW stage \in {"read", "count", "write", "commit"}, Goto(t, stage), UNCHANGED rows,
         HoldsOrg(t) \/ \A s \in Txs \ {t} : ~HoldsOrg(s) /\ ~SharesOrg(s),
         stage = "commit" => \A s \in Txs \ {t} : ~HoldsMember(s, user[t]),
         Counted(t)'
  PROVE  PgInv'
<1>1. /\ pc'[t] = stage /\ op'[t] = "keep" /\ user' = user /\ inv' = inv /\ to' = to /\ inserted' = inserted
  BY Zenon, GotoOthers
<1>2. t \notin inserted /\ Stage(t) BY Zenon DEF PgInv, Inserting
<1>3. user[t] \in Users /\ to[t] \in Changes BY <1>2 DEF Stage, None
<1>4. Stage(t)' BY Zenon, <1>1, <1>3 DEF Stage
<1>5. /\ InviteLocked(t)' /\ UserLocked(t)'
      /\ \A s \in Txs : ~HoldsInvite(t, inv[s])' /\ ~HoldsUser(t, user[s])'
  BY Zenon, <1>1 DEF InviteLocked, UserLocked, HoldsInvite, HoldsUser
<1>6. \A s \in Txs \ {t} : ~HoldsOrg(s) /\ ~SharesOrg(s) BY Zenon DEF PgInv, OrgLocked
<1>7. \A s \in Txs \ {t} : HoldsMember(t, user[s])' => ~HoldsMember(s, user[s])
  BY Zenon, <1>1 DEF HoldsMember
<1> QED BY Zenon, <1>2, <1>4, <1>5, <1>6, <1>7, GotoKeeps

\* SELECT ... FOR UPDATE of the organisation keeps the invariant.
LEMMA LockOrgKeeps == ASSUME PgInv, NEW t \in Txs, LockOrg(t) PROVE PgInv'
<1>1. op[t] = "keep" /\ Goto(t, "read") /\ UNCHANGED rows BY Zenon DEF LockOrg, PgInv, Stage
<1>2. \A s \in Txs \ {t} : ~HoldsOrg(s) /\ ~SharesOrg(s) BY Zenon DEF LockOrg, Free
<1>3. Counted(t)' BY <1>1, GotoOthers DEF Counted
<1> QED BY Zenon, <1>1, <1>2, <1>3, KeepingMoves

\* Reading the member to change keeps the invariant.
LEMMA ReadTargetKeeps == ASSUME PgInv, NEW t \in Txs, ReadTarget(t) PROVE PgInv'
<1>1. op[t] = "keep" /\ HoldsOrg(t) /\ UNCHANGED rows BY Zenon DEF ReadTarget, PgInv, Stage, HoldsOrg
<1>2. member' = member /\ member[user[t]] # S!NoMember BY Zenon, <1>1 DEF ReadTarget, rows
<1>3. CASE EndsOwner(t)
  <2>1. Goto(t, "count") BY Zenon, <1>3 DEF ReadTarget
  <2>2. pc'[t] = "count" /\ user' = user BY Zenon, <2>1, GotoOthers
  <2>3. Counted(t)' BY <1>2, <2>2 DEF Counted, S!NoMember
  <2> QED BY <1>1, <2>1, <2>3, KeepingMoves
<1>4. CASE ~EndsOwner(t)
  <2>1. Goto(t, "write") BY Zenon, <1>4 DEF ReadTarget
  <2>2. user' = user /\ to' = to BY Zenon, <2>1, GotoOthers
  <2>3. Counted(t)' BY Zenon, <1>2, <1>4, <2>2 DEF Counted, S!NoMember, EndsOwner, S!ActiveOwner
  <2> QED BY <1>1, <2>1, <2>3, KeepingMoves
<1> QED BY Zenon, <1>3, <1>4

\* Counting the active owners keeps the invariant.
LEMMA CountOwnersKeeps == ASSUME PgInv, NEW t \in Txs, CountOwners(t) PROVE PgInv'
<1>1. op[t] = "keep" /\ HoldsOrg(t) /\ UNCHANGED rows /\ Goto(t, "write")
  BY Zenon DEF CountOwners, PgInv, Stage, HoldsOrg
<1>2. member' = member /\ user' = user BY Zenon, <1>1, GotoOthers DEF rows
<1>3. Counted(t)'
  BY Zenon, <1>1, <1>2 DEF CountOwners, PgInv, Counted, S!NoMember, S!ActiveOwner
<1> QED BY <1>1, <1>3, KeepingMoves

\* The UPDATE of the member keeps the invariant.
LEMMA WriteMemberKeeps == ASSUME PgInv, NEW t \in Txs, WriteMember(t) PROVE PgInv'
<1>1. op[t] = "keep" /\ HoldsOrg(t) /\ UNCHANGED rows /\ Goto(t, "commit") /\ pc[t] = "write"
  BY Zenon DEF WriteMember, PgInv, Stage, HoldsOrg
<1>2. /\ member' = member /\ user' = user /\ to' = to /\ op' = op /\ overtaken' = overtaken
  BY Zenon, <1>1, GotoOthers DEF rows
<1>3. Counted(t)'
  BY Zenon, <1>1, <1>2 DEF PgInv, Counted, S!NoMember, S!ActiveOwner, EndsOwner
<1>4. \A s \in Txs \ {t} : ~HoldsMember(s, user[t]) BY Zenon DEF WriteMember, Free
<1> QED BY <1>1, <1>3, <1>4, KeepingMoves

\* Taking the invite by its row lock keeps the invariant.
LEMMA TakeInviteKeeps == ASSUME PgInv, NEW t \in Txs, TakeInvite(t) PROVE PgInv'
<1>1. /\ op[t] \in {"claim", "signup"} /\ user[t] \in Users /\ inv[t] \in Invites /\ to[t] \in S!Roles
      /\ op[t] = "claim" => user[t] \in account
  <2>1. Stage(t) /\ pc[t] = "invite" /\ account \subseteq Users BY Zenon DEF TakeInvite, PgInv, Tables
  <2> QED BY <2>1 DEF Stage
<1>2. PICK stage \in {"user", "insert"} :
        Goto(t, stage) /\ (op[t] = "signup" => stage = "user") /\ (op[t] = "claim" => stage = "insert")
  BY <1>1 DEF TakeInvite
<1>3. /\ pc'[t] = stage /\ op' = op /\ user' = user /\ inv' = inv /\ to' = to
      /\ account' = account /\ invite' = invite /\ UNCHANGED rows
  BY Zenon, <1>2, GotoOthers DEF TakeInvite, rows
<1>4. t \notin inserted BY DEF PgInv, Inserting, TakeInvite
<1>5. Stage(t)' BY <1>1, <1>2, <1>3 DEF Stage, S!Roles
<1>6. inv[t] \in invite /\ \A s \in Txs \ {t} : ~HoldsInvite(s, inv[t]) BY Zenon DEF TakeInvite, Free
<1>7. InviteLocked(t)'
  <2>1. Others(t) BY Zenon, <1>2, GotoOthers
  <2>2. \A s \in Txs \ {t} : ~HoldsInvite(s, inv[t])' BY Zenon, <1>3, <1>6, <2>1, OthersHold
  <2> QED BY Zenon, <1>3, <1>6, <2>2 DEF InviteLocked
<1>8. UserLocked(t)' /\ Counted(t)' /\ ~HoldsOrg(t)' BY <1>1, <1>2, <1>3 DEF UserLocked, HoldsUser, Counted, HoldsOrg
<1>9. \A s \in Txs : ~HoldsMember(t, user[s])' /\ ~HoldsUser(t, user[s])'
  BY <1>1, <1>2, <1>3 DEF HoldsMember, HoldsUser
<1>10. \A s \in Txs \ {t} : HoldsInvite(t, inv[s])' => ~HoldsInvite(s, inv[s])
  BY Zenon, <1>3, <1>6 DEF HoldsInvite
<1>11. stage \in {"read", "count", "write", "user", "insert", "commit"} BY Zenon, <1>2
<1> QED BY Zenon, <1>2, <1>3, <1>4, <1>5, <1>7, <1>8, <1>9, <1>10, <1>11, GotoKeeps

\* The INSERT of the user keeps the invariant.
LEMMA InsertUserKeeps == ASSUME PgInv, NEW t \in Txs, InsertUser(t) PROVE PgInv'
<1>1. /\ op[t] = "signup" /\ user[t] \in Users /\ inv[t] \in Invites /\ to[t] \in S!Roles
  <2>1. Stage(t) /\ op[t] = "signup" BY Zenon DEF InsertUser, PgInv
  <2> QED BY <2>1 DEF Stage, None
<1>2. Goto(t, "insert") /\ UNCHANGED rows BY Zenon DEF InsertUser
<1>3. /\ pc'[t] = "insert" /\ op' = op /\ user' = user /\ inv' = inv /\ to' = to /\ Others(t)
      /\ account' = account /\ invite' = invite
  BY Zenon, <1>2, GotoOthers DEF rows
<1>4. t \notin inserted BY DEF PgInv, Inserting, InsertUser
<1>5. Stage(t)' BY <1>1, <1>3 DEF Stage, S!Roles
<1>6. user[t] \notin account /\ \A s \in Txs \ {t} : ~HoldsUser(s, user[t]) BY Zenon DEF InsertUser, Free
<1>7. HoldsInvite(t, inv[t]) BY Zenon DEF InsertUser, HoldsInvite
<1>8. inv[t] \in invite /\ \A s \in Txs \ {t} : ~HoldsInvite(s, inv[t]) BY Zenon, <1>7 DEF PgInv, InviteLocked
<1>9. InviteLocked(t)'
  <2>2. \A s \in Txs \ {t} : ~HoldsInvite(s, inv[t])' BY Zenon, <1>3, <1>8, OthersHold
  <2> QED BY Zenon, <1>3, <1>8, <2>2 DEF InviteLocked
<1>10. UserLocked(t)'
  <2>2. \A s \in Txs \ {t} : ~HoldsUser(s, user[t])' BY Zenon, <1>3, <1>6, OthersHold
  <2>3. pc'[t] # "commit" BY <1>3
  <2> QED BY Zenon, <1>3, <1>6, <2>2, <2>3 DEF UserLocked
<1>11. Counted(t)' /\ ~HoldsOrg(t)' BY <1>1, <1>3 DEF Counted, HoldsOrg
<1>12. \A s \in Txs : ~HoldsMember(t, user[s])' BY <1>3 DEF HoldsMember
<1>13. \A s \in Txs \ {t} : HoldsInvite(t, inv[s])' => ~HoldsInvite(s, inv[s])
  BY Zenon, <1>3, <1>8 DEF HoldsInvite
<1>14. \A s \in Txs \ {t} : HoldsUser(t, user[s])' => ~HoldsUser(s, user[s])
  BY Zenon, <1>3, <1>6 DEF HoldsUser
<1>15. "insert" \in {"read", "count", "write", "user", "insert", "commit"} BY Zenon
<1> QED BY Zenon, <1>2, <1>4, <1>5, <1>9, <1>10, <1>11, <1>12, <1>13, <1>14, <1>15, GotoKeeps

\* The INSERT of the membership keeps the invariant.
LEMMA InsertMemberKeeps == ASSUME PgInv, NEW t \in Txs, InsertMember(t) PROVE PgInv'
<1>1. /\ op[t] \in {"claim", "signup"} /\ user[t] \in Users /\ inv[t] \in Invites /\ to[t] \in S!Roles
      /\ op[t] = "claim" => user[t] \in account
  <2>1. Stage(t) /\ pc[t] = "insert" /\ account \subseteq Users BY Zenon DEF InsertMember, PgInv, Tables
  <2> QED BY <2>1 DEF Stage
<1>2. /\ op' = op /\ user' = user /\ inv' = inv /\ to' = to /\ overtaken' = overtaken
      /\ member' = member /\ account' = account /\ invite' = invite /\ UNCHANGED rows
      /\ pc' = [pc EXCEPT ![t] = "commit"] /\ inserted' \in {inserted, inserted \cup {t}}
  BY Zenon DEF InsertMember, args, rows
<1>3. Others(t) /\ pc'[t] = "commit" BY Zenon, <1>2 DEF Others, PgInv, Tables
<1>4. Tables' BY Zenon, <1>2 DEF PgInv, Tables, S!Rows, S!NoMember, S!Roles
<1>5. Stage(t)' BY <1>1, <1>2, <1>3 DEF Stage, S!Roles
<1>6. HoldsInvite(t, inv[t]) BY Zenon, <1>1 DEF InsertMember, HoldsInvite
<1>7. inv[t] \in invite /\ \A s \in Txs \ {t} : ~HoldsInvite(s, inv[t]) BY Zenon, <1>6 DEF PgInv, InviteLocked
<1>8. InviteLocked(t)'
  <2>2. \A s \in Txs \ {t} : ~HoldsInvite(s, inv[t])' BY Zenon, <1>2, <1>3, <1>7, OthersHold
  <2> QED BY Zenon, <1>2, <1>7, <2>2 DEF InviteLocked
<1>9. ASSUME op[t] = "signup"
      PROVE  user[t] \notin account /\ t \in inserted' /\ \A s \in Txs \ {t} : ~HoldsUser(s, user[t])
  <2>1. HoldsUser(t, user[t]) BY Zenon, <1>9 DEF InsertMember, HoldsUser
  <2>2. user[t] \notin account /\ \A s \in Txs \ {t} : ~HoldsUser(s, user[t]) BY Zenon, <2>1 DEF PgInv, UserLocked
  <2>3. member[user[t]] = S!NoMember BY Zenon, <1>1, <2>2 DEF PgInv, Tables
  <2> QED BY Zenon, <2>2, <2>3 DEF InsertMember
<1>10. UserLocked(t)'
  <2>1. SUFFICES ASSUME HoldsUser(t, user[t])' PROVE UserLocked(t)' BY Zenon DEF UserLocked
  <2>2. op[t] = "signup" BY Zenon, <1>2, <2>1 DEF HoldsUser
  <2>3. \A s \in Txs \ {t} : ~HoldsUser(s, user[t])' BY Zenon, <1>2, <1>3, <1>9, <2>2, OthersHold
  <2> QED BY Zenon, <1>2, <1>9, <2>2, <2>3 DEF UserLocked
<1>11. Counted(t)' /\ ~HoldsOrg(t)' BY <1>1, <1>2 DEF Counted, HoldsOrg
<1>12. \A s \in Txs \ {t} : ~HoldsMember(s, user[t]) BY Zenon DEF InsertMember, Free
<1>13. ASSUME t \in inserted' PROVE Inserting(t)' /\ \A s \in Txs \ {t} : ~HoldsOrg(s)
  <2>1. t \notin inserted BY DEF PgInv, Inserting, InsertMember
  <2>2. member[user[t]] = S!NoMember /\ \A s \in Txs \ {t} : ~HoldsOrg(s) BY Zenon, <1>13, <2>1 DEF InsertMember, Free
  <2>3. \A s \in Txs \ {t} : ~HoldsMember(s, user[t])' BY Zenon, <1>2, <1>3, <1>12, OthersHold
  <2> QED BY Zenon, <1>1, <1>2, <1>3, <2>2, <2>3 DEF Inserting, S!NoMember
<1>14. \A s \in Txs \ {t} : HoldsMember(t, user[s])' => ~HoldsMember(s, user[s])
  BY Zenon, <1>2, <1>12 DEF HoldsMember
<1>15. \A s \in Txs \ {t} : HoldsInvite(t, inv[s])' => ~HoldsInvite(s, inv[s])
  BY Zenon, <1>2, <1>7 DEF HoldsInvite
<1>16. \A s \in Txs \ {t} : HoldsUser(t, user[s])' => ~HoldsUser(s, user[s])
  BY Zenon, <1>2, <1>9 DEF HoldsUser
<1>17. SharesOrg(t)' => \A s \in Txs \ {t} : ~HoldsOrg(s) BY Zenon, <1>13 DEF SharesOrg
<1>18. /\ \A s \in inserted \ {t} : member'[user[s]] = S!NoMember
       /\ \A s \in Txs \ {t} : HoldsInvite(s, inv[s]) => inv[s] \in invite'
       /\ \A s \in Txs \ {t} : HoldsUser(s, user[s]) => user[s] \notin account'
       /\ \A s \in Txs \ {t} : Counted(s)'
  BY Zenon, <1>2, <1>3, SameRows
<1> QED BY Zenon, <1>2, <1>3, <1>4, <1>5, <1>8, <1>10, <1>11, <1>13, <1>14, <1>15, <1>16, <1>17, <1>18, Combine

\* A change leaves a row of a member, or none.
LEMMA ChangedRow ==
  ASSUME NEW row \in S!Rows, NEW change \in Changes
  PROVE  Changed(row, change) \in S!Rows \cup {S!NoMember}
<1>1. CASE change = "removed" BY <1>1 DEF Changed
<1>2. CASE change = "disabled" BY <1>2 DEF Changed, S!Rows
<1>3. CASE change = "enabled" BY <1>3 DEF Changed, S!Rows
<1>4. CASE change \in S!Roles BY <1>4 DEF Changed, S!Rows, S!Roles
<1> QED BY Zenon, <1>1, <1>2, <1>3, <1>4 DEF Changes

\* What a transaction that is about to change a member knows.
LEMMA KeepKnows ==
  ASSUME PgInv, NEW t \in Txs, op[t] = "keep", pc[t] = "commit"
  PROVE  /\ user[t] \in Users /\ to[t] \in Changes /\ member[user[t]] \in S!Rows /\ member[user[t]] # S!NoMember
         /\ \A s \in Txs \ {t} : ~HoldsOrg(s) /\ s \notin inserted
<1>1. Stage(t) /\ Counted(t) /\ Tables /\ OrgLocked BY Zenon DEF PgInv
<1>2. user[t] \in Users /\ to[t] \in Changes BY <1>1 DEF Stage, None
<1>3. member[user[t]] # S!NoMember BY Zenon, <1>1 DEF Counted
<1>4. member[user[t]] \in S!Rows BY Zenon, <1>1, <1>2, <1>3 DEF Tables
<1>5. HoldsOrg(t) BY Zenon DEF HoldsOrg
<1> QED BY Zenon, <1>1, <1>2, <1>3, <1>4, <1>5 DEF OrgLocked, SharesOrg

\* The commit of a change of a member keeps the invariant.
LEMMA CommitKeepKeeps == ASSUME PgInv, NEW t \in Txs, CommitKeep(t) PROVE PgInv'
<1>1. /\ user[t] \in Users /\ to[t] \in Changes /\ member[user[t]] \in S!Rows /\ member[user[t]] # S!NoMember
      /\ \A s \in Txs \ {t} : ~HoldsOrg(s) /\ s \notin inserted
  BY Zenon, KeepKnows DEF CommitKeep
<1>2. End(t) /\ account' = account /\ invite' = invite BY Zenon DEF CommitKeep
<1> DEFINE row == Changed(member[user[t]], to[t])
<1>3. member' = [member EXCEPT ![user[t]] = row] BY Zenon DEF CommitKeep
<1>4. row \in S!Rows \cup {S!NoMember} BY Zenon, <1>1, ChangedRow
<1> HIDE DEF row
<1>5. Tables BY Zenon DEF PgInv
<1>6. member' \in [Users -> S!Rows \cup {S!NoMember}] /\ \A u \in Users : member'[u] # S!NoMember => u \in account
  BY Zenon, <1>1, <1>3, <1>4, <1>5 DEF Tables
<1>7. /\ \A s \in Txs \ {t} : HoldsInvite(s, inv[s]) => inv[s] \in invite'
      /\ \A s \in Txs \ {t} : HoldsUser(s, user[s]) => user[s] \notin account'
  BY Zenon, <1>2 DEF PgInv, InviteLocked, UserLocked
<1>8. ASSUME NEW s \in Txs \ {t} PROVE Counted(s)'
  <2>1. op'[s] = op[s] /\ pc'[s] = pc[s] BY Zenon, <1>2, EndsFree DEF Others
  <2>2. ~HoldsOrg(s) BY Zenon, <1>1
  <2> QED BY Zenon, <2>1, <2>2 DEF Counted, HoldsOrg
<1>9. \A s \in inserted \ {t} : member'[user[s]] = S!NoMember BY Zenon, <1>1, <1>5 DEF Tables
<1> QED BY Zenon, <1>2, <1>5, <1>6, <1>7, <1>8, <1>9, EndKeeps DEF Tables

\* What a transaction that is about to exchange an invite knows.
LEMMA ClaimKnows ==
  ASSUME PgInv, NEW t \in Txs, op[t] \in {"claim", "signup"}, pc[t] = "commit"
  PROVE  /\ user[t] \in Users /\ inv[t] \in Invites /\ to[t] \in S!Roles
         /\ inv[t] \in invite /\ \A s \in Txs \ {t} : ~HoldsInvite(s, inv[t])
         /\ op[t] = "claim" => user[t] \in account
         /\ op[t] = "signup" => t \in inserted /\ \A s \in Txs \ {t} : ~HoldsUser(s, user[t])
         /\ t \in inserted => /\ member[user[t]] = S!NoMember
                              /\ \A s \in Txs \ {t} : ~HoldsMember(s, user[t]) /\ ~HoldsOrg(s)
<1>1. Stage(t) /\ InviteLocked(t) /\ UserLocked(t) /\ Tables /\ OrgLocked BY Zenon DEF PgInv
<1>2. /\ user[t] \in Users /\ inv[t] \in Invites /\ to[t] \in S!Roles
      /\ op[t] = "claim" => user[t] \in account
  BY <1>1 DEF Stage, None, Tables
<1>3. HoldsInvite(t, inv[t]) BY Zenon DEF HoldsInvite
<1>4. op[t] = "signup" => t \in inserted /\ \A s \in Txs \ {t} : ~HoldsUser(s, user[t])
  BY Zenon, <1>1 DEF UserLocked, HoldsUser
<1>5. t \in inserted => /\ member[user[t]] = S!NoMember
                        /\ \A s \in Txs \ {t} : ~HoldsMember(s, user[t]) /\ ~HoldsOrg(s)
  BY Zenon, <1>1 DEF PgInv, Inserting, OrgLocked, SharesOrg
<1> QED BY Zenon, <1>1, <1>2, <1>3, <1>4, <1>5 DEF InviteLocked

\* The commit of a claimed invite keeps the invariant.
LEMMA CommitClaimKeeps == ASSUME PgInv, NEW t \in Txs, CommitClaim(t) PROVE PgInv'
<1>1. /\ user[t] \in Users /\ inv[t] \in Invites /\ to[t] \in S!Roles
      /\ inv[t] \in invite /\ \A s \in Txs \ {t} : ~HoldsInvite(s, inv[t])
      /\ op[t] = "claim" => user[t] \in account
      /\ op[t] = "signup" => t \in inserted /\ \A s \in Txs \ {t} : ~HoldsUser(s, user[t])
      /\ t \in inserted => /\ member[user[t]] = S!NoMember
                           /\ \A s \in Txs \ {t} : ~HoldsMember(s, user[t]) /\ ~HoldsOrg(s)
  BY Zenon, ClaimKnows DEF CommitClaim
<1>2. /\ End(t) /\ op[t] \in {"claim", "signup"} /\ Tables
      /\ invite' = invite \ {inv[t]}
      /\ account' = IF op[t] = "signup" THEN account \cup {user[t]} ELSE account
  BY Zenon DEF CommitClaim, PgInv
<1>3. Others(t) /\ overtaken \ {t} \subseteq overtaken' BY Zenon, <1>2, EndsFree
<1> DEFINE row == [role |-> to[t], off |-> FALSE]
<1>4. row \in S!Rows /\ row # S!NoMember BY <1>1 DEF S!Rows, S!Roles, S!NoMember
<1>5. member' = IF t \in inserted THEN [member EXCEPT ![user[t]] = row] ELSE member BY Zenon DEF CommitClaim
<1> HIDE DEF row
<1>6. account \subseteq account' /\ account' \subseteq Users /\ invite' \subseteq Invites
  BY Zenon, <1>1, <1>2 DEF Tables
<1>7. user[t] \in account' BY Zenon, <1>1, <1>2
<1>8. member' \in [Users -> S!Rows \cup {S!NoMember}] /\ \A u \in Users : member'[u] # S!NoMember => u \in account'
  BY Zenon, <1>1, <1>2, <1>4, <1>5, <1>6, <1>7 DEF Tables
<1>9. ASSUME NEW s \in inserted \ {t} PROVE member'[user[s]] = S!NoMember
  <2>1. Inserting(s) /\ s \in Txs \ {t} BY Zenon, <1>2 DEF PgInv, Tables
  <2>2. HoldsMember(s, user[s]) /\ member[user[s]] = S!NoMember BY Zenon, <2>1 DEF Inserting, HoldsMember
  <2>3. user[s] \in Users BY Zenon, <2>1, ClaimKnows DEF Inserting
  <2>4. t \in inserted => user[s] # user[t] BY Zenon, <1>1, <2>1, <2>2
  <2> QED BY Zenon, <1>2, <1>5, <2>2, <2>3, <2>4 DEF Tables
<1>10. \A s \in Txs \ {t} : HoldsInvite(s, inv[s]) => inv[s] \in invite'
  BY Zenon, <1>1, <1>2 DEF PgInv, InviteLocked
<1>11. \A s \in Txs \ {t} : HoldsUser(s, user[s]) => user[s] \notin account'
  BY Zenon, <1>1, <1>2 DEF PgInv, UserLocked
<1>12. ASSUME NEW s \in Txs \ {t} PROVE Counted(s)'
  <2>1. CASE t \in inserted
    <3>1. op'[s] = op[s] /\ pc'[s] = pc[s] /\ ~HoldsOrg(s) BY Zenon, <1>1, <1>3, <2>1 DEF Others
    <3> QED BY Zenon, <3>1 DEF Counted, HoldsOrg
  <2>2. CASE t \notin inserted
    BY Zenon, <1>3, <1>5, <2>2, CountedSame
  <2> QED BY Zenon, <2>1, <2>2
<1> QED BY Zenon, <1>2, <1>6, <1>8, <1>9, <1>10, <1>11, <1>12, EndKeeps

\* The first user holds no lock from one statement to the next.
LEMMA FirstHoldsNothing ==
  ASSUME NEW t \in Txs, op'[t] \notin {"keep", "claim", "signup"}, t \notin inserted'
  PROVE  /\ (InviteLocked(t) /\ UserLocked(t) /\ Counted(t))'
         /\ ~HoldsOrg(t)' /\ ~SharesOrg(t)'
         /\ \A s \in Txs : ~HoldsMember(t, user[s])' /\ ~HoldsUser(t, user[s])' /\ ~HoldsInvite(t, inv[s])'
BY Zenon DEF InviteLocked, UserLocked, Counted, HoldsOrg, SharesOrg, HoldsMember, HoldsUser, HoldsInvite

\* The single statement that creates a user keeps the invariant.
LEMMA CreateUserKeeps == ASSUME PgInv, NEW t \in Txs, CreateUser(t) PROVE PgInv'
<1>1. /\ op[t] = "first" /\ Goto(t, "join") /\ user[t] \in Users /\ Tables
      /\ account' = account \cup {user[t]} /\ member' = member /\ invite' = invite
  <2>1. Stage(t) /\ op[t] = "first" BY Zenon DEF CreateUser, PgInv
  <2>2. user[t] \in Users BY <2>1 DEF Stage, None, PgInv, Tables
  <2> QED BY Zenon, <2>1, <2>2 DEF CreateUser, PgInv
<1>2. /\ Others(t) /\ pc'[t] = "join" /\ op' = op /\ user' = user /\ inv' = inv /\ to' = to
      /\ inserted' = inserted /\ overtaken' = overtaken
  BY Zenon, <1>1, GotoOthers
<1>3. pc' \in [Txs -> {"idle", "lock", "read", "count", "write", "invite", "user", "insert", "join", "commit"}]
  BY Zenon, <1>1 DEF Goto, Tables
<1>4. Tables' BY Zenon, <1>1, <1>2, <1>3 DEF Tables, S!Rows, S!NoMember, S!Roles
<1>5. op'[t] \notin {"keep", "claim", "signup"} BY <1>1, <1>2
<1>6. t \notin inserted' BY Zenon, <1>2, <1>5 DEF PgInv, Inserting
<1>7. Stage(t)' BY Zenon, <1>1, <1>2 DEF Stage
<1>8. /\ (InviteLocked(t) /\ UserLocked(t) /\ Counted(t))'
      /\ ~HoldsOrg(t)' /\ ~SharesOrg(t)'
      /\ \A s \in Txs : ~HoldsMember(t, user[s])' /\ ~HoldsUser(t, user[s])' /\ ~HoldsInvite(t, inv[s])'
  BY Zenon, <1>5, <1>6, FirstHoldsNothing
<1>9. \A s \in inserted \ {t} : member'[user[s]] = S!NoMember BY Zenon, <1>1 DEF PgInv, Inserting
<1>10. \A s \in Txs \ {t} : HoldsInvite(s, inv[s]) => inv[s] \in invite' BY Zenon, <1>1 DEF PgInv, InviteLocked
<1>11. ASSUME NEW s \in Txs \ {t}, HoldsUser(s, user[s]) PROVE user[s] \notin account'
  <2>1. user[s] \notin account /\ ~HoldsUser(s, user[t]) BY Zenon, <1>11 DEF PgInv, UserLocked, CreateUser, Free
  <2> QED BY Zenon, <1>1, <1>11, <2>1
<1>12. \A s \in Txs \ {t} : Counted(s)' BY Zenon, <1>1, <1>2, CountedSame
<1>13. account \subseteq account' BY Zenon, <1>1
<1> QED BY Zenon, <1>2, <1>4, <1>6, <1>7, <1>8, <1>9, <1>10, <1>11, <1>12, <1>13, Combine

\* The row of a member, or of nobody, that becomes the row of an owner.
LEMMA OwnerRow ==
  ASSUME NEW old \in S!Rows \cup {S!NoMember}
  PROVE  LET row == [old EXCEPT !.role = "owner"]
         IN  row \in S!Rows /\ row # S!NoMember /\ row.role = "owner" /\ row.off = old.off
<1> DEFINE row == [old EXCEPT !.role = "owner"]
<1>1. old \in [role : S!Roles \cup {"none"}, off : BOOLEAN]
  <2>1. S!NoMember \in [role : S!Roles \cup {"none"}, off : BOOLEAN] BY DEF S!NoMember
  <2>2. \A r \in S!Rows : r \in [role : S!Roles \cup {"none"}, off : BOOLEAN] BY DEF S!Rows
  <2> QED BY Zenon, <2>1, <2>2
<1>2. row.role = "owner" /\ row.off = old.off /\ row \in S!Rows BY <1>1 DEF S!Rows, S!Roles
<1>3. row # S!NoMember BY <1>2 DEF S!NoMember
<1> QED BY Zenon, <1>2, <1>3

\* A member who becomes an owner takes nothing from a transaction that has counted the
\* owners, unless it is about that very member, which is then marked.
LEMMA CreateMembershipKeeps == ASSUME PgInv, NEW t \in Txs, CreateMembership(t) PROVE PgInv'
<1>1. Stage(t) /\ pc[t] = "join" /\ Tables BY Zenon DEF CreateMembership, PgInv
<1>2. op[t] = "first" /\ user[t] \in account /\ user[t] \in Users /\ member[user[t]] \in S!Rows \cup {S!NoMember}
  BY <1>1 DEF Stage, Tables
<1> DEFINE row == [member[user[t]] EXCEPT !.role = "owner"]
<1>3. row \in S!Rows /\ row # S!NoMember /\ row.role = "owner" /\ row.off = member[user[t]].off
  BY Zenon, <1>2, OwnerRow
<1>4. member' = [member EXCEPT ![user[t]] = row] BY Zenon DEF CreateMembership
<1>5. /\ account' = account /\ invite' = invite /\ inserted' = inserted
      /\ \A s \in Txs \ {t} : pc[s] = "write" /\ user[s] = user[t] => s \in overtaken'
      /\ overtaken \subseteq overtaken'
      /\ \A s \in Txs \ {t} : ~HoldsMember(s, user[t])
  BY Zenon DEF CreateMembership, Free
<1>6. op'[t] = None /\ pc'[t] = "idle" /\ Others(t) BY Zenon, <1>1 DEF CreateMembership, Others, Tables
<1>7. /\ op' \in [Txs -> {None, "keep", "claim", "signup", "first"}]
      /\ pc' \in [Txs -> {"idle", "lock", "read", "count", "write", "invite", "user", "insert", "join", "commit"}]
      /\ user' \in [Txs -> Users \cup {None}] /\ inv' \in [Txs -> Invites \cup {None}]
      /\ to' \in [Txs -> Changes \cup {None}]
  BY Zenon, <1>1 DEF CreateMembership, Tables
<1> HIDE DEF row
<1>8. Tables' BY Zenon, <1>1, <1>2, <1>3, <1>4, <1>5, <1>7 DEF Tables, S!Rows, S!NoMember, S!Roles
<1>9. t \notin inserted' BY <1>2, <1>5 DEF PgInv, Inserting
<1>10. /\ (Stage(t) /\ InviteLocked(t) /\ UserLocked(t) /\ Counted(t))'
       /\ ~HoldsOrg(t)' /\ ~SharesOrg(t)'
       /\ \A s \in Txs : ~HoldsMember(t, user[s])' /\ ~HoldsUser(t, user[s])' /\ ~HoldsInvite(t, inv[s])'
  BY Zenon, <1>6, <1>9, IdleHoldsNothing
<1>11. ASSUME NEW s \in inserted \ {t} PROVE member'[user[s]] = S!NoMember
  <2>1. Inserting(s) /\ s \in Txs \ {t} BY Zenon, <1>1 DEF PgInv, Tables
  <2>2. HoldsMember(s, user[s]) /\ member[user[s]] = S!NoMember BY Zenon, <2>1 DEF Inserting, HoldsMember
  <2>3. user[s] \in Users BY Zenon, <2>1, ClaimKnows DEF Inserting
  <2>4. user[s] # user[t] BY Zenon, <1>5, <2>1, <2>2
  <2> QED BY Zenon, <1>1, <1>4, <2>2, <2>3, <2>4 DEF Tables
<1>12. /\ \A s \in Txs \ {t} : HoldsInvite(s, inv[s]) => inv[s] \in invite'
       /\ \A s \in Txs \ {t} : HoldsUser(s, user[s]) => user[s] \notin account'
  BY Zenon, <1>5 DEF PgInv, InviteLocked, UserLocked
<1>13. ASSUME NEW s \in Txs \ {t} PROVE Counted(s)'
  <2>1. Counted(s) /\ Stage(s) BY Zenon DEF PgInv
  <2>2. op'[s] = op[s] /\ pc'[s] = pc[s] /\ user'[s] = user[s] /\ to'[s] = to[s] BY Zenon, <1>6 DEF Others
  <2>3. SUFFICES ASSUME op[s] = "keep", pc[s] \in {"count", "write", "commit"} PROVE Counted(s)'
    BY Zenon, <2>2 DEF Counted
  <2>4. user[s] \in Users /\ member[user[s]] # S!NoMember BY <2>1, <2>3 DEF Stage, Counted, None
  <2>5. member'[user[s]] # S!NoMember BY Zenon, <1>1, <1>3, <1>4, <2>4 DEF Tables
  <2>6. ASSUME pc[s] \in {"write", "commit"}, s \notin overtaken', EndsOwner(s)'
        PROVE  \E v \in Users \ {user[s]} : S!ActiveOwner(v)'
    <3>1. user[s] # user[t] BY Zenon, <1>5, <2>3, <2>6 DEF HoldsMember
    <3>2. member'[user[s]] = member[user[s]] BY Zenon, <1>1, <1>4, <2>4, <3>1 DEF Tables
    <3>3. EndsOwner(s) BY Zenon, <2>2, <2>6, <3>2 DEF EndsOwner, S!ActiveOwner
    <3>4. PICK v \in Users \ {user[s]} : S!ActiveOwner(v)
      BY Zenon, <1>5, <2>1, <2>3, <2>6, <3>3 DEF Counted
    <3>5. member'[v].role = "owner" /\ ~member'[v].off
      BY Zenon, <1>1, <1>3, <1>4, <3>4 DEF Tables, S!ActiveOwner
    <3> QED BY Zenon, <3>5 DEF S!ActiveOwner
  <2> QED BY Zenon, <2>2, <2>5, <2>6 DEF Counted, S!NoMember
<1>14. account \subseteq account' BY Zenon, <1>5
<1> QED BY Zenon, <1>6, <1>8, <1>9, <1>10, <1>11, <1>12, <1>13, <1>14, Combine

\* The invites change while the transactions stand still.
LEMMA InvitesKeep ==
  ASSUME PgInv, UNCHANGED <<member, account, pc, args, marks>>, invite' \subseteq Invites,
         \A t \in Txs : HoldsInvite(t, inv[t]) => inv[t] \in invite'
  PROVE  PgInv'
<1>1. /\ member' = member /\ account' = account /\ pc' = pc /\ op' = op /\ user' = user /\ inv' = inv /\ to' = to
      /\ inserted' = inserted /\ overtaken' = overtaken
  BY Zenon DEF args, marks
<1>2. Tables' BY Zenon, <1>1 DEF PgInv, Tables, S!Rows, S!NoMember, S!Roles
<1>3. OrgLocked' BY Zenon, <1>1 DEF PgInv, OrgLocked, HoldsOrg, SharesOrg
<1>4. ASSUME NEW t \in inserted' PROVE Inserting(t)'
  <2>1. Inserting(t) BY Zenon, <1>1 DEF PgInv
  <2>2. \A s, u : HoldsMember(s, u)' <=> HoldsMember(s, u) BY Zenon, <1>1 DEF HoldsMember
  <2> QED BY Zenon, <1>1, <2>1, <2>2 DEF Inserting, S!NoMember
<1>5. ASSUME NEW t \in Txs PROVE (Stage(t) /\ InviteLocked(t) /\ UserLocked(t) /\ Counted(t))'
  <2>1. Stage(t) /\ InviteLocked(t) /\ UserLocked(t) /\ Counted(t) BY Zenon DEF PgInv
  <2>2. Stage(t)' BY Zenon, <1>1, <2>1 DEF Stage, S!Roles, Changes
  <2>3. InviteLocked(t)' BY Zenon, <1>1, <2>1 DEF InviteLocked, HoldsInvite
  <2>4. UserLocked(t)' BY Zenon, <1>1, <2>1 DEF UserLocked, HoldsUser
  <2>5. Counted(t)' BY Zenon, <1>1, <2>1 DEF Counted, EndsOwner, S!ActiveOwner, S!NoMember
  <2> QED BY Zenon, <2>2, <2>3, <2>4, <2>5
<1> QED BY Zenon, <1>2, <1>3, <1>4, <1>5 DEF PgInv

\* Creating and deleting an invite keep the invariant.
LEMMA InviteStepsKeep ==
  ASSUME PgInv, NEW i \in Invites, CreateInvite(i) \/ DeleteInvite(i)
  PROVE  PgInv'
<1>1. invite \subseteq Invites /\ \A t \in Txs : HoldsInvite(t, inv[t]) => inv[t] \in invite
  BY Zenon DEF PgInv, Tables, InviteLocked
<1>2. CASE CreateInvite(i)
  BY Zenon, <1>1, <1>2, InvitesKeep DEF CreateInvite
<1>3. CASE DeleteInvite(i)
  BY Zenon, <1>1, <1>3, InvitesKeep DEF DeleteInvite
<1> QED BY Zenon, <1>2, <1>3

\* A transaction begins without a lock.
LEMMA BeginKeeps ==
  ASSUME PgInv, NEW t \in Txs, NEW method, NEW first, NEW u \in Users, NEW i, NEW change,
         Begin(t, method, first, u, i, change),
         \/ method = "keep" /\ first = "lock" /\ i = None /\ change \in Changes
         \/ method = "first" /\ first = "user" /\ i = None /\ change = None
         \/ /\ method \in {"claim", "signup"} /\ first = "invite" /\ i \in Invites /\ change \in S!Roles
            /\ method = "claim" => u \in account
  PROVE  PgInv'
<1>1. Tables BY Zenon DEF PgInv
<1>2. /\ pc[t] = "idle" /\ member' = member /\ account' = account /\ invite' = invite
      /\ inserted' = inserted /\ overtaken' = overtaken /\ UNCHANGED rows
  BY Zenon DEF Begin, marks, rows
<1>3. /\ op'[t] = method /\ pc'[t] = first /\ user'[t] = u /\ inv'[t] = i /\ to'[t] = change /\ Others(t)
  BY Zenon, <1>1, <1>2 DEF Begin, Tables, Others
<1>4. /\ method \in {None, "keep", "claim", "signup", "first"} /\ first \in {"lock", "invite", "user"}
      /\ i \in Invites \cup {None} /\ change \in Changes \cup {None}
  BY Zenon DEF Changes
<1>5. /\ op' \in [Txs -> {None, "keep", "claim", "signup", "first"}]
      /\ pc' \in [Txs -> {"idle", "lock", "read", "count", "write", "invite", "user", "insert", "join", "commit"}]
      /\ user' \in [Txs -> Users \cup {None}] /\ inv' \in [Txs -> Invites \cup {None}]
      /\ to' \in [Txs -> Changes \cup {None}]
  BY Zenon, <1>1, <1>4 DEF Begin, Tables
<1>6. Tables' BY Zenon, <1>1, <1>2, <1>5 DEF Tables, S!Rows, S!NoMember, S!Roles
<1>7. Stage(t)' BY <1>2, <1>3 DEF Stage, S!Roles, Changes
<1>8. t \notin inserted' BY <1>2 DEF PgInv, Inserting
<1>9. /\ (InviteLocked(t) /\ UserLocked(t) /\ Counted(t))'
      /\ ~HoldsOrg(t)' /\ ~SharesOrg(t)'
      /\ \A s \in Txs : ~HoldsMember(t, user[s])' /\ ~HoldsUser(t, user[s])' /\ ~HoldsInvite(t, inv[s])'
  <2>1. pc'[t] \notin {"read", "count", "write", "insert", "commit"}
    BY <1>3, <1>4
  <2>2. pc'[t] = "user" => op'[t] \notin {"claim", "signup"}
    BY <1>3
  <2> QED BY Zenon, <1>8, <2>1, <2>2
      DEF InviteLocked, UserLocked, Counted, HoldsOrg, SharesOrg, HoldsMember, HoldsUser, HoldsInvite
<1>10. /\ \A s \in inserted \ {t} : member'[user[s]] = S!NoMember
       /\ \A s \in Txs \ {t} : HoldsInvite(s, inv[s]) => inv[s] \in invite'
       /\ \A s \in Txs \ {t} : HoldsUser(s, user[s]) => user[s] \notin account'
       /\ \A s \in Txs \ {t} : Counted(s)'
  BY Zenon, <1>2, <1>3, SameRows
<1> QED BY Zenon, <1>2, <1>3, <1>6, <1>7, <1>8, <1>9, <1>10, Combine

\* The start of a transaction keeps the invariant.
LEMMA BeginsKeep == ASSUME PgInv, NEW t \in Txs, Begins(t) PROVE PgInv'
<1>1. invite \subseteq Invites BY Zenon DEF PgInv, Tables
<1>2. PICK u \in Users :
        \/ \E change \in Changes : Begin(t, "keep", "lock", u, None, change)
        \/ u \notin account /\ (\A v \in Users : member[v].role # "owner") /\ Begin(t, "first", "user", u, None, None)
        \/ \E i \in invite, role \in S!Roles :
             \/ u \in account /\ Begin(t, "claim", "invite", u, i, role)
             \/ u \notin account /\ Begin(t, "signup", "invite", u, i, role)
  BY Zenon DEF Begins
<1>3. ASSUME NEW change \in Changes, Begin(t, "keep", "lock", u, None, change) PROVE PgInv'
  BY Zenon, <1>3, BeginKeeps
<1>4. ASSUME Begin(t, "first", "user", u, None, None) PROVE PgInv'
  BY Zenon, <1>4, BeginKeeps
<1>5. ASSUME NEW i \in invite, NEW role \in S!Roles, u \in account, Begin(t, "claim", "invite", u, i, role) PROVE PgInv'
  BY Zenon, <1>1, <1>5, BeginKeeps
<1>6. ASSUME NEW i \in invite, NEW role \in S!Roles, Begin(t, "signup", "invite", u, i, role) PROVE PgInv'
  <2>1. "signup" # "claim" BY SMT
  <2> QED BY Zenon, <1>1, <1>6, <2>1, BeginKeeps
<1> QED BY Zenon, <1>2, <1>3, <1>4, <1>5, <1>6

\* Every statement keeps the invariant.
LEMMA PgStep == ASSUME PgInv, [Next]_pgVars PROVE PgInv'
<1>1. ASSUME UNCHANGED pgVars PROVE PgInv'
  <2>1. UNCHANGED <<member, account, pc, args, marks>> /\ invite' = invite
    BY Zenon, <1>1 DEF pgVars, args, marks
  <2> QED BY Zenon, <2>1, InvitesKeep DEF PgInv, Tables, InviteLocked
<1> QED BY Zenon, <1>1, BeginsKeep, RollbackKeeps, LockOrgKeeps, ReadTargetKeeps, CountOwnersKeeps,
           WriteMemberKeeps, CommitKeepKeeps, TakeInviteKeeps, InsertUserKeeps, InsertMemberKeeps,
           CommitClaimKeeps, CreateUserKeeps, CreateMembershipKeeps, InviteStepsKeep DEF Next

-----------------------------------------------------------------------------

\* The commit of a transaction that nobody overtook is a call that keeps an owner.
LEMMA CommitKeepAtomic ==
  ASSUME PgInv, NEW t \in Txs, CommitKeep(t), t \notin overtaken
  PROVE  S!Next
<1>1. /\ user[t] \in Users /\ to[t] \in Changes /\ member[user[t]] \in S!Rows /\ member[user[t]] # S!NoMember
  BY Zenon, KeepKnows DEF CommitKeep
<1> DEFINE row == Changed(member[user[t]], to[t])
<1>2. row \in S!Rows \cup {S!NoMember} BY Zenon, <1>1, ChangedRow
<1>3. /\ member' = [member EXCEPT ![user[t]] = row] /\ UNCHANGED <<account, invite>> BY Zenon DEF CommitKeep
<1>4. ASSUME S!LastOwner(user[t]) PROVE row.role = "owner" /\ ~row.off
  <2>1. S!ActiveOwner(user[t]) /\ ~\E v \in Users \ {user[t]} : S!ActiveOwner(v) BY Zenon, <1>4 DEF S!LastOwner
  <2>2. Counted(t) /\ op[t] = "keep" /\ pc[t] = "commit" BY Zenon DEF PgInv, CommitKeep
  <2>3. to[t] \in {"owner", "enabled"} BY Zenon, <2>1, <2>2 DEF Counted, EndsOwner
  <2>4. CASE to[t] = "owner"
    BY <1>1, <2>1, <2>4 DEF Changed, S!Rows, S!ActiveOwner
  <2>5. CASE to[t] = "enabled"
    BY <1>1, <2>1, <2>5 DEF Changed, S!Rows, S!ActiveOwner
  <2> QED BY Zenon, <2>3, <2>4, <2>5
<1> HIDE DEF row
<1>5. S!KeepOwner(user[t], row) BY Zenon, <1>1, <1>3, <1>4 DEF S!KeepOwner
<1> QED BY Zenon, <1>1, <1>2, <1>5 DEF S!Next

\* The commit of a claim exchanges one invite for one membership, or deletes the invite
\* of a user who is a member.
LEMMA CommitClaimAtomic == ASSUME PgInv, NEW t \in Txs, CommitClaim(t) PROVE S!Next
<1>1. /\ user[t] \in Users /\ inv[t] \in Invites /\ to[t] \in S!Roles /\ inv[t] \in invite
      /\ op[t] = "claim" => user[t] \in account
      /\ op[t] = "signup" => t \in inserted
      /\ t \in inserted => member[user[t]] = S!NoMember
  BY Zenon, ClaimKnows DEF CommitClaim
<1>2. /\ op[t] \in {"claim", "signup"} /\ invite' = invite \ {inv[t]}
      /\ member' = IF t \in inserted THEN [member EXCEPT ![user[t]] = [role |-> to[t], off |-> FALSE]] ELSE member
      /\ account' = IF op[t] = "signup" THEN account \cup {user[t]} ELSE account
  BY Zenon DEF CommitClaim
<1>3. CASE t \in inserted
  <2>1. account' = account \cup {user[t]} BY Zenon, <1>1, <1>2
  <2>2. S!ClaimInvite(inv[t], user[t], to[t]) BY Zenon, <1>1, <1>2, <1>3, <2>1 DEF S!ClaimInvite
  <2> QED BY Zenon, <1>1, <2>2 DEF S!Next
<1>4. CASE t \notin inserted
  <2>1. op[t] # "signup" /\ UNCHANGED <<member, account>> BY Zenon, <1>1, <1>2, <1>4
  <2>2. S!DeleteInvite(inv[t]) BY Zenon, <1>2, <2>1 DEF S!DeleteInvite
  <2> QED BY Zenon, <1>1, <2>2 DEF S!Next
<1> QED BY Zenon, <1>3, <1>4

\* Every step is a call of the store or changes none of its rows.
LEMMA AtomicStep == ASSUME PgInv, [Next]_pgVars PROVE [Atomic]_pgVars
<1> SUFFICES ASSUME Next PROVE Atomic BY Zenon
<1>1. ASSUME NEW t \in Txs, CommitKeep(t) PROVE Atomic
  BY Zenon, <1>1, CommitKeepAtomic DEF Atomic
<1>2. ASSUME NEW t \in Txs, CommitClaim(t) PROVE Atomic
  BY Zenon, <1>2, CommitClaimAtomic DEF Atomic
<1>3. ASSUME NEW t \in Txs, CreateUser(t) PROVE Atomic
  <2>1. Stage(t) /\ op[t] = "first" BY Zenon, <1>3 DEF CreateUser, PgInv
  <2>2. user[t] \in Users BY <2>1 DEF Stage, None, PgInv, Tables
  <2>3. S!CreateUser(user[t]) BY Zenon, <1>3 DEF CreateUser, S!CreateUser
  <2> QED BY Zenon, <2>2, <2>3 DEF Atomic, S!Next
<1>4. ASSUME NEW t \in Txs, CreateMembership(t) PROVE Atomic
  <2>1. Stage(t) /\ pc[t] = "join" /\ account \subseteq Users BY Zenon, <1>4 DEF CreateMembership, PgInv, Tables
  <2>2. user[t] \in account /\ user[t] \in Users BY <2>1 DEF Stage
  <2>3. S!CreateMembership(user[t]) BY Zenon, <1>4, <2>2 DEF CreateMembership, S!CreateMembership
  <2> QED BY Zenon, <2>2, <2>3 DEF Atomic, S!Next
<1>5. ASSUME NEW i \in Invites, CreateInvite(i) \/ DeleteInvite(i) PROVE Atomic
  <2>1. S!CreateInvite(i) \/ S!DeleteInvite(i)
    BY Zenon, <1>5 DEF CreateInvite, DeleteInvite, S!CreateInvite, S!DeleteInvite
  <2> QED BY Zenon, <2>1 DEF Atomic, S!Next
<1>6. ASSUME NEW t \in Txs,
             \/ Begins(t) \/ Rollback(t) \/ LockOrg(t) \/ ReadTarget(t) \/ CountOwners(t) \/ WriteMember(t)
             \/ TakeInvite(t) \/ InsertUser(t) \/ InsertMember(t)
      PROVE  Atomic
  <2>1. UNCHANGED rows
    BY Zenon, <1>6 DEF Begins, Begin, Rollback, LockOrg, ReadTarget, CountOwners, WriteMember, TakeInvite, InsertUser,
                       InsertMember, rows
  <2> QED BY Zenon, <2>1 DEF Atomic
<1> QED BY Zenon, <1>1, <1>2, <1>3, <1>4, <1>5, <1>6 DEF Next

\* The transactions of the Postgres store change the rows as calls of a store that takes
\* one at a time: an owner is kept and an invite exchanged once, for any number of users,
\* invites and connections (DemoteOrRemoveMembershipKeepingOwner,
\* SetMembershipDisabledKeepingOwner, ClaimInviteCreatingMembership and
\* CreateUserWithMembershipClaimingInvite).
THEOREM TransactionsAreCalls == Spec => [][Atomic]_pgVars
<1>1. Init => PgInv BY InitPg
<1>2. PgInv /\ [Next]_pgVars => PgInv' BY PgStep
<1>3. PgInv /\ [Next]_pgVars => [Atomic]_pgVars BY AtomicStep
<1> QED BY <1>1, <1>2, <1>3, PTL DEF Spec

-----------------------------------------------------------------------------

\* No call of the store takes the last active owner: whoever is one stays one, or
\* another one was counted, or the row that is written is one.
LEMMA CallsKeepOwner ==
  ASSUME member \in [Users -> S!Rows \cup {S!NoMember}], S!Next PROVE S!OwnerStays
<1> SUFFICES ASSUME NEW o \in Users, S!ActiveOwner(o) PROVE S!HasOwner'
  BY Zenon DEF S!OwnerStays, S!HasOwner
<1>1. ASSUME member'[o] = member[o] PROVE S!HasOwner'
  BY Zenon, <1>1 DEF S!ActiveOwner, S!HasOwner
<1>2. ASSUME UNCHANGED member PROVE S!HasOwner'
  BY Zenon, <1>1, <1>2
<1>3. ASSUME NEW u \in Users, S!CreateMembership(u) PROVE S!HasOwner'
  <2>1. member' = [member EXCEPT ![u].role = "owner"] BY Zenon, <1>3 DEF S!CreateMembership
  <2>2. CASE u # o
    <3>1. member'[o] = member[o] BY <2>1, <2>2
    <3> QED BY Zenon, <1>1, <3>1
  <2>3. CASE u = o
    <3>1. member'[o].role = "owner" /\ member'[o].off = member[o].off
      BY <2>1, <2>3 DEF S!Rows, S!NoMember
    <3> QED BY Zenon, <3>1 DEF S!ActiveOwner, S!HasOwner
  <2> QED BY Zenon, <2>2, <2>3
<1>4. ASSUME NEW u \in Users, NEW row \in S!Rows \cup {S!NoMember}, S!KeepOwner(u, row) PROVE S!HasOwner'
  <2>1. /\ member' = [member EXCEPT ![u] = row]
        /\ S!LastOwner(u) => row.role = "owner" /\ ~row.off
    BY Zenon, <1>4 DEF S!KeepOwner
  <2>2. ASSUME NEW v \in Users, v # u, S!ActiveOwner(v) PROVE S!HasOwner'
    <3>1. member'[v] = member[v] BY <2>1, <2>2
    <3> QED BY Zenon, <2>2, <3>1 DEF S!ActiveOwner, S!HasOwner
  <2>3. CASE u = o /\ S!LastOwner(o)
    <3>1. member'[o] = row BY <2>1, <2>3
    <3> QED BY Zenon, <2>1, <2>3, <3>1 DEF S!ActiveOwner, S!HasOwner
  <2> QED BY Zenon, <2>2, <2>3 DEF S!LastOwner
<1>5. ASSUME NEW i \in Invites, NEW u \in Users, NEW role \in S!Roles, S!ClaimInvite(i, u, role) PROVE S!HasOwner'
  <2>1. u # o BY <1>5 DEF S!ClaimInvite, S!ActiveOwner, S!NoMember
  <2>2. member'[o] = member[o] BY <1>5, <2>1 DEF S!ClaimInvite
  <2> QED BY Zenon, <1>1, <2>2
<1>6. ASSUME NEW x, S!CreateUser(x) \/ S!CreateInvite(x) \/ S!DeleteInvite(x) PROVE S!HasOwner'
  BY Zenon, <1>2, <1>6 DEF S!CreateUser, S!CreateInvite, S!DeleteInvite
<1> QED BY Zenon, <1>3, <1>4, <1>5, <1>6 DEF S!Next

\* Transactions that overlap do not leave an organisation without an active owner, but
\* for a change of a member who was made an owner between its SELECT and its UPDATE
\* (the methods ending in KeepingOwner, which lock the row of the organisation).
THEOREM OverlapsKeepOwner ==
  Spec => [][S!OwnerStays \/ \E t \in overtaken : CommitKeep(t)]_pgVars
<1>1. Init => PgInv BY InitPg
<1>2. PgInv /\ [Next]_pgVars => PgInv' BY PgStep
<1>3. ASSUME PgInv, [Next]_pgVars
      PROVE  [S!OwnerStays \/ \E t \in overtaken : CommitKeep(t)]_pgVars
  <2>1. [Atomic]_pgVars BY Zenon, <1>3, AtomicStep
  <2>2. member \in [Users -> S!Rows \cup {S!NoMember}] BY Zenon, <1>3 DEF PgInv, Tables
  <2>3. ASSUME UNCHANGED rows PROVE S!OwnerStays
    BY Zenon, <2>3 DEF rows, S!OwnerStays, S!HasOwner, S!ActiveOwner
  <2> QED BY Zenon, <2>1, <2>2, <2>3, CallsKeepOwner DEF Atomic
<1>4. PgInv /\ [Next]_pgVars => [S!OwnerStays \/ \E t \in overtaken : CommitKeep(t)]_pgVars
  BY Zenon, <1>3
<1> QED BY <1>1, <1>2, <1>4, PTL DEF Spec

================================================================================
