------------------------------ MODULE AgentTokens ------------------------------
(***************************************************************************)
(* One agent, its tokens and its connection, while users rotate the token, *)
(* revoke, rename, disable and delete the agent and the agent connects.    *)
(* Every store call is one step; the handlers hold no lock between them.   *)
(***************************************************************************)
EXTENDS Naturals

CONSTANTS
  Reqs,       \* requests under way at one time
  MaxTokens,  \* bound: tokens ever issued
  MaxOps      \* bound: requests a behaviour makes

Tokens == 1 .. MaxTokens
None == "none"

VARIABLES
  status,   \* the agent row: its status, or gone
  valid,    \* tokens that are not revoked
  issued,   \* tokens issued so far
  conn,     \* the token of the connection the gateway serves, or 0
  req,      \* the requests
  ops,      \* requests made so far
  dead      \* tokens a finished rotation or revocation has put out of use

tokenVars == <<status, valid, issued, conn, req, ops, dead>>

Idle == [pc |-> "idle", op |-> None, copy |-> None, prev |-> {}, tok |-> 0]

Statuses == {"active", "disabled", "revoked"}

TypeOK ==
  /\ status \in Statuses \cup {"gone"}
  /\ valid \subseteq 1 .. issued /\ issued \in 1 .. MaxTokens /\ conn \in 0 .. issued
  /\ dead \subseteq 1 .. issued /\ ops \in 0 .. MaxOps

\* An agent is created with one token.
CreateAgent == status = "active" /\ issued = 1 /\ valid = {1}

Init == CreateAgent /\ conn = 0 /\ req = [q \in Reqs |-> Idle] /\ ops = 0 /\ dead = {}

-----------------------------------------------------------------------------
(* The store.                                                              *)

\* UPDATE agents SET status: the row that was read is written back as a whole.
UpdateAgent(s) == status' = (IF status = "gone" THEN status ELSE s)

DeleteAgentRow == status' = "gone"

GetTokenByHash(t) == t \in valid

ListTokensByAgent == valid

IssueToken == issued < MaxTokens /\ issued' = issued + 1 /\ valid' = valid \cup {issued + 1}

RevokeToken(t) == valid' = valid \ {t}

\* A mutant: the status is all that a revocation changes.
BugRevokeTokensByAgent == valid' = valid

RevokeTokensByAgent == valid' = {}

-----------------------------------------------------------------------------
(* Requests.                                                               *)

Go(q, r) == req' = [req EXCEPT ![q] = r]
Done(q) == Go(q, Idle)

Begin(q, r) ==
  /\ req[q] = Idle /\ ops < MaxOps /\ ops' = ops + 1
  /\ Go(q, r)
  /\ UNCHANGED <<status, valid, issued, conn, dead>>

\* closeAgentConn: whatever connection is there now.
CloseAgentConn == conn' = 0

RotateToken(q) ==
  \/ status # "gone" /\ Begin(q, [Idle EXCEPT !.pc = "issue", !.op = "rotate", !.prev = ListTokensByAgent])
  \/ /\ req[q].pc = "issue"
     /\ IssueToken /\ Go(q, [req[q] EXCEPT !.pc = "old", !.tok = issued + 1, !.copy = req[q].prev])
     /\ UNCHANGED <<status, conn, ops, dead>>
  \/ /\ req[q].pc = "old" /\ req[q].prev # {}
     /\ \E t \in req[q].prev : RevokeToken(t) /\ Go(q, [req[q] EXCEPT !.prev = @ \ {t}])
     /\ UNCHANGED <<status, issued, conn, ops, dead>>
  \/ \* the store fails, and the rest of the old tokens stays
     /\ req[q].pc = "old" /\ req[q].prev # {}
     /\ Done(q) /\ UNCHANGED <<status, valid, issued, conn, ops, dead>>
  \/ /\ req[q].pc = "old" /\ req[q].prev = {}
     /\ CloseAgentConn /\ dead' = dead \cup req[q].copy /\ Done(q)
     /\ UNCHANGED <<status, valid, issued, ops>>

RevokeAgent(q) ==
  \/ status # "gone" /\ Begin(q, [Idle EXCEPT !.pc = "revoke", !.op = "revoke"])
  \/ /\ req[q].pc = "revoke"
     /\ UpdateAgent("revoked") /\ Go(q, [req[q] EXCEPT !.pc = "tokens"])
     /\ UNCHANGED <<valid, issued, conn, ops, dead>>
  \/ /\ req[q].pc = "tokens"
     /\ RevokeTokensByAgent /\ Go(q, [req[q] EXCEPT !.pc = "close", !.prev = 1 .. issued])
     /\ UNCHANGED <<status, issued, conn, ops, dead>>
  \/ /\ req[q].pc = "close"
     /\ CloseAgentConn /\ dead' = dead \cup req[q].prev /\ Done(q)
     /\ UNCHANGED <<status, valid, issued, ops>>

\* PATCH: the status asked for, or the one that was read; revoked is left to RevokeAgent.
PatchAgent(q) ==
  \/ \E s \in Statuses \cup {None} :
       status # "gone" /\ Begin(q, [Idle EXCEPT !.pc = "patch", !.op = s, !.copy = IF s \in {None, "revoked"} THEN status ELSE s])
  \/ /\ req[q].pc = "patch"
     /\ UpdateAgent(req[q].copy)
     /\ IF status = "gone" THEN Done(q)
        ELSE Go(q, [Idle EXCEPT !.pc = CASE req[q].op = "revoked" -> "revoke" [] req[q].op = "disabled" -> "disable" [] OTHER -> "idle"])
     /\ UNCHANGED <<valid, issued, conn, ops, dead>>
  \/ /\ req[q].pc = "disable"
     /\ CloseAgentConn /\ Done(q)
     /\ UNCHANGED <<status, valid, issued, ops, dead>>

DeleteAgent(q) ==
  \/ status = "revoked" /\ Begin(q, [Idle EXCEPT !.pc = "delete"])
  \/ /\ req[q].pc = "delete"
     /\ DeleteAgentRow /\ Done(q)
     /\ UNCHANGED <<valid, issued, conn, ops, dead>>

\* A handshake reads the token, then the agent, then adds its connection.
AuthenticateAgent(q) ==
  \/ \E t \in 1 .. issued : GetTokenByHash(t) /\ Begin(q, [Idle EXCEPT !.pc = "agent", !.tok = t])
  \/ /\ req[q].pc = "agent"
     /\ IF status = "active" THEN Go(q, [req[q] EXCEPT !.pc = "accept"]) ELSE Done(q)
     /\ UNCHANGED <<status, valid, issued, conn, ops, dead>>

HandleAgentConnect(q) ==
  /\ req[q].pc = "accept"
  /\ conn' = req[q].tok /\ Done(q)
  /\ UNCHANGED <<status, valid, issued, ops, dead>>

Disconnect ==
  /\ conn # 0 /\ CloseAgentConn
  /\ UNCHANGED <<status, valid, issued, req, ops, dead>>

Next ==
  \/ \E q \in Reqs :
       \/ RotateToken(q) \/ RevokeAgent(q) \/ PatchAgent(q) \/ DeleteAgent(q)
       \/ AuthenticateAgent(q) \/ HandleAgentConnect(q)
  \/ Disconnect

Spec == Init /\ [][Next]_tokenVars

-----------------------------------------------------------------------------
(* Properties.                                                             *)

\* Once a rotation or a revocation has answered, the tokens there were before it
\* open no new connection, even when a rename that had read the agent before the
\* revocation has made it active again: only a handshake that had already read its
\* token, or a token issued meanwhile, gets through.
OldTokensRefused == dead \cap valid = {}

=============================================================================
