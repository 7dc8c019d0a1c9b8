----------------------------- MODULE MachineTokens -----------------------------
(***************************************************************************)
(* Service accounts and the access tokens issued to them: by client secret *)
(* and by an assertion of a trusted issuer, whose keys are cached.  Every   *)
(* store call is one step; the handlers hold no lock between them.  One     *)
(* issuer and one subject, which several accounts may trust.                *)
(***************************************************************************)
EXTENDS Naturals, FiniteSets

CONSTANTS
  Accounts,    \* service accounts
  Reqs,        \* requests under way at one time
  Assertions,  \* what the issuer has signed: [jti, kid, aud, iat, exp]
  Kids,        \* keys of the issuer, in the order in which it uses them
  Auds,        \* audiences
  MaxSecret,   \* bound: secrets made for an account
  MaxSess,     \* bound: tokens issued
  MaxOps,      \* bound: requests a behaviour makes
  MaxNow,      \* bound: the clock
  KeysTTL, UnknownKidBackoff, ClockSkew, MaxLifetime, AccessTokenTTL

None == "none"

VARIABLES
  sa,       \* rows of accounts: the secret (0: no such row) and whether it is disabled
  trust,    \* rows of workload identities: the audience an account trusts
  sess,     \* token sessions
  once,     \* claimed assertion ids and when the claim ends
  cache,    \* the keys of the issuer: which, when fetched, when last asked for
  key,      \* the key the issuer publishes
  left,     \* when it took a key back
  req, now, ops, issued, made,
  ended,    \* sessions that an answered rotation, disabling or deletion has ended
  used      \* times an assertion was claimed before its end

machineVars == <<sa, trust, sess, once, cache, key, left, req, now, ops, issued, made, ended, used>>

NoClaims == CHOOSE a \in Assertions : TRUE
Idle == [pc |-> "idle", op |-> None, acct |-> None, row |-> [secret |-> 0, disabled |-> FALSE],
         trusted |-> [a \in Accounts |-> None], claims |-> NoClaims, sid |-> 0, old |-> {}]

TypeOK ==
  /\ \A a \in Accounts : sa[a].secret \in 0 .. made /\ trust[a] \in Auds \cup {None}
  /\ \A s \in sess : s.id \in 1 .. issued /\ s.acct \in Accounts
  /\ cache.keys \subseteq Kids /\ key \in Kids /\ now \in 0 .. MaxNow
  /\ issued \in 0 .. MaxSess /\ made \in 0 .. MaxSecret /\ ops \in 0 .. MaxOps

Init ==
  /\ sa = [a \in Accounts |-> [secret |-> 0, disabled |-> FALSE]]
  /\ trust = [a \in Accounts |-> None] /\ sess = {}
  /\ once = [j \in {x.jti : x \in Assertions} |-> 0]
  /\ cache = [keys |-> {}, fetched |-> 0, asked |-> 0]
  /\ key = 1 /\ left = [k \in Kids |-> 0]
  /\ req = [q \in Reqs |-> Idle] /\ now = 0 /\ ops = 0 /\ issued = 0 /\ made = 0
  /\ ended = {} /\ used = [j \in {x.jti : x \in Assertions} |-> 0]

-----------------------------------------------------------------------------
Rows == <<sa, trust>>
Clock == <<now, key, left>>
Issuer == <<cache, once, used>>
Tokens == <<sess, issued, ended>>

Go(q, r) == req' = [req EXCEPT ![q] = r]
Done(q) == Go(q, Idle)

Begin(q, r) == req[q] = Idle /\ ops < MaxOps /\ ops' = ops + 1 /\ Go(q, r)

\* A store call fails, a limiter refuses or the client is gone: the handler ends where it is.
Fail(q) == req[q] # Idle /\ Done(q) /\ UNCHANGED <<Rows, Clock, Issuer, Tokens, ops, made>>

Present(a) == sa[a].secret # 0

CreateServiceAccount(a) ==
  /\ ~Present(a) /\ made < MaxSecret /\ made' = made + 1
  /\ sa' = [sa EXCEPT ![a] = [secret |-> made + 1, disabled |-> FALSE]]
  /\ UNCHANGED <<trust, Clock, Issuer, Tokens, req, ops>>

-----------------------------------------------------------------------------
(* Grants.                                                                 *)

AuthenticateClient(a, s) == Present(a) /\ s = sa[a].secret /\ ~sa[a].disabled

\* clientCredentialsGrant up to the token: what does not authenticate changes nothing.
ClientCredentialsGrant(q) ==
  \E a \in Accounts, s \in 1 .. made :
    /\ AuthenticateClient(a, s)
    /\ Begin(q, [Idle EXCEPT !.pc = "issue", !.op = "grant", !.acct = a])
    /\ UNCHANGED <<Rows, Clock, Issuer, Tokens, made>>

PutTokenSession(s) == sess' = sess \cup {s}

\* A new session for the account, of one hour.
Issue(a) ==
  /\ issued < MaxSess /\ issued' = issued + 1
  /\ PutTokenSession([id |-> issued + 1, acct |-> a, exp |-> now + AccessTokenTTL])

IssueServiceAccountToken(q) ==
  /\ req[q].pc = "issue" /\ Issue(req[q].acct) /\ Done(q)
  /\ UNCHANGED <<Rows, Clock, Issuer, ended, ops, made>>

WorkloadAssertionGrant(q) ==
  /\ \E x \in Assertions, a \in Accounts \cup {None} :
       Begin(q, [Idle EXCEPT !.pc = "keys", !.op = "assert", !.acct = a, !.claims = x, !.trusted = trust])
  /\ \E a \in Accounts : trust[a] # None
  /\ UNCHANGED <<Rows, Clock, Issuer, Tokens, made>>

\* The key is there, and may sign.
SelectKeys(keys, kid) == keys \cap {kid}

Stale == cache.keys = {} \/ now - cache.fetched > KeysTTL

Locked == \E q \in Reqs : req[q].pc = "fetch"

\* go-jose takes an expiry as passed when now - leeway is after it.
ValidClaims(c) ==
  /\ now <= c.exp + ClockSkew /\ c.iat <= now + ClockSkew
  /\ c.exp - c.iat <= MaxLifetime

Verified(q, keys) ==
  IF SelectKeys(keys, req[q].claims.kid) # {} /\ ValidClaims(req[q].claims)
  THEN Go(q, [req[q] EXCEPT !.pc = "match", !.sid = now])
  ELSE Done(q)

\* The lock of the issuer is held over a fetch; asked counts from one, so that 0 is never.
KeysFor(q) ==
  /\ req[q].pc = "keys" /\ ~Locked
  /\ LET known == SelectKeys(cache.keys, req[q].claims.kid) # {}
         waits == cache.asked # 0 /\ now < cache.asked - 1 + UnknownKidBackoff IN
     CASE ~Stale /\ known -> Verified(q, cache.keys) /\ UNCHANGED cache
       [] ~Stale /\ ~known /\ waits -> Done(q) /\ UNCHANGED cache
       [] OTHER -> Go(q, [req[q] EXCEPT !.pc = "fetch", !.sid = now]) /\ cache' = [cache EXCEPT !.asked = now + 1]
  /\ UNCHANGED <<Rows, Clock, once, used, Tokens, ops, made>>

FetchKeys(q) ==
  /\ req[q].pc = "fetch"
  /\ cache' = [cache EXCEPT !.keys = {key}, !.fetched = req[q].sid]
  /\ Verified(q, {key})
  /\ UNCHANGED <<Rows, Clock, once, used, Tokens, ops, made>>

Matches(q) == {a \in Accounts : req[q].trusted[a] = req[q].claims.aud /\ req[q].acct \in {None, a}}

\* Two reads of the one account count as one: a row that is gone stays gone.
MatchWorkloadServiceAccount(q) ==
  /\ req[q].pc = "match"
  /\ IF Cardinality(Matches(q)) = 1 /\ \A a \in Matches(q) : Present(a) /\ ~sa[a].disabled
     THEN Go(q, [req[q] EXCEPT !.pc = "claim", !.acct = CHOOSE a \in Matches(q) : TRUE])
     ELSE Done(q)
  /\ UNCHANGED <<Rows, Clock, Issuer, Tokens, ops, made>>

Ends(c) == c.exp + ClockSkew

\* now + (exp - now + ClockSkew)
ClaimEnd(c) == c.exp + ClockSkew

\* ClaimOnce of the memory store: an entry that has ended counts as absent.
Fresh(j) == now >= once[j]
ClaimOnce(j, end) == once' = [once EXCEPT ![j] = end]

ClaimAssertionOnce(q) ==
  LET c == req[q].claims IN
  /\ req[q].pc = "claim"
  /\ IF ~Fresh(c.jti) THEN Done(q) /\ UNCHANGED <<once, used>>
     ELSE /\ ClaimOnce(c.jti, ClaimEnd(c))
          /\ used' = IF now < Ends(c) THEN [used EXCEPT ![c.jti] = @ + 1] ELSE used
          /\ Go(q, [Idle EXCEPT !.pc = "issue", !.op = "assert", !.acct = req[q].acct])
  /\ UNCHANGED <<Rows, Clock, cache, Tokens, ops, made>>

-----------------------------------------------------------------------------
(* Changes of an account.  Each reads the row, writes it and revokes.      *)

Scoped(q, op) ==
  \E a \in Accounts :
    /\ Present(a)
    /\ Begin(q, [Idle EXCEPT !.pc = "write", !.op = op, !.acct = a, !.row = sa[a]])
    /\ UNCHANGED <<Rows, Clock, Issuer, Tokens, made>>

OfAccount(a) == {s \in sess : s.acct = a}

\* After the write: the sessions there are now have to go before the answer.
Revoking(q) == Go(q, [req[q] EXCEPT !.pc = "revoke", !.old = {s.id : s \in OfAccount(req[q].acct)}])

\* UpdateServiceAccount writes every column back; a row that is gone is not found.
UpdateServiceAccount(a, row) == sa' = IF Present(a) THEN [sa EXCEPT ![a] = row] ELSE sa

PatchServiceAccount(q) ==
  \/ \E d \in {"keep", "disable", "enable"} : Scoped(q, d)
  \/ LET r == req[q]
         off == IF r.op = "keep" THEN r.row.disabled ELSE r.op = "disable" IN
     /\ r.pc = "write" /\ r.op \in {"keep", "disable", "enable"}
     /\ UpdateServiceAccount(r.acct, [r.row EXCEPT !.disabled = off])
     /\ IF Present(r.acct) /\ r.op = "disable" /\ ~r.row.disabled THEN Revoking(q) ELSE Done(q)
     /\ UNCHANGED <<trust, Clock, Issuer, Tokens, ops, made>>

RotateServiceAccount(q) ==
  \/ Scoped(q, "rotate")
  \/ LET r == req[q] IN
     /\ r.pc = "write" /\ r.op = "rotate" /\ made < MaxSecret
     /\ IF Present(r.acct) THEN Revoking(q) /\ made' = made + 1 ELSE Done(q) /\ UNCHANGED made
     /\ UpdateServiceAccount(r.acct, [r.row EXCEPT !.secret = made + 1])
     /\ UNCHANGED <<trust, Clock, Issuer, Tokens, ops>>

\* The identities of the account go with its row (ON DELETE CASCADE).
DeleteRow(a) ==
  /\ sa' = [sa EXCEPT ![a] = [secret |-> 0, disabled |-> FALSE]]
  /\ trust' = [trust EXCEPT ![a] = None]

DeleteServiceAccount(q) ==
  \/ Scoped(q, "delete")
  \/ LET r == req[q] IN
     /\ r.pc = "write" /\ r.op = "delete"
     /\ DeleteRow(r.acct)
     /\ IF Present(r.acct) THEN Revoking(q) ELSE Done(q)
     /\ UNCHANGED <<Clock, Issuer, Tokens, ops, made>>

RevokeSubject(a) == sess' = sess \ OfAccount(a)

\* A mutant: the sessions of an account outlive its change.
BugRevokeServiceAccount(q) ==
  /\ req[q].pc = "revoke" /\ ended' = ended \cup req[q].old /\ Done(q)
  /\ UNCHANGED <<Rows, Clock, Issuer, sess, issued, ops, made>>

RevokeServiceAccount(q) ==
  /\ req[q].pc = "revoke"
  /\ RevokeSubject(req[q].acct)
  /\ ended' = ended \cup req[q].old
  /\ Done(q)
  /\ UNCHANGED <<Rows, Clock, Issuer, issued, ops, made>>

\* Nothing for an account that is gone, and one row for an issuer and a subject.
InsertIdentity(a, d) == trust' = IF Present(a) /\ trust[a] = None THEN [trust EXCEPT ![a] = d] ELSE trust

CreateWorkloadIdentity(q) ==
  \/ Scoped(q, "trust")
  \/ LET r == req[q] IN
     /\ r.pc = "write" /\ r.op = "trust" /\ Done(q)
     /\ \E d \in Auds : InsertIdentity(r.acct, d)
     /\ UNCHANGED <<sa, Clock, Issuer, Tokens, ops, made>>

DeleteWorkloadIdentity(a) ==
  /\ trust[a] # None /\ trust' = [trust EXCEPT ![a] = None]
  /\ UNCHANGED <<sa, Clock, Issuer, Tokens, req, ops, made>>

-----------------------------------------------------------------------------
(* The use of a token.                                                     *)

Authenticates(s) == now < s.exp

AuthorizeMachine(q) ==
  \/ \E s \in sess :
       /\ Authenticates(s)
       /\ Begin(q, [Idle EXCEPT !.pc = "account", !.op = "use", !.acct = s.acct, !.sid = s.id, !.old = ended])
       /\ UNCHANGED <<Rows, Clock, Issuer, Tokens, made>>
  \/ /\ req[q].pc = "account"
     /\ IF Present(req[q].acct) /\ ~sa[req[q].acct].disabled THEN Go(q, [req[q] EXCEPT !.pc = "served"]) ELSE Done(q)
     /\ UNCHANGED <<Rows, Clock, Issuer, Tokens, ops, made>>

\* A session that has expired is not found.
Unexpired(t) == {s \in sess : t < s.exp}

Tick ==
  /\ now < MaxNow /\ now' = now + 1
  /\ sess' = Unexpired(now + 1)
  /\ UNCHANGED <<Rows, key, left, Issuer, issued, ended, req, ops, made>>

IssuerRotates ==
  /\ key + 1 \in Kids /\ key' = key + 1 /\ left' = [left EXCEPT ![key] = now]
  /\ UNCHANGED <<Rows, Issuer, Tokens, req, now, ops, made>>

Next ==
  \/ \E q \in Reqs :
       \/ ClientCredentialsGrant(q) \/ WorkloadAssertionGrant(q) \/ KeysFor(q) \/ FetchKeys(q)
       \/ MatchWorkloadServiceAccount(q) \/ ClaimAssertionOnce(q) \/ IssueServiceAccountToken(q)
       \/ PatchServiceAccount(q) \/ RotateServiceAccount(q) \/ DeleteServiceAccount(q) \/ RevokeServiceAccount(q)
       \/ CreateWorkloadIdentity(q) \/ AuthorizeMachine(q) \/ Fail(q)
  \/ \E a \in Accounts : CreateServiceAccount(a) \/ DeleteWorkloadIdentity(a)
  \/ Tick \/ IssuerRotates

Spec == Init /\ [][Next]_machineVars

-----------------------------------------------------------------------------
(* Properties.                                                             *)

\* An assertion makes at most one token before its end, however often it is sent at
\* once; no request is served by a token from before a rotation, a disabling or a
\* deletion that had been answered when the request came; and an assertion is taken
\* only with a key that the issuer still published within the life of the cached keys.
MachinesJustified ==
  /\ \A j \in DOMAIN used : used[j] <= 1
  /\ \A q \in Reqs : req[q].pc = "served" => req[q].sid \notin req[q].old
  /\ \A q \in Reqs : req[q].pc = "match" =>
       LET kid == req[q].claims.kid IN kid = key \/ (kid < key /\ left[kid] + KeysTTL >= req[q].sid)

=============================================================================
