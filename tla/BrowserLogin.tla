----------------------------- MODULE BrowserLogin -----------------------------
(***************************************************************************)
(* How a browser gets a session: for the dashboard by the Google login of  *)
(* the control plane, for an endpoint by the OIDC gate of the ingress, or  *)
(* by a one-time code that the control plane makes for a browser with a    *)
(* dashboard session.                                                      *)
(*                                                                         *)
(* Every visit of a browser to the server or to the provider is a step.    *)
(* The pages of one login may be opened late, again, in another browser,   *)
(* or while the tab of a second login is open.  A browser keeps the newest *)
(* session of a site; rows of the session store that no browser holds are  *)
(* left out.                                                               *)
(***************************************************************************)
EXTENDS Naturals

CONSTANTS
  Browsers,    \* browsers
  Endpoints,   \* endpoints with both kinds of login
  Users,       \* people with an account at the provider
  MaxFlows,    \* bound: logins begun at the provider
  MaxCodes,    \* bound: one-time codes
  MaxKeys,     \* bound: signing keys of the provider
  MaxNow,      \* bound: minutes
  KeysTTL,     \* minutes the provider's keys are kept (jwksTTL)
  RefreshMin,  \* minutes between refreshes for unknown keys (jwksRefreshMin)
  StateTTL,    \* minutes a login may take (oidcStateTTL)
  CodeTTL,     \* minutes a one-time code lives (EndpointLoginTTL)
  ReauthAge    \* minutes a forced login may be old (EndpointReauthMaxAge)

None == "none"
Dashboard == "dashboard"
Sites == Endpoints \cup {Dashboard}
Flows == 1 .. MaxFlows
Codes == 1 .. MaxCodes

VARIABLES
  now,      \* the clock
  flow,     \* the logins begun
  cookie,   \* the login each browser has in its state cookie, for endpoints and for the dashboard
  session,  \* sessions that browsers hold
  code,     \* one-time codes
  account,  \* what the control plane has for the address of a user
  allowed,  \* users the OIDC policy of the endpoints permits
  key,      \* the key the provider signs with
  keys,     \* the cached keys of the provider and when they were read
  forced    \* when the keys were last refreshed for an unknown key

loginVars == <<now, flow, cookie, session, code, account, allowed, key, keys, forced>>

NoFlow == [site |-> None, browser |-> None, at |-> 0, user |-> None, verified |-> FALSE, done |-> 0]
NoCode == [site |-> None, user |-> None, auth |-> 0, at |-> 0, live |-> FALSE]
NoKeys == [n |-> 0, at |-> 0]

Begun(f) == flow[f].site # None
Jars == {"mm_oauth_state", "mm_oidc_state"}
Jar(site) == IF site = Dashboard THEN "mm_oauth_state" ELSE "mm_oidc_state"

TypeOK ==
  /\ now \in 1 .. MaxNow /\ key \in 1 .. MaxKeys /\ keys \in [n : 0 .. MaxKeys, at : 0 .. MaxNow]
  /\ cookie \in [Browsers \X Jars -> {0} \cup Flows] /\ forced \in 0 .. MaxNow
  /\ session \subseteq [by : {"oidc", "code"}, browser : Browsers, site : Sites, user : Users,
                        auth : 1 .. MaxNow, from : Flows \cup Codes]
  /\ account \in [Users -> {"absent", "invited", "password", "linked"}] /\ allowed \subseteq Users

Init ==
  /\ now = 1 /\ flow = [f \in Flows |-> NoFlow] /\ cookie = [x \in Browsers \X Jars |-> 0]
  /\ session = {} /\ code = [c \in Codes |-> NoCode]
  /\ account \in [Users -> {"absent", "invited", "password"}] /\ allowed = Users
  /\ key = 1 /\ keys = NoKeys /\ forced = 0

-----------------------------------------------------------------------------
(* Time, the provider and the administrator.                               *)

Tick ==
  /\ now < MaxNow /\ now' = now + 1
  /\ UNCHANGED <<flow, cookie, session, code, account, allowed, key, keys, forced>>

\* The provider goes over to a new key.
RotateKey ==
  /\ key < MaxKeys /\ key' = key + 1
  /\ UNCHANGED <<now, flow, cookie, session, code, account, allowed, keys, forced>>

\* The allow list of the endpoints loses a user.
Disallow(u) ==
  /\ u \in allowed /\ allowed' = allowed \ {u}
  /\ UNCHANGED <<now, flow, cookie, session, code, account, key, keys, forced>>

\* revokeEndpointSessionHandler and revokeEndpointSessionsHandler
RevokeEndpointSessions(gone) ==
  /\ gone # {} /\ session' = session \ gone
  /\ UNCHANGED <<now, flow, cookie, code, account, allowed, key, keys, forced>>

Revoke(ep) ==
  \/ RevokeEndpointSessions({s \in session : s.site = ep})
  \/ \E s \in session : s.site = ep /\ RevokeEndpointSessions({s})

-----------------------------------------------------------------------------
(* The provider's keys, kept for a while.                                  *)

\* provider: the cached document serves until it is old, or until a token names a key
\* that it lacks, which is believed once in a while.
KeysHeld(unknownKey) ==
  keys.n # 0 /\ now - keys.at < KeysTTL /\ (unknownKey => forced # 0 /\ now - forced < RefreshMin)

FetchJWKS == [n |-> key, at |-> now]

\* The keys a handler goes on with: the ones held, or fresh ones, or none when the
\* provider is out of reach.
Provider(unknownKey, k) ==
  /\ k \in IF KeysHeld(unknownKey) THEN {keys} ELSE {FetchJWKS, NoKeys}
  /\ keys' = IF k = NoKeys THEN keys ELSE k
  /\ forced' = IF unknownKey /\ ~KeysHeld(TRUE) THEN now ELSE forced

-----------------------------------------------------------------------------
(* Logins at the provider.                                                 *)

\* The state goes to the provider and to a cookie, which a second login overwrites.
Begin(b, site) ==
  \E f \in Flows :
    /\ ~Begun(f) /\ \A g \in Flows : g < f => Begun(g)
    /\ flow' = [flow EXCEPT ![f] = [NoFlow EXCEPT !.site = site, !.browser = b, !.at = now]]
    /\ cookie' = [cookie EXCEPT ![b, Jar(site)] = f]

StartAuth(b, ep) ==
  /\ \E k \in {keys, FetchJWKS} : Provider(FALSE, k) /\ k # NoKeys
  /\ Begin(b, ep)
  /\ UNCHANGED <<now, session, code, account, allowed, key>>

\* authenticate: a guest session counts while the allow list permits its user.
Admitted(b, ep) ==
  \E s \in session : s.by = "oidc" /\ s.browser = b /\ s.site = ep /\ s.user \in allowed

Authenticate(b, ep) == ~Admitted(b, ep) /\ StartAuth(b, ep)

GoogleStartHandler(b) ==
  /\ Begin(b, Dashboard)
  /\ UNCHANGED <<now, session, code, account, allowed, key, keys, forced>>

\* The provider signs a user in on the page of a login and sends the browser back.
SignIn(f, u) ==
  /\ Begun(f) /\ flow[f].user = None
  /\ \E v \in BOOLEAN : flow' = [flow EXCEPT ![f].user = u, ![f].verified = v]
  /\ UNCHANGED <<now, cookie, session, code, account, allowed, key, keys, forced>>

\* verifyState
VerifyState(f) == now <= flow[f].at + StateTTL

\* A mutant: any login of the browser will do.
BugStateMatches(b, f) == cookie[b, Jar(flow[f].site)] # 0

\* The login in the address is the one in the cookie of the browser that calls.
StateMatches(b, f) == cookie[b, Jar(flow[f].site)] = f

\* exchangeCode: the provider has a user for the code and gives the token once.
ExchangeCode(f) == flow[f].user # None /\ flow[f].done = 0

\* A browser has one session cookie for a site and kind of login.
Put(s) == session' = {t \in session : <<t.by, t.browser, t.site>> # <<s.by, s.browser, s.site>>} \cup {s}

IssueGuest(b, f) ==
  Put([by |-> "oidc", browser |-> b, site |-> flow[f].site, user |-> flow[f].user, auth |-> now, from |-> f])

Spend(b, f) ==
  /\ flow' = [flow EXCEPT ![f].done = now]
  /\ cookie' = [cookie EXCEPT ![b, Jar(flow[f].site)] = 0]

AllowlistPermits(u) == u \in allowed

\* verifyIDToken: the token is signed with the provider's key of this moment.
VerifyIDToken(k) == k.n = key

\* handleCallback.  A key that the held document lacks makes it read the keys again.
HandleCallback(b, f) ==
  /\ flow[f].site \in Endpoints /\ VerifyState(f) /\ StateMatches(b, f) /\ ExchangeCode(f)
  /\ Spend(b, f)
  /\ \E k \in {keys, FetchJWKS, NoKeys} :
       LET unknown == KeysHeld(FALSE) /\ ~VerifyIDToken(keys)
       IN  /\ Provider(unknown, k)
           /\ IF VerifyIDToken(k) /\ flow[f].verified /\ AllowlistPermits(flow[f].user)
              THEN IssueGuest(b, f) ELSE UNCHANGED session
  /\ UNCHANGED <<now, code, account, allowed, key>>

-----------------------------------------------------------------------------
(* The dashboard's login.                                                  *)

\* A known login goes on; an unknown one needs a verified address, and an address that
\* no account with a password has.
UpsertOIDCUser(u, verified) == account[u] = "linked" \/ (account[u] # "password" /\ verified)

IssueSession(b, f) == IssueGuest(b, f)

\* The cookies go in any case; the rest happens when the state is right.
GoogleCallbackHandler(b, f) ==
  /\ flow[f].site = Dashboard /\ cookie[b, Jar(Dashboard)] # 0
  /\ \/ /\ StateMatches(b, f) /\ ExchangeCode(f) /\ Spend(b, f)
        /\ \/ /\ UpsertOIDCUser(flow[f].user, flow[f].verified)
              /\ account' = [account EXCEPT ![flow[f].user] = "linked"]
              /\ IssueSession(b, f)
           \/ account[flow[f].user] # "linked" /\ UNCHANGED <<account, session>>  \* signup closed
     \/ /\ ~(StateMatches(b, f) /\ ExchangeCode(f))
        /\ cookie' = [cookie EXCEPT ![b, Jar(Dashboard)] = 0] /\ UNCHANGED <<flow, account, session>>
  /\ UNCHANGED <<now, code, allowed, key, keys, forced>>

-----------------------------------------------------------------------------
(* From a dashboard session to a session of an endpoint.                   *)

\* lookupSession
LookupSession(b) == {s \in session : s.browser = b /\ s.site = Dashboard}

PutEndpointLogin(ep, s) ==
  \E c \in Codes :
    /\ code[c] = NoCode /\ \A d \in Codes : d < c => code[d] # NoCode
    /\ code' = [code EXCEPT ![c] = [site |-> ep, user |-> s.user, auth |-> s.auth, at |-> now, live |-> TRUE]]

\* A fresh login is asked for and the session is old: it is ended and the login begins.
EndpointLoginHandler(b, ep, force) ==
  \E s \in LookupSession(b) :
    /\ IF force /\ now - s.auth > ReauthAge
       THEN session' = session \ {s} /\ Begin(b, Dashboard) /\ UNCHANGED code
       ELSE PutEndpointLogin(ep, s) /\ UNCHANGED <<session, flow, cookie>>
    /\ UNCHANGED <<now, account, allowed, key, keys, forced>>

LoginRedirect(b) == LookupSession(b) = {} /\ GoogleStartHandler(b)

TakeEndpointLogin(c) ==
  code[c].live /\ now < code[c].at + CodeTTL /\ code' = [code EXCEPT ![c].live = FALSE]

\* Issue: the time of the login goes with the session.
Issue(b, c) ==
  Put([by |-> "code", browser |-> b, site |-> code[c].site, user |-> code[c].user, auth |-> code[c].auth, from |-> c])

\* handleEndpointCallback: the code is gone even when it is for another endpoint.
HandleEndpointCallback(b, ep, c) ==
  /\ TakeEndpointLogin(c)
  /\ IF code[c].site = ep THEN Issue(b, c) ELSE UNCHANGED session
  /\ UNCHANGED <<now, flow, cookie, account, allowed, key, keys, forced>>

-----------------------------------------------------------------------------
Next ==
  \/ Tick \/ RotateKey
  \/ \E u \in Users : Disallow(u)
  \/ \E ep \in Endpoints : Revoke(ep)
  \/ \E b \in Browsers, ep \in Endpoints :
       \/ Authenticate(b, ep)
       \/ \E force \in BOOLEAN : EndpointLoginHandler(b, ep, force)
       \/ \E c \in Codes : HandleEndpointCallback(b, ep, c)
  \/ \E b \in Browsers : LoginRedirect(b)
  \/ \E f \in Flows, u \in Users : SignIn(f, u)
  \/ \E b \in Browsers, f \in Flows : HandleCallback(b, f) \/ GoogleCallbackHandler(b, f)

Spec == Init /\ [][Next]_loginVars

-----------------------------------------------------------------------------
Traced(s) ==
  CASE s.by = "oidc" ->
         /\ flow[s.from].site = s.site /\ flow[s.from].browser = s.browser
         /\ flow[s.from].user = s.user /\ flow[s.from].done = s.auth
         /\ IF s.site = Dashboard THEN account[s.user] = "linked" ELSE flow[s.from].verified
    [] s.by = "code" ->
         /\ code[s.from].site = s.site /\ code[s.from].user = s.user
         /\ \E f \in Flows : flow[f].site = Dashboard /\ flow[f].user = s.user /\ flow[f].done = s.auth

\* A session is traced to a login that its own browser began for the same site and in
\* which its user signed in, with an address that the provider had verified or an
\* account that is linked to that login; or to a one-time code
\* made for that endpoint and that user out of a dashboard login of exactly the time
\* the session says the user signed in, and no code gives two browsers a session
\* (handleCallback, googleCallbackHandler, handleEndpointCallback).
LoginJustified ==
  /\ \A s \in session : Traced(s)
  /\ \A s, t \in session : s.by = "code" /\ t.by = "code" /\ s.from = t.from => s = t
=============================================================================
