------------------------------ MODULE LoginCodes ------------------------------
(***************************************************************************)
(* The one-time codes an agent logs in with: the device flow               *)
(* (StartDevice, ApproveDevice, DenyDevice, PollDevice) and the consent    *)
(* flow (StartConsent, DecideConsent, RedeemAuthCode) of identity, their   *)
(* handlers in the control plane, and the grant that turns a code into a   *)
(* session (finishAgentLogin).                                             *)
(*                                                                         *)
(* One login of each flow.  Every code is a key in the session store that  *)
(* is put with a lifetime and taken, peeked at or claimed atomically; the  *)
(* calls that handle them may overlap, repeat and fail between two store   *)
(* operations.                                                             *)
(***************************************************************************)
EXTENDS Naturals, FiniteSets

CONSTANTS
  Calls,   \* calls of the handlers
  Device,  \* the login through the device flow
  Consent  \* the login through the consent page

Logins == {Device, Consent}

\* The keys of a login: what the page decides about, what the agent redeems,
\* and the note that the user said no.
pendingKey(l) == <<l, "pending">>   \* devuser:<user code>, consent:<id>
grantKey(l) == <<l, "grant">>       \* devok:<device>, authcode:<code>
deniedKey == <<Device, "denied">>   \* devdeny:<device>
Keys == {pendingKey(l) : l \in Logins} \cup {grantKey(l) : l \in Logins} \cup {deniedKey}

VARIABLES
  keys,      \* the keys in the store
  expired,   \* the logins whose codes have run out
  polled,    \* devpoll:<device> is held
  call,      \* call[c]: what call c is about and where it stands
  answer,    \* answer[c]: what it told its caller
  sessions   \* sessions[l]: how many sessions login l was given

vars == <<keys, expired, polled, call, answer, sessions>>

Free == [st |-> "free", login |-> Device]
Answers == {"none", "approved", "denied", "tokens", "pending", "slow_down",
            "access_denied", "expired_token", "not_found", "unavailable"}

CallStates ==
  {s \in [st : {"free", "look", "approve", "deny", "poll", "redeem", "grant", "note",
                "issue", "done"}, login : Logins] :
     /\ s.st = "look" => s.login = Consent
     /\ s.st \in {"poll", "note"} => s.login = Device}

TypeOK ==
  /\ keys \subseteq Keys
  /\ expired \subseteq Logins
  /\ polled \in BOOLEAN
  /\ call \in [Calls -> CallStates]
  /\ answer \in [Calls -> Answers]
  /\ sessions \in [Logins -> Nat]

\* StartDevice and StartConsent have put their codes.
Init ==
  /\ keys = {pendingKey(l) : l \in Logins}
  /\ expired = {}
  /\ polled = FALSE
  /\ call = [c \in Calls |-> Free]
  /\ answer = [c \in Calls |-> "none"]
  /\ sessions = [l \in Logins |-> 0]

-----------------------------------------------------------------------------

Goto(c, st) == call' = [call EXCEPT ![c].st = st] /\ UNCHANGED answer

Reply(c, a) ==
  /\ call' = [call EXCEPT ![c].st = "done"]
  /\ answer' = [answer EXCEPT ![c] = a]

\* GETDEL: the value goes to one taker.
TakeOnce(k) == k \in keys /\ keys' = keys \ {k}

\* A request comes in.  The handler of the consent page looks at the request
\* and the membership before it approves; the others start with the code.
Begin(c, l, st) ==
  /\ call[c] = Free
  /\ <<l, st>> \in {<<Device, "approve">>, <<Consent, "look">>, <<Device, "deny">>,
                    <<Consent, "deny">>, <<Device, "poll">>, <<Consent, "redeem">>}
  /\ call' = [call EXCEPT ![c] = [st |-> st, login |-> l]]
  /\ UNCHANGED <<keys, expired, polled, answer, sessions>>

\* LookupConsent.
Look(c) ==
  LET l == call[c].login IN
  /\ call[c].st = "look"
  /\ IF pendingKey(l) \in keys /\ l \notin expired
     THEN Goto(c, "approve") ELSE Reply(c, "not_found")
  /\ UNCHANGED <<keys, expired, polled, sessions>>

BugDecideAfterPeek(c) ==
  LET l == call[c].login IN
  /\ call[c].st \in {"approve", "deny"}
  /\ \/ /\ pendingKey(l) \in keys /\ UNCHANGED keys
        /\ IF l \in expired THEN Reply(c, "not_found")
           ELSE IF call[c].st = "approve" THEN Goto(c, "grant")
           ELSE IF l = Device THEN Goto(c, "note") ELSE Reply(c, "denied")
     \/ /\ pendingKey(l) \notin keys
        /\ Reply(c, "not_found")
        /\ UNCHANGED keys
  /\ UNCHANGED <<expired, polled, sessions>>

\* ApproveDevice, DecideConsent(approve), DenyDevice and DecideConsent(deny):
\* whoever takes the pending code decides.  What is put in its place is put
\* by PutGrant, in a step of its own.
Decide(c) ==
  LET l == call[c].login IN
  /\ call[c].st \in {"approve", "deny"}
  /\ \/ /\ TakeOnce(pendingKey(l))
        /\ IF l \in expired THEN Reply(c, "not_found")
           ELSE IF call[c].st = "approve" THEN Goto(c, "grant")
           ELSE IF l = Device THEN Goto(c, "note") ELSE Reply(c, "denied")
     \/ /\ pendingKey(l) \notin keys
        /\ Reply(c, "not_found")
        /\ UNCHANGED keys
  /\ UNCHANGED <<expired, polled, sessions>>

\* PutOnce of the approval (PutAuthCode for a consent), with what is left of
\* the lifetime; of the denial of a device.  The store may have done it and
\* still not answer in time.
PutGrant(c) ==
  LET l == call[c].login IN
  /\ \/ /\ call[c].st = "grant"
        /\ keys' = keys \cup {grantKey(l)}
        /\ \E a \in {"approved", "unavailable"} : Reply(c, a)
     \/ /\ call[c].st = "note"
        /\ keys' = keys \cup {deniedKey}
        /\ \E a \in {"denied", "unavailable"} : Reply(c, a)
  /\ UNCHANGED <<expired, polled, sessions>>

\* PollDevice: the expiry is part of the code, then the poll interval is
\* claimed.
Poll(c) ==
  /\ call[c].st = "poll"
  /\ \/ Device \in expired /\ Reply(c, "expired_token") /\ UNCHANGED polled
     \/ Device \notin expired /\ polled /\ Reply(c, "slow_down") /\ UNCHANGED polled
     \/ Device \notin expired /\ ~polled /\ Goto(c, "redeem") /\ polled' = TRUE
  /\ UNCHANGED <<keys, expired, sessions>>

PollInterval ==
  /\ polled
  /\ polled' = FALSE
  /\ UNCHANGED <<keys, expired, call, answer, sessions>>

BugRedeemTwice(c) ==
  LET l == call[c].login IN
  /\ call[c].st = "redeem"
  /\ \/ grantKey(l) \in keys /\ UNCHANGED keys /\ Goto(c, "issue")
     \/ /\ grantKey(l) \notin keys
        /\ Reply(c, IF l = Consent THEN "not_found"
                    ELSE IF deniedKey \in keys THEN "access_denied" ELSE "pending")
        /\ UNCHANGED keys
  /\ UNCHANGED <<expired, polled, sessions>>

\* PollDevice and RedeemAuthCode take the grant; a device that has none is
\* told whether it was denied (pendingOrDenied).
Redeem(c) ==
  LET l == call[c].login IN
  /\ call[c].st = "redeem"
  /\ \/ TakeOnce(grantKey(l)) /\ Goto(c, "issue")
     \/ /\ grantKey(l) \notin keys
        /\ Reply(c, IF l = Consent THEN "not_found"
                    ELSE IF deniedKey \in keys THEN "access_denied" ELSE "pending")
        /\ UNCHANGED keys
  /\ UNCHANGED <<expired, polled, sessions>>

\* finishAgentLogin: the member is active, IssueAgentUser.
Issue(c) ==
  /\ call[c].st = "issue"
  /\ sessions' = [sessions EXCEPT ![call[c].login] = @ + 1]
  /\ Reply(c, "tokens")
  /\ UNCHANGED <<keys, expired, polled>>

\* A store does not answer (a code that was to be taken may be gone all the
\* same), or the member is not active any more.
Fail(c) ==
  /\ call[c].st \notin {"free", "done"}
  /\ Reply(c, "unavailable")
  /\ keys' \in {keys, keys \ IF call[c].st = "redeem" THEN {grantKey(call[c].login)}
                      ELSE IF call[c].st \in {"approve", "deny"} THEN {pendingKey(call[c].login)}
                      ELSE {}}
  /\ UNCHANGED <<expired, polled, sessions>>

\* The lifetime of a login is over: its keys are gone, but for an
\* authorization code, which has a lifetime of its own (ExpireCode).
Expire(l) ==
  /\ l \notin expired
  /\ expired' = expired \cup {l}
  /\ keys' = keys \ IF l = Device THEN {pendingKey(l), grantKey(l), deniedKey} ELSE {pendingKey(l)}
  /\ UNCHANGED <<polled, call, answer, sessions>>

ExpireCode ==
  /\ grantKey(Consent) \in keys
  /\ keys' = keys \ {grantKey(Consent)}
  /\ UNCHANGED <<expired, polled, call, answer, sessions>>

-----------------------------------------------------------------------------

Next ==
  \/ \E c \in Calls : \/ \E l \in Logins, st \in {"look", "approve", "deny", "poll", "redeem"} :
                           Begin(c, l, st)
                      \/ Look(c) \/ Decide(c) \/ PutGrant(c) \/ Poll(c)
                      \/ Redeem(c) \/ Issue(c) \/ Fail(c)
  \/ \E l \in Logins : Expire(l)
  \/ PollInterval \/ ExpireCode

Spec == Init /\ [][Next]_vars

-----------------------------------------------------------------------------

Told(l, a) == \E c \in Calls : call[c].login = l /\ answer[c] = a

\* However approvals, denials, polls and redemptions overlap, repeat and fail,
\* one login yields at most one session (TakeOnce of the pending code and of
\* the grant).
OneSessionPerLogin == \A l \in Logins : sessions[l] <= 1

\* Where a page was told that the login is denied no session comes of it, no
\* other page is told that it is approved, and no grant is left to redeem.
DenialHolds ==
  \A l \in Logins : Told(l, "denied") =>
    sessions[l] = 0 /\ ~Told(l, "approved") /\ grantKey(l) \notin keys
=============================================================================
