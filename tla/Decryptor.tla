------------------------------ MODULE Decryptor ------------------------------
(***************************************************************************)
(* The agent's decryption intermediate: decryptor of                       *)
(* agent/decrypt_manager.go, with requestCert and the sessions it lives    *)
(* through.                                                                *)
(*                                                                         *)
(* The organisation's decryption settings are versioned; every change is   *)
(* followed by a flush to the session that is open then.  An answer to a   *)
(* certificate request carries the version of the moment it was made.  It  *)
(* and the flush are not ordered.  At most one request runs at a time; a   *)
(* flush or a new session during it asks for another one (rerun).          *)
(***************************************************************************)
EXTENDS Naturals

CONSTANTS
  MaxGen,      \* bound on the sessions
  MaxVer,      \* bound on the changes of the settings
  OnVersions,  \* the versions with decryption enabled
  Callers      \* CONNECT requests that ask for the state

Gens == 1..MaxGen
Vers == 0..MaxVer
None == MaxVer + 1

VARIABLES
  ver,       \* the version of the settings the server has stored
  owed,      \* a flush for the last change has still to be sent
  flushMsg,  \* the sessions with a flush on their control stream
  session,   \* the session: its generation, where it stands, whether its
             \* acknowledgement was handled
  gen,       \* decryptor.gen
  bound,     \* decryptor.bound
  state,     \* the version of decryptor.state, or None
  disabled,  \* the version that decryptor.disabled is from, or None
  retryAt,   \* decryptor.retryAt lies ahead
  run,       \* the request in flight: decryptor.inflight
  rerun,     \* decryptor.rerun
  timer,     \* the refresh timer is armed
  caller     \* caller[c]: where a call of current stands

vars == <<ver, owed, flushMsg, session, gen, bound, state, disabled, retryAt, run,
          rerun, timer, caller>>
serverVars == <<ver, owed, flushMsg>>
stateVars == <<state, disabled, retryAt, timer>>

NoRun == [st |-> "none", gen |-> 1, ans |-> None]
Asking(g) == [st |-> "asking", gen |-> g, ans |-> None]

TypeOK ==
  /\ ver \in Vers /\ owed \in BOOLEAN /\ flushMsg \subseteq Gens
  /\ session \in [gen : 0..MaxGen, st : {"open", "closing", "over"}, acked : BOOLEAN]
  /\ gen \in 0..MaxGen /\ bound \in BOOLEAN
  /\ state \in OnVersions \cup {None}
  /\ disabled \in (Vers \ OnVersions) \cup {None}
  /\ retryAt \in BOOLEAN /\ rerun \in BOOLEAN /\ timer \in BOOLEAN
  /\ run \in [st : {"none", "asking", "answered", "failed"}, gen : Gens, ans : Vers \cup {None}]
  /\ caller \in [Callers -> {"idle", "looking", "waiting", "known", "refused"}]

Init ==
  /\ ver = 0 /\ owed = FALSE /\ flushMsg = {}
  /\ session = [gen |-> 0, st |-> "over", acked |-> TRUE]
  /\ gen = 0 /\ bound = FALSE
  /\ state = None /\ disabled = None
  /\ retryAt = FALSE /\ rerun = FALSE /\ timer = FALSE
  /\ run = NoRun
  /\ caller = [c \in Callers |-> "idle"]

-----------------------------------------------------------------------------
(* The server's side.                                                      *)

ChangeSettings ==
  /\ ver < MaxVer
  /\ ver' = ver + 1
  /\ owed' = TRUE
  /\ UNCHANGED <<flushMsg, session, gen, bound, stateVars, run, rerun, caller>>

SendFlush ==
  /\ owed
  /\ owed' = FALSE
  /\ flushMsg' = IF session.st = "open" THEN flushMsg \cup {session.gen} ELSE flushMsg
  /\ UNCHANGED <<ver, session, gen, bound, stateVars, run, rerun, caller>>

-----------------------------------------------------------------------------
(* decryptor.                                                              *)

BugDropKeepsRun ==
  /\ state' = None /\ disabled' = None /\ retryAt' = FALSE
  /\ timer' = FALSE
  /\ UNCHANGED rerun

dropLocked ==
  /\ state' = None /\ disabled' = None /\ retryAt' = FALSE
  /\ timer' = FALSE
  /\ rerun' = (rerun \/ run.st # "none")

\* connectOnce: remoteDecider.attach and decryptor.attach of a new session.
Attach ==
  /\ session.st = "over"
  /\ session.gen < MaxGen
  /\ session' = [gen |-> session.gen + 1, st |-> "open", acked |-> FALSE]
  /\ gen' = session.gen + 1
  /\ bound' = FALSE
  /\ dropLocked
  /\ UNCHANGED <<serverVars, run, caller>>

\* bind: the reader of the control stream has the acknowledgement, possibly
\* when the session is already over.
Bind ==
  /\ ~session.acked
  /\ session' = [session EXCEPT !.acked = TRUE]
  /\ bound' = TRUE
  /\ IF run.st # "none"
     THEN rerun' = TRUE /\ UNCHANGED run
     ELSE rerun' = FALSE /\ run' = Asking(gen)
  /\ UNCHANGED <<serverVars, gen, stateVars, caller>>

\* The session ends: remoteDecider.detach, then decryptor.detach.
SessionEnds ==
  /\ session.st = "open"
  /\ session' = [session EXCEPT !.st = "closing"]
  /\ UNCHANGED <<serverVars, gen, bound, stateVars, run, rerun, caller>>

Detach ==
  /\ session.st = "closing"
  /\ session' = [session EXCEPT !.st = "over"]
  /\ bound' = FALSE
  /\ dropLocked
  /\ UNCHANGED <<serverVars, gen, run, caller>>

\* flush: also from a session that is over.
Flush(g) ==
  /\ g \in flushMsg
  /\ flushMsg' = flushMsg \ {g}
  /\ IF bound /\ run.st = "none"
     THEN /\ state' = None /\ disabled' = None /\ retryAt' = FALSE /\ timer' = FALSE
          /\ run' = Asking(gen) /\ rerun' = FALSE
     ELSE dropLocked /\ UNCHANGED run
  /\ UNCHANGED <<ver, owed, session, gen, bound, caller>>

\* The server answers the request with the settings as they are.
Answer ==
  /\ run.st = "asking"
  /\ session.st = "open" /\ session.acked /\ session.gen = run.gen
  /\ run' = [run EXCEPT !.st = "answered", !.ans = ver]
  /\ UNCHANGED <<serverVars, session, gen, bound, stateVars, rerun, caller>>

\* The request fails: the session is over or not bound, a timeout, a refusal,
\* an unusable chain.
RequestFails ==
  /\ run.st = "asking"
  /\ run' = [run EXCEPT !.st = "failed"]
  /\ UNCHANGED <<serverVars, session, gen, bound, stateVars, rerun, caller>>

\* run, after issue: install what was issued if nothing happened meanwhile,
\* and start again if something did.
RunDone ==
  LET current == run.gen = gen /\ bound /\ ~rerun
      again == rerun /\ run.gen = gen /\ bound
      isOn == run.ans \in OnVersions
  IN
  /\ run.st \in {"answered", "failed"}
  /\ retryAt' = IF current /\ run.st = "failed" THEN TRUE ELSE retryAt
  /\ disabled' = IF current /\ run.st = "answered" /\ ~isOn THEN run.ans ELSE disabled
  /\ state' = IF current /\ run.st = "answered" /\ isOn THEN run.ans ELSE state
  /\ timer' = IF current /\ run.st = "answered" /\ isOn THEN TRUE ELSE timer
  /\ run' = IF again THEN Asking(gen) ELSE NoRun
  /\ rerun' = FALSE
  \* close(done)
  /\ caller' = [c \in Callers |-> IF caller[c] = "waiting" THEN "looking" ELSE caller[c]]
  /\ UNCHANGED <<serverVars, session, gen, bound>>

\* The refresh timer fires.
Refresh ==
  /\ timer
  /\ timer' = FALSE
  /\ IF state = None \/ ~bound THEN UNCHANGED <<run, rerun>>
     ELSE IF run.st # "none" THEN rerun' = TRUE /\ UNCHANGED run
     ELSE run' = Asking(gen) /\ rerun' = FALSE
  /\ UNCHANGED <<serverVars, session, gen, bound, state, disabled, retryAt, caller>>

RetryDue ==
  /\ retryAt
  /\ retryAt' = FALSE
  /\ UNCHANGED <<serverVars, session, gen, bound, state, disabled, timer, run, rerun, caller>>

-----------------------------------------------------------------------------
(* current, called by classify for a CONNECT.                              *)

Connect(c) ==
  /\ caller[c] \in {"idle", "known", "refused"}
  /\ caller' = [caller EXCEPT ![c] = "looking"]
  /\ UNCHANGED <<serverVars, session, gen, bound, stateVars, run, rerun>>

BugRefuseIdle(c) ==
  /\ caller[c] = "looking"
  /\ UNCHANGED <<state, run, rerun>>
  /\ caller' = [caller EXCEPT ![c] =
       IF state # None \/ disabled # None THEN "known"
       ELSE IF run.st # "none" THEN "waiting" ELSE "refused"]
  /\ UNCHANGED <<serverVars, session, gen, bound, disabled, retryAt, timer>>

\* One turn of the loop; the state may have come too close to its expiry.
Current(c) ==
  /\ caller[c] = "looking"
  /\ \E usable \in {state # None, FALSE} :
       /\ state' = IF usable THEN state ELSE None
       /\ \/ /\ usable \/ disabled # None
             /\ caller' = [caller EXCEPT ![c] = "known"]
             /\ UNCHANGED <<run, rerun>>
          \/ /\ ~usable /\ disabled = None
             /\ ~bound \/ (run.st = "none" /\ retryAt)
             /\ caller' = [caller EXCEPT ![c] = "refused"]
             /\ UNCHANGED <<run, rerun>>
          \/ /\ ~usable /\ disabled = None /\ bound
             /\ run.st # "none" \/ ~retryAt
             /\ caller' = [caller EXCEPT ![c] = "waiting"]
             /\ IF run.st = "none" THEN run' = Asking(gen) /\ rerun' = FALSE
                ELSE UNCHANGED <<run, rerun>>
  /\ UNCHANGED <<serverVars, session, gen, bound, disabled, retryAt, timer>>

\* The deadline of the call, or its context.
Deadline(c) ==
  /\ caller[c] = "waiting"
  /\ caller' = [caller EXCEPT ![c] = "refused"]
  /\ UNCHANGED <<serverVars, session, gen, bound, stateVars, run, rerun>>

-----------------------------------------------------------------------------

Next ==
  \/ ChangeSettings \/ SendFlush \/ Attach \/ Bind \/ SessionEnds \/ Detach
  \/ \E g \in Gens : Flush(g)
  \/ Answer \/ RequestFails \/ RunDone \/ Refresh \/ RetryDue
  \/ \E c \in Callers : Connect(c) \/ Current(c) \/ Deadline(c)

Spec == Init /\ [][Next]_vars

-----------------------------------------------------------------------------

\* What the agent decrypts by is what the organisation has set, or the flush
\* that says otherwise is under way: an answer that was made before a change
\* and arrives after its flush is not installed (rerun in dropLocked and run).
SettingsCurrent ==
  session.st = "open" =>
    \A v \in {state, disabled} \ {None} : v = ver \/ owed \/ gen \in flushMsg

\* While a session lasts and its requests are answered now and then, the agent
\* keeps learning what to decrypt: no sequence of flushes, sessions, failures
\* and expiries leaves the decryptor idle without a state as long as clients
\* keep asking.
KeepsLearning ==
  <>[](bound /\ session.st = "open") => []<>(state # None \/ disabled # None)
=============================================================================
