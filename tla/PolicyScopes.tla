----------------------------- MODULE PolicyScopes -----------------------------
(***************************************************************************)
(* Decisions and what they depend on: Decide evaluates a set of policies,  *)
(* computeScopes reads off their expressions which parts of the context    *)
(* they look at, and an agent keeps a decision for every request that      *)
(* agrees with it on those parts.                                          *)
(*                                                                         *)
(* The policies are Cedar's, as the trees of their JSON form; only the     *)
(* forms that the walk over them tells apart are here.  Policies and facts *)
(* do not change under a decision: flushes are in DecisionCache.           *)
(***************************************************************************)
EXTENDS Naturals, Sequences, FiniteSets

CONSTANTS
  PolicySets,    \* the policy sets that may be installed
  FactSets,      \* what is known of the principal, the agent and the session
  Methods, Paths, Addresses,
  MaxCached      \* maxCachedDecisions

Absent == "absent"

VARIABLES
  policies,      \* the set that is installed
  facts,
  scopes,        \* remoteDecider.scopes: the parts that matter, when known
  cache,         \* remoteDecider.cache
  last           \* the last request that was checked, and the answer

scopeVars == <<policies, facts, scopes, cache, last>>

-----------------------------------------------------------------------------
(* Requests, and expressions.                                              *)

Actions == {"egress:request", "egress:connect", "http:request"}

\* A request for an action; the fields that it has not are absent.
AllRequests(act) ==
  IF act = "egress:connect"
    THEN [method : {Absent}, path : {Absent}, resolved_ip : Addresses \cup {Absent}, tls : {FALSE}]
    ELSE [method : Methods, path : Paths, resolved_ip : {Absent}, tls : BOOLEAN]

\* Validate: the shape of the action's request.
Validate(act, q) ==
  /\ act \in Actions
  /\ act \in {"egress:request", "http:request"} => q.method # Absent /\ q.path # Absent
  /\ q.resolved_ip # Absent => act = "egress:connect"

\* buildContext: the attributes of the context.
BuildContext(act, q) ==
  [method      |-> IF act = "egress:connect" THEN Absent ELSE q.method,
   path        |-> IF act = "egress:connect" THEN Absent ELSE q.path,
   resolved_ip |-> IF act = "egress:connect" THEN q.resolved_ip ELSE Absent,
   auth_time   |-> IF facts.auth = "fresh" THEN "t" ELSE Absent]

Var(name) == [op |-> "Var", name |-> name]
Context == Var("context")
Same(left, value) == [op |-> "==", left |-> left, value |-> value]

\* Cedar's evaluation of a condition: "t", "f" or "err".
RECURSIVE Eval(_, _)
Eval(e, ctx) ==
  CASE e.op = "Value" -> "t"
    [] e.op = "has" -> IF e.left = Context /\ ctx[e.attr] # Absent THEN "t" ELSE "f"
    [] e.op = "==" /\ e.left = Context -> IF e.value \in {ctx.method, ctx.path, ctx.resolved_ip} THEN "t" ELSE "f"
    [] e.op = "==" /\ e.left.left # Context -> "f"
    [] e.op = "==" -> IF ctx[e.left.attr] = Absent THEN "err" ELSE IF ctx[e.left.attr] = e.value THEN "t" ELSE "f"
    [] e.op = "!" -> IF Eval(e.arg, ctx) = "err" THEN "err" ELSE IF Eval(e.arg, ctx) = "t" THEN "f" ELSE "t"
    [] e.op = "&&" -> IF Eval(e.left, ctx) = "t" THEN Eval(e.right, ctx) ELSE Eval(e.left, ctx)

\* actionScope.covers.
Covers(p, act) == p.all \/ act \in p.actions

\* cedar.Authorize: the policies that determine the decision.
Matching(act, ctx, effect) == {p \in policies : p.effect = effect /\ Covers(p, act) /\ Eval(p.cond, ctx) = "t"}
Erring(act, ctx) == {p \in policies : Covers(p, act) /\ Eval(p.cond, ctx) = "err"}

-----------------------------------------------------------------------------
(* The scopes.                                                             *)

NoRefs == [path |-> FALSE, method |-> FALSE, resolved_ip |-> FALSE]
AllContextScope == [path |-> TRUE, method |-> TRUE, resolved_ip |-> TRUE]

Either(r, s) == [a \in DOMAIN r |-> r[a] \/ s[a]]

\* collectContextRefs: the context itself, or attributes of it.
RECURSIVE CollectContextRefs(_)
CollectContextRefs(e) ==
  CASE e = Context -> AllContextScope
    [] e.op \in {".", "has"} /\ e.left = Context -> [a \in DOMAIN NoRefs |-> a = e.attr]
    [] e.op \in {".", "has", "=="} -> CollectContextRefs(e.left)
    [] e.op = "!" -> CollectContextRefs(e.arg)
    [] e.op = "&&" -> Either(CollectContextRefs(e.left), CollectContextRefs(e.right))
    [] OTHER -> NoRefs

ForAction(s, act) == IF act = "egress:connect" THEN s ELSE [s EXCEPT !.resolved_ip = FALSE]

\* A mutant: policies for all actions are not looked at.
BugComputeScopes(act) ==
  [a \in DOMAIN NoRefs |-> \E p \in policies : act \in p.actions /\ ForAction(CollectContextRefs(p.cond), act)[a]]

\* computeScopes, of one action.
ComputeScopes(act) ==
  [a \in DOMAIN NoRefs |-> \E p \in policies : Covers(p, act) /\ ForAction(CollectContextRefs(p.cond), act)[a]]

-----------------------------------------------------------------------------
(* Decisions.                                                              *)

\* checkFacts and freshAuthTime.
CheckFacts == facts.subject = "ok" /\ facts.agent = "ok" /\ facts.exit = "ok" /\ facts.session = "ok"
Stripped == facts.auth = "stale"

\* Decide: allowed or not, why, by which policies, and whether it may be kept.
Decide(act, q) ==
  LET ctx == BuildContext(act, q)
      forbids == Matching(act, ctx, "forbid")
      permits == Matching(act, ctx, "permit")
      answer(allowed, reason, by, ttl) == [allowed |-> allowed, reason |-> reason, by |-> by, ttl |-> ttl]
  IN CASE ~Validate(act, q)             -> answer(FALSE, "invalid_request", {}, FALSE)
       [] ~CheckFacts                   -> answer(FALSE, "facts", {}, FALSE)
       [] Erring(act, ctx) # {}         -> answer(FALSE, "policy_error", {}, FALSE)
       [] forbids = {} /\ permits # {}  -> answer(TRUE, "allow", permits, TRUE)
       [] Stripped                      -> answer(FALSE, "auth_stale", forbids, FALSE)
       [] forbids # {}                  -> answer(FALSE, "policy_deny", forbids, TRUE)
       [] OTHER                         -> answer(FALSE, "no_policy_match", {}, TRUE)

\* SelectedCredential: the one that the determining policies name, none, or a conflict.
SelectedCredential(d) ==
  LET names == {p.cred : p \in d.by} \ {"none"} IN
  CASE names = {} -> "none" [] Cardinality(names) = 1 -> CHOOSE n \in names : TRUE [] OTHER -> "conflict"

\* DecideRequest of the server: the answer that goes to the agent.  A refusal
\* has neither a lifetime nor a scope.
DecideRequest(q) ==
  LET d == Decide("egress:request", q)
      cred == SelectedCredential(d)
      refused == [allowed |-> FALSE, inject |-> "none", ttl |-> FALSE, scope |-> AllContextScope]
  IN IF ~d.allowed \/ cred = "conflict" \/ (cred # "none" /\ (~q.tls \/ q.method = "TRACE")) THEN refused
     ELSE [allowed |-> TRUE, inject |-> cred, ttl |-> d.ttl, scope |-> ComputeScopes("egress:request")]

-----------------------------------------------------------------------------
(* The agent's cache of requests.                                          *)

\* scopeKeyOf, and buildRequestKey when the scope is known.
ScopeKeyOf(q) == q.tls

BuildRequestKey(q, scope) ==
  [tls |-> q.tls, method |-> IF scope.method THEN q.method ELSE Absent, path |-> IF scope.path THEN q.path ELSE Absent]

RequestKey(q) == BuildRequestKey(q, IF ScopeKeyOf(q) \in DOMAIN scopes THEN scopes[ScopeKeyOf(q)] ELSE AllContextScope)

NoRequest == [method |-> Absent, path |-> Absent, resolved_ip |-> Absent, tls |-> FALSE]
NoAnswer == [q |-> NoRequest, allowed |-> FALSE, inject |-> "none"]

\* serve's check: a credential is not injected into TRACE.
Served(q, c) ==
  IF c.inject # "none" /\ q.method = "TRACE" THEN [q |-> q, allowed |-> FALSE, inject |-> "none"]
  ELSE [q |-> q, allowed |-> c.allowed, inject |-> c.inject]

\* remember: a full cache loses one of its entries.
Remember(key, c) ==
  \E keep \in {DOMAIN cache} \cup {DOMAIN cache \ {k} : k \in DOMAIN cache} :
    /\ Cardinality(keep \ {key}) < MaxCached
    /\ keep = DOMAIN cache \/ Cardinality(DOMAIN cache) >= MaxCached
    /\ cache' = [k \in keep \cup {key} |-> IF k = key THEN c ELSE cache[k]]

\* checkRequest, from the cache or with the answer of the server; rememberRequest.
CheckRequest(q) ==
  /\ policies # {}
  /\ IF RequestKey(q) \in DOMAIN cache THEN
       last' = Served(q, cache[RequestKey(q)]) /\ UNCHANGED <<scopes, cache>>
     ELSE LET a == DecideRequest(q) IN
       /\ last' = Served(q, a)
       /\ scopes' = [k \in DOMAIN scopes \cup {ScopeKeyOf(q)} |-> IF k = ScopeKeyOf(q) THEN a.scope ELSE scopes[k]]
       /\ IF a.ttl THEN Remember(BuildRequestKey(q, a.scope), [allowed |-> a.allowed, inject |-> a.inject])
          ELSE UNCHANGED cache
  /\ UNCHANGED <<policies, facts>>

Expire ==
  /\ \E k \in DOMAIN cache : cache' = [x \in DOMAIN cache \ {k} |-> cache[x]]
  /\ UNCHANGED <<policies, facts, scopes, last>>

Nothing == [k \in {} |-> Absent]

Init ==
  /\ policies = {} /\ facts = [subject |-> "ok", agent |-> "ok", exit |-> "ok", session |-> "ok", auth |-> "fresh"]
  /\ scopes = Nothing /\ cache = Nothing /\ last = NoAnswer

\* A policy set and facts are installed.
Install ==
  /\ policies = {}
  /\ policies' \in PolicySets /\ facts' \in FactSets
  /\ UNCHANGED <<scopes, cache, last>>

Next == Install \/ Expire \/ \E q \in AllRequests("egress:request") : CheckRequest(q)

Spec == Init /\ [][Next]_scopeVars
-----------------------------------------------------------------------------
TypeOK == Cardinality(DOMAIN cache) <= MaxCached /\ policies \in PolicySets \cup {{}} /\ DOMAIN scopes \subseteq BOOLEAN

Agree(scope, q, r) ==
  /\ q.tls = r.tls
  /\ \A a \in DOMAIN scope : scope[a] => q[a] = r[a]

\* Requests that agree on what computeScopes names are decided alike, whatever the
\* policies look like; so the agent answers from its cache what the server would
\* answer, and a destination that is refused by its name, by policies that do not
\* look at addresses, is refused at every address (HandleEgress).
ScopesSound ==
  /\ last.q # NoRequest =>
       last.allowed = DecideRequest(last.q).allowed /\ last.inject = DecideRequest(last.q).inject
  /\ last = NoAnswer => \A act \in Actions : \A q, r \in AllRequests(act) :
       Agree(ComputeScopes(act), q, r) => Decide(act, q) = Decide(act, r)
===============================================================================
