SPECIFICATION ControlSpec
CONSTANTS
  Users = {u1, u2}
  Admin = admin
  Invites = {v1}
  Reqs = {q1, q2}
  MaxOps = 3
  RefreshReqs = {q1, q2, q3}
  MaxTokens = 3
  Browsers = {b1, b2}
  Site = site
  g1 = g1
  g2 = g2
  m1 = m1
  m2 = m2
  MaxTid = 3
  i1 = i1
  i2 = i2
  i3 = i3
  LoginCalls = {c1, c2, c3}
  Device = device
  Consent = consent
  Refs = {r1, r2}
  Static = {r1}
  Streams = {x1}
  MaxSess = 2
  MaxGen = 3
  MaxVer = 3
  OnVersions = {0, 2, 3}
  DecryptCallers = {d1}
  Hosts = {h1, h2, h3}
  LeafCalls = {c1, c2, c3}
  MaxLeaves = 2
  start = start
  k1 = k1
  k2 = k2
  e1 = e1
  e2 = e2
  s1 = s1
  s2 = s2
  none = none
  a1 = a1
  a2 = a2
  a3 = a3
  sub = sub
  name = name
  o1 = o1
INVARIANTS ControlTypeOK ClientWithinOne SubjectIndexed OwnerKept  LoginJustified RegisteredStreamServed SettingsCurrent LeafCacheConsistent
PROPERTIES RevokedStaysRevoked TransactionsAtomic LaterFailuresTolerated
SYMMETRY ControlSymmetry
CHECK_DEADLOCK FALSE
