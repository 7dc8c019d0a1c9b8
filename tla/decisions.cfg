SPECIFICATION Spec
CONSTANTS
  Pods = {p1, p2}
  Writers = {w1, w2}
  Requests = {a1}
  home <- OwnPods
  Lossy = {}
  MaxPolicy = 1
  MaxFacts = 1
  Paths = {"/x"}
  Connect = "connect"
  AnyPath = "any"
  PathScoped = {0}
  MaxGen = 1
  Slots = 1
INVARIANTS
  AuthzCacheCurrent
  
CHECK_DEADLOCK FALSE
