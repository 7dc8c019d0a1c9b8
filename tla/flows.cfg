SPECIFICATION FlowsSpec
CONSTANTS
  p1 = p1
  p2 = p2
  w1 = w1
  f1 = f1
  f2 = f2
  f3 = f3
  s1 = s1
  s2 = s2
  NoSession = none
  Pods = {p1, p2}
  Writers = {w1}
  home <- HomeOne
  Lossy <- NoPods
  Flows = {f1}
  Requests <- FlowRequests
  flowPod <- OnSecond
  MaxPolicy = 1
  MaxFacts = 1
  recheckAttempts = 2
INVARIANTS  RevokedFlowNoticed  
CHECK_DEADLOCK FALSE
