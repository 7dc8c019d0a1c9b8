SPECIFICATION Spec
CONSTANTS
  Ids = {i1, i2}
  AtEndpoint = {i2}
  AgentTTL = 3
  BrowserTTL = 1
  MaxTime = 5
INVARIANTS SubjectIndexed
CHECK_DEADLOCK FALSE
