SPECIFICATION LiveSpec
CONSTANTS
  p1 = p1
  p2 = p2
  w1 = w1
  f1 = f1
  f2 = f2
  s1 = s1
  NoSession = none
  d1 = d1
  r1 = r1
  web = web
  db = db
  Services = {web, db}
  OnDemand = {db}
  IdleStops = {web}
  FirstDefs <- Pair
  Reloads = {}
  Budgets <- OneRequest
  Updates = {}
  Operations = {}
PROPERTIES FlowSettles EndedFlowCloses KeepsLearning StopsOrReconnects EverythingEnds
CHECK_DEADLOCK FALSE
