SPECIFICATION Spec
CONSTANTS
    Nodes = {n1, n2}
    Conns = {c1, c2}
    Sweepers = {s1}
    Drainers = {}
    Endpoints = {e1}
    Ephemeral = {e1}
    Named = {}
    MaxFaults = 0
    MaxForced = 0
    HomesOf <- AnyHome
    NoNode = NoNode
    NoConn = NoConn
    NoEp = NoEp
INVARIANT SweepSparesLiveAgent
CHECK_DEADLOCK FALSE
