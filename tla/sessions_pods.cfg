SPECIFICATION Spec
CONSTANTS
    Nodes = {n1, n2, n3}
    Conns = {c1, c2}
    Sweepers = {s1}
    Drainers = {}
    Endpoints = {e1}
    Ephemeral = {e1}
    Named = {e1}
    MaxFaults = 0
    MaxForced = 0
    HomesOf <- OwnHome
    NoNode = NoNode
    NoConn = NoConn
    NoEp = NoEp
INVARIANT NewestOwns
INVARIANT LiveEndpointSurvives
CHECK_DEADLOCK FALSE
