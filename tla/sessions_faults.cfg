SPECIFICATION Spec
CONSTANTS
    Nodes = {n1, n2}
    Conns = {c1, c2}
    Sweepers = {}
    Drainers = {d1}
    Endpoints = {}
    Ephemeral = {}
    Named = {}
    MaxFaults = 1
    MaxForced = 1
    HomesOf <- AnyHome
    NoNode = NoNode
    NoConn = NoConn
    NoEp = NoEp
SYMMETRY NodeSymmetry
INVARIANT NoOrphanSession
CHECK_DEADLOCK FALSE
