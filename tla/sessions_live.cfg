SPECIFICATION LiveSpec
CONSTANTS
    Nodes = {n1, n2}
    Conns = {c1, c2}
    Sweepers = {}
    Drainers = {}
    Endpoints = {}
    Ephemeral = {}
    Named = {}
    MaxFaults = 1
    MaxForced = 0
    HomesOf <- AnyHome
    NoNode = NoNode
    NoConn = NoConn
    NoEp = NoEp
PROPERTY ConvergesToOneSession
PROPERTY NoBlackHole
PROPERTY StableSessionOwns
CHECK_DEADLOCK FALSE
