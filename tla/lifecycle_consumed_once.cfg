SPECIFICATION Spec
CONSTANTS
    s1 = s1
    Sessions = {s1}
    Posts = {p1, p2}
    Gets = {}
    SessionOf <- OneSession
    SessionTTL = 12
    RespCodeTTL = 1
    RequestedTTLs = {0, 1}
    Deletable = {}
    FaultyOps = {}
    MaxFaults = 0
    NoRun = NoRun
SYMMETRY Symmetry
INVARIANT
    ConsumedOnce
