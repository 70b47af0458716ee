SPECIFICATION Spec
CONSTANTS
    s1 = s1
    Sessions = {s1}
    Posts = {p1, p2}
    Gets = {g1, g2}
    SessionOf <- OneSession
    SessionTTL = 2
    RespCodeTTL = 1
    RequestedTTLs = {0, 1}
    Deletable = {s1}
    FaultyOps = {}
    MaxFaults = 0
    NoRun = NoRun
SYMMETRY Symmetry
INVARIANTS
    ExclusiveRun
    MarkerOutlivesSession
    RequestObjectOnce
PROPERTIES
    DeleteIsFinal
