SPECIFICATION Spec
CONSTANTS
    s1 = s1
    Sessions = {s1}
    Posts = {p1}
    Gets = {}
    SessionOf <- OneSession
    SessionTTL = 3
    RespCodeTTL = 1
    RequestedTTLs = {0, 1}
    Deletable = {s1}
    FaultyOps = {}
    MaxFaults = 0
    NoRun = NoRun
INVARIANT
    DeletedStaysDead
