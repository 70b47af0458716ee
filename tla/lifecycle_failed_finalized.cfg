SPECIFICATION Spec
CONSTANTS
    s1 = s1
    Sessions = {s1}
    Posts = {p1}
    Gets = {}
    SessionOf <- OneSession
    SessionTTL = 3
    RespCodeTTL = 1
    RequestedTTLs = {0, 1}
    Deletable = {}
    FaultyOps = {"report"}
    MaxFaults = 1
    NoRun = NoRun
INVARIANT
    FailedRunFinalized
