SPECIFICATION FairSpec
CONSTANTS
    s1 = s1
    Sessions = {s1}
    Posts = {p1}
    Gets = {g1}
    SessionOf <- OneSession
    SessionTTL = 2
    RespCodeTTL = 1
    RequestedTTLs = {0, 1}
    Deletable = {s1}
    FaultyOps <- AllOps
    MaxFaults = 1
    NoRun = NoRun
PROPERTY
    KeysForgotten
