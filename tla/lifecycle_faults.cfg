SPECIFICATION Spec
CONSTANTS
    s1 = s1
    Sessions = {s1}
    Posts = {p1, p2}
    Gets = {g1}
    SessionOf <- OneSession
    SessionTTL = 2
    RespCodeTTL = 1
    RequestedTTLs = {0, 1}
    Deletable = {}
    FaultyOps <- AllOps
    MaxFaults = 2
    NoRun = NoRun
SYMMETRY Symmetry
INVARIANTS
    TypeOK
    SingleRedemption
    CodeRedeemable
    RedeemableResultVerified
    VerifiedWasHandedOver
    IndInv
PROPERTIES
    MarkerReleasedByHolder
    ImplementsResponseCodes
