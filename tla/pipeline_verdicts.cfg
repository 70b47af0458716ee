SPECIFICATION LifeSpec
CONSTANTS
    q1 = q1
    q2 = q2
    MaxCreds = 2
    Queries = {q1, q2}
    Models <- MCModels
    CertDays = 1
    CredentialDays = 1
    LastDay = 2
    NoDay = NoDay
    Untracked = Untracked
SYMMETRY QuerySymmetry
CHECK_DEADLOCK FALSE
INVARIANTS
    TypeOK
    VerifiedIsAcceptable
    FailureAttributed
    SkipVisible
    DeliveredMatchesReport
    WalletToldTheCause
    VerifiedInTime
    RotationSurvived
PROPERTIES
    DeliversAsPromised
