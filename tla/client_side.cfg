SPECIFICATION FairSpec
CONSTANTS
    s1 = s1
    Requests = {s1}
    Sessions = {s1}
    Bodies <- MCBodies
    Modes <- MCModes
    DefaultTTL = 8
    Second = 4
    HalfRange = 32
    MaxFailures = 1
    Nothing = Nothing
    HandoffTTL = 2
    HardCap = 3
    MaxFaults = 2
    Nobody = Nobody
INVARIANTS
    TypeOK
    CallersErrorsClassified
    FixtureUnreachable
    UnsignedIsPermitted
    LifetimeAsAsked
    QueuedDeliverable
    ExpiresAtHonest
    PollAgrees
    WebhookAgrees
    FaultlessRunTold
PROPERTIES
    ResultForgotten
    ImplementsResultDelivery
