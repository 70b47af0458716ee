SPECIFICATION Spec
CONSTANTS
    provider = provider
    status = status
    country = country
    eu = eu
    issuer = issuer
    other = other
    pid = pid
    eaa = eaa
    unknown = unknown
    scope = scope
    Types = {provider, status}
    Territories = {country, eu}
    Anchors = {issuer, other}
    TerritoryOrder <- MCOrder
    Listings <- MCListings
    Credentials = {pid, eaa, unknown}
    Configured <- MCConfigured
    Defaults <- MCDefaults
    Fallback <- MCFallback
    StatusType <- MCStatusType
    UseCases <- MCUseCases
    Unscoped = Unscoped
    Validity = 1
    MaxFaults = 1
INVARIANT
    UnreachableIsOurs
CHECK_DEADLOCK FALSE
