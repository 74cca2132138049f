SPECIFICATION FairSpec
CONSTANTS
    k1 = k1
    g1 = g1
    c1 = c1
    Keys = {k1}
    Items = {}
    Product <- WholeShop
    Requests = {g1}
    Recoverers = {c1}
    Nobody = Nobody
    Stale = Stale
    MaxCrashes = 1
    MaxLapses = 1
INVARIANTS
    NeverBoth
    NothingUnaccounted
    QuarantinedIsPaused
PROPERTIES
    
    ImplementsClaims
    CompensationEnds
