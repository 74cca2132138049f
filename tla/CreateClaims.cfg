SPECIFICATION FairSpec
CONSTANTS
    k1 = k1
    k2 = k2
    r1 = r1
    r2 = r2
    c1 = c1
    item = item
    Keys = {k1, k2}
    Items = {item}
    Product <- WholeShop
    Replacing = {k2}
    Requests = {r1, r2}
    Recoverers = {c1}
    Nobody = Nobody
    Stale = Stale
    MaxCrashes = 1
    MaxLapses = 1
INVARIANTS
    
    QuarantinedIsPaused
    UnfinishedIsMarked
    SuccessIsComplete
PROPERTIES
    ImplementsClaims
    CreateSettles
