CONSTANTS
    p1 = p1
    p2 = p2
    e1 = e1
    w1 = w1
    w2 = w2
    g1 = g1
    s1 = s1
    i1 = i1
    i2 = i2
    i3 = i3
    Nobody = Nobody
    Stale = Stale
    Operators = {p1, e1}
    Workers = {w1}
    Guards = {g1}
    Syncs = {s1}
    Intents = {i1, i2, i3}
    Kind <- Kinds
    MaxCrashes = 1
SPECIFICATION FairSpec
PROPERTIES
    ReleaseIsDeserved
    SucceededPauseIsHeld
    PendingHoldEnds
