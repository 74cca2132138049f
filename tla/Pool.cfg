SPECIFICATION PoolSpec
CONSTANTS
    t1 = t1
    t2 = t2
    a1 = a1
    a2 = a2
    p1 = p1
    Tasks = {t1, t2}
    Accounts = {a1, a2}
    Probes = {p1}
    LaneOf <- OneLane
    Late = {}
    MaxTries = 1
    MaxEvents = 1
    None = None

    
PROPERTIES
    
    AccountComesBack
    TaskSettles
