SPECIFICATION FairSpec
CONSTANTS
    a = a
    b = b
    v = v
    w = w
    key = key
    Nobody = Nobody
    Stale = Stale
    Requests = {a}
    Limited = {}
    Keys = {key}
    KeyOf <- OneKey
    Workers = {v, w}
    Retries = 1
    MaxFaults = 2
PROPERTIES
    PublishedRunIsReported
CHECK_DEADLOCK FALSE
