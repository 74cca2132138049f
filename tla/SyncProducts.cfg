SPECIFICATION Spec
CONSTANTS
    a = a
    b = b
    v = v
    w = w
    key = key
    Nobody = Nobody
    Stale = Stale
    Requests = {a, b}
    Limited = {a, b}
    Keys = {key}
    KeyOf <- OneKey
    Workers = {v, w}
    Retries = 1
    MaxFaults = 1
SYMMETRY Twins
INVARIANTS
    OneSync
    NoRunFallsSilent
PROPERTIES
    RepeatStartsNothing
    OutcomeStands
CHECK_DEADLOCK FALSE
