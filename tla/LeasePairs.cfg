SPECIFICATION PairsSpec
CONSTANTS
    c1 = c1
    m1 = m1
    m2 = m2
    s1 = s1
    acct = acct
    other = other
    Global = Global
    Nobody = Nobody
    Cycles = {}
    Mutations = {m1, m2}
    Syncs = {s1}
    Accounts = {acct}
    Priority = {}
    AccountOf <- OneAccount
    ParentOf <- NoneNested
INVARIANTS
    HeartbeatEndsWithLease
    RowLockCycleIsHarmless
PROPERTIES
    WritesNeverRegress
    ImplementsFencedGenerations
    ReleaseIsExact
    EveryExecutionEnds
\* Every execution is single-use, so a behaviour ends when all have ended.
CHECK_DEADLOCK FALSE
