SPECIFICATION Spec
CONSTANTS
    c1 = c1
    m1 = m1
    m2 = m2
    s1 = s1
    acct = acct
    other = other
    Global = Global
    Nobody = Nobody
    Cycles = {c1}
    Mutations = {m1, m2}
    Syncs = {}
    Accounts = {acct, other}
    Priority = {m2}
    AccountOf <- TwoAccounts
    ParentOf <- FirstNested
INVARIANTS
    TokensDistinct
    RemoteOwnsBothScopes
    RemoteIsSerial
\* Every execution is single-use, so a behaviour ends when all have ended.
CHECK_DEADLOCK FALSE
