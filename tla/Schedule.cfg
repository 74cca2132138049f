SPECIFICATION FairSpec
CONSTANTS
    b1 = b1
    b2 = b2
    hourly = hourly
    cron = cron
    once = once
    Beats = {b1, b2}
    Schedules = {hourly, once}
    Kind <- Kinds
    OneoffAt = 0
    Period = 1
    Grace = 1
    MaxTime = 2
    MaxEvents = 1
    None = None
INVARIANTS
    
    RunBeforeMessage
PROPERTIES
    OneoffLeavesRun
    MoveOnUnlessPoisoned
