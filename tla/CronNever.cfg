SPECIFICATION FairSpec
CONSTANTS
    b1 = b1
    b2 = b2
    hourly = hourly
    cron = cron
    once = once
    Beats = {b1}
    Schedules = {cron}
    Kind <- Kinds
    OneoffAt = 0
    Period = 2
    Grace = 1
    MaxTime = 3
    MaxEvents = 0
    None = None
PROPERTIES
    FirstWindowComes
