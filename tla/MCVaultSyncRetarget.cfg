CONSTANTS
    NumRecords = 1
    Bogon = {}
    Targets = {t1, t2}
    Runners = {k1}
    PageSize = 2
    TicksPerSecond = 1
    Ahead = 0
    SkipChoices = {FALSE}
    None = None
    MaxTick = 1
    MaxChanges = 1
    MaxFaults = 0
    MaxEdits = 1
SPECIFICATION Spec
INVARIANTS MarkWaitsForAll
