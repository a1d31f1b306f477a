CONSTANTS
    NumRecords = 2
    Bogon = {1}
    Targets = {t1, t2}
    Runners = {k1, k2}
    PageSize = 1
    TicksPerSecond = 1
    Ahead = 0
    SkipChoices = {FALSE}
    None = None
    MaxTick = 1
    MaxChanges = 2
    MaxFaults = 1
    MaxEdits = 1
SPECIFICATION FairSpec
INVARIANTS IInv NoSkip HonestStatus
PROPERTIES MarkNeverRegresses EventuallyReplicated
