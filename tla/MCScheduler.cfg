CONSTANTS
    Requests = {q1, q2}
    Crons = {c1, c2}
    None = None
    Keep = Keep
    MaxEdits = 3
    MaxFaults = 1
    MaxCascades = 1
    MaxRestarts = 1
SPECIFICATION FairSpec
INVARIANTS IInv SerialEditsInSync MappedJobLives NeverTwoJobs
PROPERTIES EditsTakeEffect
CHECK_DEADLOCK FALSE
