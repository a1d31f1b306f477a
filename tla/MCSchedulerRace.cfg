CONSTANTS
    Requests = {q1, q2}
    Crons = {c1, c2}
    None = None
    Keep = Keep
    MaxEdits = 2
    MaxFaults = 0
    MaxCascades = 0
    MaxRestarts = 0
SPECIFICATION Spec
INVARIANTS EditsInSync
CHECK_DEADLOCK FALSE
