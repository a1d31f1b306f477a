CONSTANTS
    MaxItems = 7
    MaxBatch = 3
    MaxRetries = 2
    Initial <- MCInitial
SPECIFICATION FairSpec
INVARIANTS IInv RequestsBounded
PROPERTIES ImplementsDelivery Terminates
CHECK_DEADLOCK FALSE
