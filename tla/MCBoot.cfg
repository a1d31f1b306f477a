CONSTANTS
    s1 = s1
    s2 = s2
    v1 = v1
    r1 = r1
    l1 = l1
    k1 = k1
    k2 = k2
    a1 = a1
    Sources = {s1, s2}
    Vaults = {v1}
    AuditRows = {r1}
    LogRows = {l1}
    Keys = {m, a1}
    Ciphers = {k1, k2}
    Environments <- MCEnvironments
    Installations <- MCInstallations
    None = None
    MaxCrashes = 1
    MaxChanges = 1
    DayChoices <- OneWindow
    MaxAge = 2
    MaxFaults = 1
SPECIFICATION FairSpec
INVARIANTS IInv NothingLost ServesMigrated MasterSettled SealedFromTheStart
PROPERTIES Recovers BacklogCleared
