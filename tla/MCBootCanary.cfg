CONSTANTS
    s1 = s1
    s2 = s2
    v1 = v1
    r1 = r1
    l1 = l1
    k1 = k1
    k2 = k2
    a1 = a1
    Sources = {s1, s2}
    Vaults = {v1}
    AuditRows = {r1}
    LogRows = {l1}
    Keys = {m, a1}
    Ciphers = {k1, k2}
    Environments <- CanaryEnvironments
    Installations <- NewInstallation
    None = None
    MaxCrashes = 0
    MaxChanges = 2
    DayChoices <- NoRetention
    MaxAge = 0
    MaxFaults = 0
SPECIFICATION Spec
INVARIANT CanaryProves
