CONSTANTS
    m = m
    a = a
    b = b
    c = c
    v = v
    w = w
    Keys = {m, a, b, c}
    Master = m
    NoKey = NoKey
    Vaults = {v}
    Groups = {}
    Tasks = {w}
    Handlers = {h1, h2}
    Payloads <- MCPayloads
    Patches <- MCPatches
    Grants <- MCGrants
    Databases <- TwoDatabases
    MaxRequests = 3
SPECIFICATION FairSpec
INVARIANTS IInv CascadeComplete
PROPERTIES GrantsTrace DeletesOnlySubtree DeletionsEnd
CHECK_DEADLOCK FALSE
