CONSTANTS
    m = m
    a = a
    b = b
    c = c
    v = v
    w = w
    Keys = {m, a, b, c}
    Master = m
    NoKey = NoKey
    Vaults = {v}
    Groups = {w}
    Tasks = {}
    Handlers = {h1, h2}
    Payloads <- MCPayloads
    Patches <- MCPatches
    Grants <- MCGrants
    Databases <- MCDatabases
    MaxRequests = 3
SYMMETRY Symmetry
SPECIFICATION Spec
INVARIANTS CascadeAlways
CHECK_DEADLOCK FALSE
