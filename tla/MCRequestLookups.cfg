CONSTANTS
    p = p
    c = c
    s = s
    h1 = h1
    h2 = h2
    Addresses = {p, c}
    Networks = {}
    Names <- MCNames
    Requests = {r1, r2}
    Boot = Boot
    None = None
    PositiveTtl = 2
    NegativeTtl = 1
    GracePeriod = 2
    Signatures = {s}
    Window = 1
    SweepInterval = 1
    MaxTracked = 1
    Messages <- MCMessages
    Answers <- MCAnswers
    MaxTime = 2
    MaxArrivals = 2
SPECIFICATION FairSpec
PROPERTY OneLookupPerInterval
CHECK_DEADLOCK FALSE
