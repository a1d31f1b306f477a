CONSTANTS
    pub = pub
    bog = bog
    Addresses = {pub, bog}
    Bogon = {bog}
    Feeds = {f1, f2}
    Targets = {t1, t2}
    Bodies <- MCBodies
    FeedRows <- MCFeedRows
    Settings <- MCSettings
    NoFeed = NoFeed
    MaxChanges = 1
    MaxFaults = 2
    MaxEdits = 1
SPECIFICATION FairSpec
INVARIANTS IInv Aggregates HonestLog
PROPERTIES NeverEmptied BogonsNeedConsent EventuallyPublished
