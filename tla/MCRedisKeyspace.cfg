SPECIFICATION FairSpec
CONSTANTS
    None = None
    NKeys = 3
    Values = {v1, v2}
    MaxScan = 2
    MaxTTL = 1
    MaxTime = 3
INVARIANTS
    TypeOK
    ExpiresInDict
PROPERTIES
    ImplementsTokenMap
    ExpiredKeysReclaimed
