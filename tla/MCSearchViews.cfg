SPECIFICATION BoundedSpec
CONSTANTS
    Executors = {w1, web}
    Topic = q1
    Web = web
    Owners = {q1, q2}
    MaxVideos = 3
    MaxResults = 3
    PerDay = 2
    Limits = {0, 2}
    Threads = {t1, t2}
    MaxQueries = 2
    MaxPending = 2
    CanFail = TRUE
INVARIANTS
    ViewsTypeOK
    PagesFollowListing
PROPERTIES
    ReaderFinishes
    BulkQueriesGetDocs
