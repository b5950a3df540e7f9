SPECIFICATION ViewsSpec
CONSTANTS
    Executors = {w1, web}
    Topic = q1
    Web = web
    Owners = {q1}
    MaxVideos = 3
    MaxResults = 3
    PerDay = 1
    Limits = {2}
    Threads = {}
    MaxQueries = 1
    MaxPending = 1
    CanFail = FALSE
PROPERTIES
    AllVideosReturned
