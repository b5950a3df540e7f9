SPECIFICATION FairSpec
CONSTANTS
    Executors = {e1, e2}
    Owners = {q1, q2}
    MaxVideos = 2
    MaxResults = 2
    Faults = {"duplicate"}
INVARIANT OnlyFreshVideosUnindexed
PROPERTIES
    StoredVideosGetIndexed
    SomeTaskSaves
    ImplementsQueryTasks
