SPECIFICATION FairSpec
CONSTANTS
    Executors = {e1, e2}
    Owners = {q1}
    MaxVideos = 1
    MaxResults = 1
    Faults = {"elastic"}
PROPERTY StoredVideosGetIndexed
