SPECIFICATION Spec
CONSTANTS
    Executors = {e1, e2}
    Owners = {q1, q2}
    MaxVideos = 2
    MaxResults = 2
    Faults = {"crash", "api", "elastic", "duplicate"}
SYMMETRY Symmetry
INVARIANTS
    TypeOK
    QueryVideosStored
    DuplicatesBounded
PROPERTY LaterDocsFrozen
