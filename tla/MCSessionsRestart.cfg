SPECIFICATION RestartSpec
CONSTANTS
    None = None
    Users = {u1}
    Clients = {c1}
    Keys = {k1}
    Secrets = {s1}
    Threads = {t1, t2}
    ACCESS_AGE = 1
    REFRESH_AGE = 1
    MaxTime = 4
    Faults = {"crash"}
    MaxRestarts = 1
SYMMETRY Symmetry
INVARIANTS
    RevivedOnlyByRestart
    RefreshableUnlessLost
PROPERTY ServedWithinLifetime
CHECK_DEADLOCK FALSE
