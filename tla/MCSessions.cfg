SPECIFICATION Spec
CONSTANTS
    None = None
    Users = {u1, u2}
    Clients = {c1}
    Keys = {k1, k2}
    Secrets = {s1, s2}
    Threads = {t1, t2}
    ACCESS_AGE = 1
    REFRESH_AGE = 2
    MaxTime = 2
    Faults = {"crash"}
SYMMETRY Symmetry
INVARIANTS
    TypeOK
    NoServiceAfterLogout
    SessionIsolation
    SessionRefreshable
PROPERTY UserLostOnlyAtSessionEnd
CHECK_DEADLOCK FALSE
