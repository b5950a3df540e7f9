SPECIFICATION Spec
CONSTANTS
    Emails = {m1, m2, m3}
    Malformed = {m3}
    Passwords = {p1, p2}
    Salts = {x1}
    Threads = {t1, t2}
    None = None
    Blank = Blank
    Faults = {"duplicate", "crash"}
SYMMETRY Symmetry
INVARIANTS
    TypeOK
    LoginOnlyRegistered
PROPERTY SettledAccountKept
