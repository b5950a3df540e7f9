SPECIFICATION Spec
CONSTANTS
    Emails = {m1, m2}
    Malformed = {m2}
    Passwords = {p1, p2}
    Salts = {x1, x2}
    Threads = {t1, t2}
    None = None
    Blank = Blank
    Faults = {"duplicate", "crash"}
SYMMETRY Symmetry
INVARIANT ConfirmedCanLogin
