\* Two requests at a time, no failure.
CONSTANTS
    Requests = {r1, r2, r3}
    Clients = {b1}
    Tokens = {t1, t2, t3}
    CsrfTokens = {}
    Users = {u1}
    AppKeys = {}
    AppValues = {}
    None = None
    Unset = Unset
    Faults = {}
    MaxOverlap = 2
    MaxCalls = 1
    MaxEntries = 2
    MaxTime = 0
    TTL = 1
SYMMETRY Symmetry
SPECIFICATION Spec
INVARIANT SignedOut
CHECK_DEADLOCK FALSE
