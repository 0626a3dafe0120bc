\* Two requests at a time, of two browsers, that may meet in a session that is
\* already there; database and memory fail, and sessions expire.
CONSTANTS
    Requests = {r1, r2}
    Clients = {b1, b2}
    Tokens = {t1, t2}
    CsrfTokens = {c1}
    Users = {u1, u2}
    AppKeys = {}
    AppValues = {}
    None = None
    Unset = Unset
    Faults = {"db", "load", "mem"}
    MaxOverlap = 2
    MaxCalls = 1
    MaxEntries = 2
    MaxTime = 1
    TTL = 1
SYMMETRY Symmetry
SPECIFICATION RunningSpec
INVARIANTS TypeOK TokenIdentity CookieStored ClientIsolation
PROPERTY CsrfBinding
CHECK_DEADLOCK FALSE
