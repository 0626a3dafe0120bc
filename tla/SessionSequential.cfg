\* One request at a time, every failure possible; every accepted request ends.
CONSTANTS
    Requests = {1, 2, 3}
    Clients = {b1}
    Tokens = {1, 2}
    CsrfTokens = {}
    Users = {u1}
    AppKeys = {k}
    AppValues = {v}
    None = None
    Unset = Unset
    Faults = {"db", "net", "crash"}
    MaxOverlap = 1
    MaxCalls = 2
    MaxEntries = 1
    MaxTime = 0
    TTL = 1
CONSTRAINT InTurn
SPECIFICATION FairSpec
INVARIANTS LogoutIsFinal FlashAtMostOnce AnsweredUnlessFault
PROPERTY EveryRequestEnds
CHECK_DEADLOCK FALSE
