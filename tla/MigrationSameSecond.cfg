SPECIFICATION Spec
CONSTANTS
    Runners = {r1}
    r1 = r1
    Versions = {1}
    Names = {1, 2}
    Statements = 1
    MaxFiles = 2
    MaxFailures = 0
INVARIANT
    EveryFileRuns
