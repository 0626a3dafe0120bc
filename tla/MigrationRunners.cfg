\* Two runners, three files over two versions, one failure or crash.
SPECIFICATION FairSpec
CONSTANTS
    Runners = {r1, r2}
    r1 = r1
    r2 = r2
    Versions = {1, 2}
    Names = {1, 2}
    Statements = 2
    MaxFiles = 3
    MaxFailures = 1
INVARIANTS
    TypeOK
    AppliedOnceAndRecorded
    FilenameOrder
    SuccessIsComplete
PROPERTY
    EventuallyMigrated
