SPECIFICATION FairSpec
CONSTANTS
    MaxIssued = 2
    MaxFaults = 0
    MaxCopies = 2
PROPERTY
    RollbackEnds
