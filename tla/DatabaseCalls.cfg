SPECIFICATION Spec
CONSTANTS
    MaxIssued = 3
    MaxFaults = 2
    MaxCopies = 2
INVARIANTS
    TypeOK
    IssueOrder
    ReadYourWrites
    TransactionOutcome
PROPERTY
    FlushAtomic
