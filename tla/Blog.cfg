\* Pages of every kind, files compiled while they are edited, and requests that
\* overlap while statements fail, all in one run.
CONSTANTS
    Identifiers <- MCIdentifiers
    Segments <- MCSegments
    MaxNesting = 3
    Compilers = {c1, c2}
    Edits <- MCEdits
    Requests = {r1, r2, r3}
    Users = {u1, u2}
    Admins = {u2}
    Contents = {"good", "bad"}
    Valid = {"good"}
    Blank = "blank"
    None = None
    MaxPosts = 2
    MaxFaults = 1
    Text <- MCText
    Private <- MCPrivate
    Visitable <- MCVisitable
    Contexts <- MCContexts
    PageLength = 3
    Overlap = 2
    Series = 3
CONSTRAINT OnlySeries
SYMMETRY Symmetry
SPECIFICATION MCSpec
INVARIANTS TypeOK BundleComplete CompiledAlike DraftsStayPrivate RowsSound ToldIsDone
PROPERTIES PageAsWritten OwnerOnly
CHECK_DEADLOCK FALSE
