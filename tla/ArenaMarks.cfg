\* Callers that drop outdated marks and callers that do not; addresses are reused.
CONSTANTS
    Addresses = {a1, a2, a3}
    SizeMax = 40
    Alignment = 4
    BlockSizes = {6}
    Sizes = {0, 1, 2, 24}
    Generations = 4
    MarkSlots = {m1, m2}
    MaxSerial = 7
    MaxInits = 2
    MaxResets = 2
    None = None
SYMMETRY Symmetry
SPECIFICATION Spec
INVARIANTS TypeOK LiveIntact StatsExact
PROPERTY ResetOutdatesMarks
CHECK_DEADLOCK FALSE
