\* Five keys that collide, from 4 slots up to 16; the abstract map is implemented.
CONSTANTS
    k1 = k1
    k2 = k2
    k3 = k3
    k4 = k4
    k5 = k5
    Keys = {k1, k2, k3, k4, k5}
    EmptyKey = k4
    Values = {v1, v2}
    OwnedValues = {v1}
    Hash <- MCHash
    InitialCapacity = 4
    MaxCapacity = 16
    None = None
SPECIFICATION Spec
INVARIANTS TypeOK SlotsReachable CountsExact NoLeak
PROPERTY ImplementsMap
VIEW TableView
