SPECIFICATION Spec
CONSTANTS
    Keys = {k1}
    Values = {active, blocked}
    NoValue = NoValue
    Seeded = {k1}
    SeedValue = active
    AutoId = TRUE
    Updaters = {u1, u2}
    Publishers = {p1, p2}
    MaxRows = 4
    MaxFaults = 1
INVARIANTS
    OneLiveVersion
    ServesLiveRows
CHECK_DEADLOCK FALSE
