SPECIFICATION FairSpec
CONSTANTS
    Devices = {eth, wlan}
    Changes = {c1, c2, c3}
    NoChange = NoChange
    Overlaps = {}
    RemovalMayFail = FALSE
    MaxRestarts = 2
INVARIANTS
    SnapshotIsTested
PROPERTIES
    ConfirmedIsKept
CHECK_DEADLOCK FALSE
