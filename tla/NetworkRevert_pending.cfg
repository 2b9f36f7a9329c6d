SPECIFICATION FairSpec
CONSTANTS
    Devices = {eth}
    Changes = {c1, c2, c3}
    NoChange = NoChange
    Overlaps = {"pending", "request", "applying"}
    RemovalMayFail = TRUE
    MaxRestarts = 1
INVARIANTS
    PendingIsOnDisk
PROPERTIES
    EveryChangeIsSettled
CHECK_DEADLOCK FALSE
