SPECIFICATION FairSpec
CONSTANTS
    Jobs = {j1, j2}
    Held = {}
    Stops = {s1}
    Named = {j1}
    MaxRuns = 1
    NoJob = NoJob
INVARIANTS
    OneAdmittedWorker
PROPERTIES
    SupersededWorkerIsSilent
    LiveWorkerFreesItsSlot
CHECK_DEADLOCK FALSE
