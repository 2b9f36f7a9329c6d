SPECIFICATION FairSpec
CONSTANTS
    Jobs = {j1, h1}
    Held = {h1}
    Stops = {}
    Named = {}
    MaxRuns = 2
    NoJob = NoJob
PROPERTIES
    SlotPromise
    SlotComesFree
CHECK_DEADLOCK FALSE
