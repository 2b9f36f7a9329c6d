SPECIFICATION StallSpec
CONSTANTS
    Jobs = {j1, j2}
    Notes = {n1}
    Exhibits = {x1}
    Entries = {e1}
    Clerks = {}
    Pages = {}
    NoEdit = NoEdit
    NoWriter = NoWriter
    MaxRestarts = 1
INVARIANTS
    AcknowledgedStays
PROPERTIES
    NoLostUpdate
    EveryRequestIsAnswered
    JobOutcomeIsSettled
CHECK_DEADLOCK FALSE
