SPECIFICATION Spec
CONSTANTS
    Jobs = {}
    Notes = {n1}
    Exhibits = {x1}
    Entries = {}
    Clerks = {c1, c2}
    Pages = {p1, p2}
    NoEdit = NoEdit
    NoWriter = NoWriter
    MaxRestarts = 0

    
PROPERTIES
    
    FinishedCaseIsFrozen
SYMMETRY MCSymmetry
CHECK_DEADLOCK FALSE
