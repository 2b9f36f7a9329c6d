SPECIFICATION Spec
CONSTANTS
    NumItems = 4
    Folders = {2}
    Unhashed = {4}
    Contents = {"altered", "unreadable"}
    Runs = {r1, r2}
    NoRun = NoRun
    Overlaps = {}
INVARIANTS OnlyAlteredIsMismatch CompletedJudgedAll
PROPERTIES MismatchStands
SYMMETRY RunSymmetry
CHECK_DEADLOCK FALSE
