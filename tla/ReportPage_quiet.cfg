SPECIFICATION Spec
CONSTANTS
    Pages = {p1, p2}
    Fields = {f1, f2}
    MaxEdits = 2
    Overlap = FALSE
PROPERTIES NoSilentRevert RefreshKeepsTypedText
SYMMETRY MCSymmetry
CHECK_DEADLOCK FALSE
