CONSTANTS
    Examiners = {e1}
    Files = {f1, f2}
    Reports = {rep}
    Names = {n1, n2}
    Contacts = {k1, k2, k3}
    None = None
    Faults = {}
    MaxActions = 3
    MaxDamages = 2
    MaxRestarts = 1
SPECIFICATION Spec
 
INVARIANT NothingMadeUp
 
INVARIANT MergesAreFlat
SYMMETRY IndexSymmetry
CHECK_DEADLOCK FALSE
