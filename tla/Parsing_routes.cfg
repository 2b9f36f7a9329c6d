CONSTANTS
    r1 = r1
    r2 = r2
    Requests = {r1, r2}
    Nobody = Nobody
    Casts <- Everything
    MaxFlips = 2
    MaxRestarts = 1
SPECIFICATION Spec
INVARIANT ClosedCaseTakesNothing
INVARIANT RowsAreOneParse
INVARIANT FindsAreIndexed
INVARIANT NoCopyLeftBehind
PROPERTY OtherSourcesStay
CHECK_DEADLOCK FALSE
