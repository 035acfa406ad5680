CONSTANTS
    MaxProc = 2
    NQ = 2
    NBands = 2
    f1 = f1
    f2 = f2
    unfilled = unfilled
    outOfRange = outOfRange
    Unfilled <- unfilled
    OutOfRange <- outOfRange
    Lists <- MCLists
SPECIFICATION Spec
INVARIANT FillingsApplied
CHECK_DEADLOCK FALSE
