CONSTANTS
    NotAnInteger = NotAnInteger
    NULL = NULL
    Drafts = {0}
    RefusedDrafts = {}
    Faults <- MCFaults
    Views = {"list"}
    Reads <- MCReads
    MaxRows = 2
    FewRows = 2
    Crowded = {}
    PageSizes = {1}
    FixedSize = 1
    MaxChanges = 0
    MaxMoves = 1
SPECIFICATION Spec
CHECK_DEADLOCK FALSE
INVARIANT LoadingIsReading
