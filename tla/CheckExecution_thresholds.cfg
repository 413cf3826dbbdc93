\* One worker, thresholds of two and enough slots for a streak that opens an
\* incident and one that resolves it, interrupted by pauses and resumes.
CONSTANTS
    Intervals = {1}
    Thresholds = {2}
    NULL = NULL
    Requests = {r1}
    MaxTime = 4
    Workers = {w1}
SPECIFICATION Spec
PROPERTIES
    OpeningIsJustified
    ResolutionIsJustified
