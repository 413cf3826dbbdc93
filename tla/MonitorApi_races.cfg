\* Two requests that overlap each other, the scheduler and the workers.
CONSTANTS
    Intervals = {1, 2}
    Thresholds = {1}
    NULL = NULL
    Requests = {r1, r2}
    MaxTime = 2
    MaxStreak = 1
SPECIFICATION BoundedSpec
SYMMETRY RequestSymmetry
INVARIANTS
    ApiTypeOK
    PausedIffDisabled
    NextCheckWithinHorizon
PROPERTIES
    ResultsSurviveRequests
    DeletionIsFinal
