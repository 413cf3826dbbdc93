\* Three overlapping requests: can a resumed monitor lose its next check?
CONSTANTS
    Intervals = {1, 2}
    Thresholds = {1}
    NULL = NULL
    Requests = {r1, r2, r3}
    MaxTime = 2
    MaxStreak = 1
SPECIFICATION BoundedSpec
SYMMETRY RequestSymmetry
INVARIANT EnabledHasNextCheck
