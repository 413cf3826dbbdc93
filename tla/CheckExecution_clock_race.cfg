\* Two workers that neither crash nor lose the database: a run may never settle.
CONSTANTS
    Intervals = {1}
    Thresholds = {1}
    NULL = NULL
    Requests = {r1}
    MaxTime = 2
    Workers = {w1, w2}
SPECIFICATION LiveSpec
PROPERTY RunsSettle
