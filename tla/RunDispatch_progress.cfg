\* One monitor with two slots, two overlapping cycles, one worker, one failure.
CONSTANTS
    Monitors = {m1}
    Dispatchers = {p1, p2}
    Workers = {w1}
    MaxFaults = 1
    MaxTime = 1
    NULL = NULL
SPECIFICATION Spec
PROPERTIES
    DueIsScheduled
    RunsStart
