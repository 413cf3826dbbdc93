\* Two overlapping cycles, two monitors with two slots each, one worker and one
\* failure of any process, transaction or message.
CONSTANTS
    Monitors = {m1, m2}
    Dispatchers = {p1, p2}
    Workers = {w1}
    MaxFaults = 1
    MaxTime = 1
    NULL = NULL
SPECIFICATION Safety
SYMMETRY DispatchSymmetry
INVARIANTS
    DispatchTypeOK
    QueuedIsOnItsWay
    CyclesDoNotMeet
PROPERTIES
    NoSlotSkipped
    FollowsLifecycle
