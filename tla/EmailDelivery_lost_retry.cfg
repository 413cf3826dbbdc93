\* A worker dies between storing "retrying" and publishing the retry.
CONSTANTS
    Deliveries = {d1}
    MaxAttempts = 3
    BaseDelay = 1
    MaxDelay = 2
    Workers = {w1}
    Faults = {"worker_lost"}
    MaxFaults = 1
    MaxTime = 3
    NULL = NULL
SPECIFICATION Spec
INVARIANT RetryIsScheduled
CHECK_DEADLOCK FALSE
