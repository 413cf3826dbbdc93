\* One delivery, two workers, three attempts that back off 1, 2 (capped) ticks,
\* and any two faults.  The system stops when the clock's bound is reached.
CONSTANTS
    Deliveries = {d1}
    MaxAttempts = 3
    BaseDelay = 1
    MaxDelay = 2
    Workers = {w1, w2}
    Faults = {"worker_lost", "task_fails", "publish_fails", "redelivery"}
    MaxFaults = 2
    MaxTime = 3
    NULL = NULL
SPECIFICATION Spec
INVARIANTS EmailTypeOK OneAcknowledgedHandover
PROPERTIES RetriesBackOff FollowsLifecycle DeliveriesSettle
CHECK_DEADLOCK FALSE
