----------------------------- MODULE MonitorRow -----------------------------
(***************************************************************************)
(* The row of the `monitors` table, as far as scheduling, checking and     *)
(* pausing depend on it, and the pure functions of the backend that read   *)
(* or change it: monitoring/state.py, the two request handlers' edits in   *)
(* routes/monitors.py and the column-wise UPDATE of SQLAlchemy's unit of   *)
(* work.  The module has no variables; the modules that keep a row extend  *)
(* it.                                                                     *)
(***************************************************************************)
EXTENDS Integers

CONSTANTS
    Intervals,     \* values of interval_seconds a client may ask for
    Thresholds,    \* values of failure_threshold and recovery_threshold
    NULL           \* SQL NULL

ASSUME IntervalsAssumption == Intervals \subseteq Nat \ {0} /\ Intervals # {}
ASSUME ThresholdsAssumption == Thresholds \subseteq Nat \ {0} /\ Thresholds # {}
ASSUME NullAssumption == NULL \notin Nat

Statuses == {"unknown", "up", "down", "paused"}

Rows ==
    [status: Statuses,
     is_enabled: BOOLEAN,
     consecutive_failures: Nat,
     consecutive_successes: Nat,
     failure_threshold: Thresholds,
     recovery_threshold: Thresholds,
     interval_seconds: Intervals,
     next_check_at: Nat \cup {NULL}]

\* What a PUT or POST body says of the columns above.
Payloads ==
    [interval_seconds: Intervals,
     failure_threshold: Thresholds,
     recovery_threshold: Thresholds]

-----------------------------------------------------------------------------
(* monitoring/state.py *)

CanExecuteRequest(row) ==
    row.is_enabled /\ row.status # "paused"

\* Mutant of SchedulerEligible: selects a monitor before it is due.
SchedulerEligibleEarly(row, now) ==
    CanExecuteRequest(row) /\ row.next_check_at # NULL

SchedulerEligible(row, now) ==
    /\ CanExecuteRequest(row)
    /\ row.next_check_at # NULL
    /\ row.next_check_at <= now

\* Mutant of CountSuccess: the streak of failures survives a success.
CountSuccessKeepsFailures(row) ==
    [row EXCEPT !.consecutive_successes = row.consecutive_successes + 1,
                !.status = IF row.status = "unknown" THEN "up" ELSE row.status]

\* apply_monitor_result(success=True): the streak of failures ends.
CountSuccess(row) ==
    [row EXCEPT !.consecutive_failures = 0,
                !.consecutive_successes = @ + 1,
                !.status = IF @ = "unknown" THEN "up" ELSE @]

\* Mutant of CountFailure: the streak of successes survives a failure.
CountFailureKeepsSuccesses(row) ==
    [row EXCEPT !.consecutive_failures = row.consecutive_failures + 1]

\* apply_monitor_result(success=False) up to its threshold test.
CountFailure(row) ==
    [row EXCEPT !.consecutive_successes = 0,
                !.consecutive_failures = @ + 1]

\* Mutant of FailureThresholdMet: a paused monitor may go down, too.
FailureThresholdMetWhilePaused(row) ==
    row.status # "down" /\ row.consecutive_failures >= row.failure_threshold

FailureThresholdMet(row) ==
    /\ row.status \in {"unknown", "up"}
    /\ row.consecutive_failures >= row.failure_threshold

RecoveryReady(row) ==
    /\ row.status = "down"
    /\ row.consecutive_successes >= row.recovery_threshold

\* The row apply_monitor_result leaves behind ...
ResultApplied(row, success) ==
    IF success THEN CountSuccess(row)
    ELSE LET counted == CountFailure(row)
         IN  IF FailureThresholdMet(counted)
             THEN [counted EXCEPT !.status = "down"]
             ELSE counted

\* ... and the transition it returns.
Transition(row, success) ==
    IF success
    THEN IF RecoveryReady(CountSuccess(row))
         THEN "incident_recovery_ready" ELSE "none"
    ELSE IF FailureThresholdMet(CountFailure(row))
         THEN "incident_opened" ELSE "none"

\* Mutant of Recovered: the incident is resolved, the monitor stays down.
RecoveredStaysDown(row) ==
    [row EXCEPT !.consecutive_failures = 0, !.consecutive_successes = 0]

\* What _add_incident_resolution does to the monitor.
Recovered(row) ==
    [row EXCEPT !.status = "up",
                !.consecutive_failures = 0,
                !.consecutive_successes = 0]

-----------------------------------------------------------------------------
(* routes/monitors.py: the attributes each handler sets on the row it loaded *)

Created(payload, now) ==
    [status |-> "unknown",
     is_enabled |-> TRUE,
     consecutive_failures |-> 0,
     consecutive_successes |-> 0,
     failure_threshold |-> payload.failure_threshold,
     recovery_threshold |-> payload.recovery_threshold,
     interval_seconds |-> payload.interval_seconds,
     next_check_at |-> now + payload.interval_seconds]

AlreadyPaused(row) ==
    row.status = "paused" /\ ~row.is_enabled /\ row.next_check_at = NULL

\* Mutant of Paused: the streaks end.
PausedEndsStreaks(row) ==
    [row EXCEPT !.status = "paused",
                !.is_enabled = FALSE,
                !.next_check_at = NULL,
                !.consecutive_failures = 0,
                !.consecutive_successes = 0]

Paused(row) ==
    [row EXCEPT !.status = "paused",
                !.is_enabled = FALSE,
                !.next_check_at = NULL]

AlreadyResumed(row, now) ==
    /\ CanExecuteRequest(row)
    /\ row.next_check_at # NULL
    /\ row.next_check_at > now

\* Mutants of Resumed: the status stays paused; it is one the table does not know.
ResumedStaysPaused(row, now) ==
    [row EXCEPT !.is_enabled = TRUE,
                !.next_check_at = now + row.interval_seconds]

ResumedActive(row, now) ==
    [row EXCEPT !.status = "active",
                !.is_enabled = TRUE,
                !.next_check_at = now + row.interval_seconds]

Resumed(row, now) ==
    [row EXCEPT !.status = IF @ = "paused" THEN "unknown" ELSE @,
                !.is_enabled = TRUE,
                !.next_check_at = now + row.interval_seconds]

Updated(row, payload, now) ==
    [row EXCEPT
        !.interval_seconds = payload.interval_seconds,
        !.failure_threshold = payload.failure_threshold,
        !.recovery_threshold = payload.recovery_threshold,
        !.next_check_at =
            IF row.interval_seconds # payload.interval_seconds /\ row.is_enabled
            THEN now + payload.interval_seconds
            ELSE @]

-----------------------------------------------------------------------------
(* The scheduler's edit of a due row it has locked. *)

Rescheduled(row) ==
    [row EXCEPT !.next_check_at = @ + row.interval_seconds]

(***************************************************************************)
(* SQLAlchemy's flush emits UPDATE for the columns whose value differs     *)
(* from the one that was loaded and for no other: a column that was set to *)
(* the value it had when the request read the row is not written, whatever *)
(* the row holds by the time of the UPDATE.                                *)
(***************************************************************************)
Flush(row, loaded, edited) ==
    [c \in DOMAIN row |-> IF edited[c] # loaded[c] THEN edited[c] ELSE row[c]]
=============================================================================
