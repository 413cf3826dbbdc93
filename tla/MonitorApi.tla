----------------------------- MODULE MonitorApi -----------------------------
(***************************************************************************)
(* The monitor-management requests of routes/monitors.py against one row   *)
(* of the `monitors` table.  Every handler reads the row WITHOUT a lock    *)
(* (_owned_monitor), edits the loaded object, and writes the edited        *)
(* columns at commit; PUT awaits the DNS check of its destination between  *)
(* the read and the edit.  Several requests, the scheduler and the workers *)
(* change the row meanwhile.  PostgreSQL runs READ COMMITTED and a commit  *)
(* is one step: UPDATE waits for the row lock and then sees the latest     *)
(* version of the columns it does not write.                               *)
(*                                                                         *)
(* The scheduler and the workers hold the row FOR UPDATE while they change *)
(* it; here they are the actions ScheduleDue and RecordResult, which       *)
(* CheckExecution replaces by the real transactions.                       *)
(***************************************************************************)
EXTENDS MonitorRow

CONSTANTS
    Requests,    \* request slots: each serves one request after another
    MaxTime      \* bound: the last tick of the clock

ASSUME BoundsAssumption == MaxTime \in Nat

VARIABLES
    now,         \* utc_now(), in ticks
    presence,    \* is the row in the table: "absent", "stored", "deleted"
    monitor,     \* the row, meaningful while stored
    request      \* what each request slot holds in memory

apiVars == <<now, presence, monitor, request>>

Phases == {"idle", "validating", "committing"}
Operations == {"pause", "resume", "update", "delete"}
Replies == {"none", "200", "201", "204", "404", "422", "503"}

InitialPayload ==
    CHOOSE p \in Payloads : TRUE

InitialRow == Created(InitialPayload, 0)

RequestRecords ==
    [phase: Phases,
     op: Operations,
     payload: Payloads,
     loaded: Rows,          \* the row as _owned_monitor read it
     edited: Rows,          \* the object after the handler's assignments
     reply: Replies]        \* the status code of the last answer

Idle(reply) ==
    [phase |-> "idle", op |-> "pause", payload |-> InitialPayload,
     loaded |-> InitialRow, edited |-> InitialRow, reply |-> reply]

ApiTypeOK ==
    /\ now \in 0..MaxTime
    /\ presence \in {"absent", "stored", "deleted"}
    /\ monitor \in Rows
    /\ request \in [Requests -> RequestRecords]

ApiInit ==
    /\ now = 0
    /\ presence = "absent"
    /\ monitor = InitialRow
    /\ request = [r \in Requests |-> Idle("none")]

-----------------------------------------------------------------------------

Answer(r, code) ==
    request' = [request EXCEPT ![r] = Idle(code)]

\* The handler has loaded the row, set attributes and reached its commit.
ReachCommit(r, op, edited) ==
    request' = [request EXCEPT ![r] =
        [Idle("none") EXCEPT !.phase = "committing", !.op = op,
                             !.loaded = monitor, !.edited = edited]]

CanRead(r) == request[r].phase = "idle" /\ presence = "stored"

\* create_monitor: the destination is validated first, then one INSERT of a
\* row nobody else can know yet.
CreateMonitor(r, payload) ==
    /\ request[r].phase = "idle"
    /\ presence = "absent"
    /\ \/ /\ presence' = "stored"
          /\ monitor' = Created(payload, now)
          /\ Answer(r, "201")
       \/ /\ \E code \in {"422", "503"} : Answer(r, code)
          /\ UNCHANGED <<presence, monitor>>
    /\ UNCHANGED now

\* _owned_monitor finds no row of this user.
NotFound(r) ==
    /\ request[r].phase = "idle"
    /\ presence = "deleted"
    /\ Answer(r, "404")
    /\ UNCHANGED <<now, presence, monitor>>

BeginPause(r) ==
    /\ CanRead(r)
    /\ IF AlreadyPaused(monitor) THEN Answer(r, "200")
       ELSE ReachCommit(r, "pause", Paused(monitor))
    /\ UNCHANGED <<now, presence, monitor>>

BeginResume(r) ==
    /\ CanRead(r)
    /\ IF AlreadyResumed(monitor, now) THEN Answer(r, "200")
       ELSE ReachCommit(r, "resume", Resumed(monitor, now))
    /\ UNCHANGED <<now, presence, monitor>>

BeginDelete(r) ==
    /\ CanRead(r)
    /\ ReachCommit(r, "delete", monitor)
    /\ UNCHANGED <<now, presence, monitor>>

\* update_monitor reads the row, then awaits the DNS resolution.
BeginUpdate(r, payload) ==
    /\ CanRead(r)
    /\ request' = [request EXCEPT ![r] =
           [Idle("none") EXCEPT !.phase = "validating", !.op = "update",
                                !.payload = payload, !.loaded = monitor]]
    /\ UNCHANGED <<now, presence, monitor>>

\* The resolution answers; a safe destination lets the handler edit the row
\* it loaded before the wait.
ValidateDestination(r) ==
    /\ request[r].phase = "validating"
    /\ \/ Answer(r, "422")
       \/ request' = [request EXCEPT
              ![r].phase = "committing",
              ![r].edited = Updated(request[r].loaded, request[r].payload, now)]
    /\ UNCHANGED <<now, presence, monitor>>

\* Mutant of CommitEdit: an UPDATE that finds no row passes unnoticed.
CommitEditUnnoticed(r) ==
    /\ request[r].phase = "committing"
    /\ request[r].op # "delete"
    /\ Answer(r, "200")
    /\ monitor' = IF presence = "stored"
                  THEN Flush(monitor, request[r].loaded, request[r].edited)
                  ELSE monitor
    /\ UNCHANGED <<now, presence>>

\* session.commit() of pause, resume and update.  An UPDATE that finds no row
\* is a StaleDataError, which the handler reports as 503; without a changed
\* column there is no UPDATE.
CommitEdit(r) ==
    /\ request[r].phase = "committing"
    /\ request[r].op # "delete"
    /\ \/ /\ presence = "stored"
          /\ monitor' = Flush(monitor, request[r].loaded, request[r].edited)
          /\ Answer(r, "200")
       \/ /\ presence # "stored"
          /\ Answer(r, IF request[r].edited = request[r].loaded
                       THEN "200" ELSE "503")
          /\ UNCHANGED monitor
    /\ UNCHANGED <<now, presence>>

\* session.commit() of delete: a DELETE that finds no row only logs a warning.
CommitDelete(r) ==
    /\ request[r].phase = "committing"
    /\ request[r].op = "delete"
    /\ presence' = "deleted"
    /\ Answer(r, "204")
    /\ UNCHANGED <<now, monitor>>

\* The database refuses or loses the transaction: rollback and 503.
CommitFails(r) ==
    /\ request[r].phase = "committing"
    /\ Answer(r, "503")
    /\ UNCHANGED <<now, presence, monitor>>

RequestStep(r) ==
    \/ \E payload \in Payloads : CreateMonitor(r, payload)
    \/ NotFound(r)
    \/ BeginPause(r)
    \/ BeginResume(r)
    \/ BeginDelete(r)
    \/ \E payload \in Payloads : BeginUpdate(r, payload)
    \/ ValidateDestination(r)
    \/ CommitEdit(r)
    \/ CommitDelete(r)
    \/ CommitFails(r)

Tick ==
    /\ now < MaxTime
    /\ now' = now + 1
    /\ UNCHANGED <<presence, monitor, request>>

-----------------------------------------------------------------------------
(* The other writers of the row, each under FOR UPDATE. *)

\* One scheduler cycle reaches the due row.
ScheduleDue ==
    /\ presence = "stored"
    /\ SchedulerEligible(monitor, now)
    /\ monitor' = Rescheduled(monitor)
    /\ UNCHANGED <<now, presence, request>>

\* A worker completes a run: also of a monitor that was paused meanwhile.
RecordResult(success) ==
    /\ presence = "stored"
    /\ monitor' = IF Transition(monitor, success) = "incident_recovery_ready"
                  THEN Recovered(ResultApplied(monitor, success))
                  ELSE ResultApplied(monitor, success)
    /\ UNCHANGED <<now, presence, request>>

ApiNext ==
    \/ \E r \in Requests : RequestStep(r)
    \/ Tick
    \/ ScheduleDue
    \/ \E success \in BOOLEAN : RecordResult(success)

ApiSpec == ApiInit /\ [][ApiNext]_apiVars

-----------------------------------------------------------------------------
(* Properties *)

\* A monitor is paused exactly while it is disabled.  pause_monitor and
\* resume_monitor set both columns, yet a commit may write only one of them,
\* or write over a row other requests have paused and resumed since it read it.
PausedIffDisabled ==
    presence = "stored" => ((monitor.status = "paused") <=> ~monitor.is_enabled)

\* The strengthening of PausedIffDisabled that every step preserves: it holds
\* of what each request has loaded and edited too, and a request that changes
\* the status changes is_enabled with it, so that a commit writes both columns
\* or neither.
SoundRow(row) == (row.status = "paused") <=> ~row.is_enabled

PairedEdit(q) == q.edited.status # q.loaded.status
                     => q.edited.is_enabled # q.loaded.is_enabled

PauseInv ==
    /\ SoundRow(monitor)
    /\ \A r \in Requests :
          /\ SoundRow(request[r].loaded)
          /\ SoundRow(request[r].edited)
          /\ request[r].phase = "committing" => PairedEdit(request[r])

\* The next check is never further away than the longest interval a client
\* asked for, although pause, resume and update compute it from rows and
\* clocks they read before other requests changed the row.
NextCheckWithinHorizon ==
    (presence = "stored" /\ monitor.next_check_at # NULL)
        => \E i \in Intervals : monitor.next_check_at <= now + i

\* Its strengthening: the instants in the requests' memory are as near.
NearRow(row) == row.next_check_at # NULL
                    => \E i \in Intervals : row.next_check_at <= now + i

HorizonInv ==
    /\ NearRow(monitor)
    /\ \A r \in Requests : NearRow(request[r].loaded) /\ NearRow(request[r].edited)

\* No request overwrites what a worker recorded: only a recorded result
\* changes a streak counter of a stored row, and no request turns a monitor
\* up or down, even when it commits an object loaded before the result.
ResultsSurviveRequests ==
    [][(presence = "stored" /\ \E r \in Requests : request'[r] # request[r])
         => /\ monitor'.consecutive_failures = monitor.consecutive_failures
            /\ monitor'.consecutive_successes = monitor.consecutive_successes
            /\ monitor'.status \in {monitor.status, "paused", "unknown"}]_apiVars

\* Its invariant: a handler's assignments leave the streaks alone and set the
\* status to paused or unknown only.
EditsInv ==
    \A r \in Requests : request[r].phase = "committing" =>
        LET q == request[r]
        IN  /\ q.edited.consecutive_failures = q.loaded.consecutive_failures
            /\ q.edited.consecutive_successes = q.loaded.consecutive_successes
            /\ q.edited.status \in {q.loaded.status, "paused", "unknown"}

\* Deletion is final: a commit that loaded the row before it was deleted
\* neither brings it back nor reports success for columns it wanted to write.
DeletionIsFinal ==
    [][presence = "deleted" =>
         /\ presence' = "deleted"
         /\ \A r \in Requests :
              (request[r].edited # request[r].loaded /\ request[r].phase = "committing")
                 => request'[r].reply # "200"]_apiVars

\* A resumed or created monitor has a next check: the document
\* docs/monitor-management-testing.md says that it "becomes enabled, and
\* receives one future next_check_at"; without it the scheduler never selects
\* the monitor again.
EnabledHasNextCheck ==
    (presence = "stored" /\ monitor.is_enabled) => monitor.next_check_at # NULL
=============================================================================
