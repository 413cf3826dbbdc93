--------------------------- MODULE CheckExecution ---------------------------
(***************************************************************************)
(* One monitor from its due instant to its incident: the scheduler's       *)
(* transaction, the workers of monitoring/worker.py and the rows they      *)
(* write (monitor_runs, monitor_checks, incidents, incident_events and     *)
(* notification_deliveries), together with the requests of MonitorApi.     *)
(* Monitors share no row, so one stands for all.                           *)
(*                                                                         *)
(* A run is known by its scheduled_for, which is unique per monitor, and   *)
(* an incident by the run whose check triggered it.  The broker may hand   *)
(* any stored run to any worker, again and again: RunDispatch has the      *)
(* queue.  A transaction that locks its rows FOR UPDATE is one step; the   *)
(* HTTP request, the reading of the clock before the completing            *)
(* transaction, and the publication after it are steps of their own.       *)
(***************************************************************************)
EXTENDS MonitorApi, Sequences, FiniteSets

CONSTANT Workers       \* worker processes

VARIABLES
    run,           \* status of the run of each slot
    attempts,      \* attempt_count of the run of each slot
    check,         \* outcome of the check of each slot's run
    incident,      \* incident triggered by the check of each slot's run
    lastChecked,   \* monitors.last_checked_at
    worker,        \* what each worker process is doing
    published,     \* deliveries handed to the email queue
    history        \* outcomes of monitor_checks in the order of their commits

rowVars == <<run, attempts, check, incident, lastChecked, history>>
execVars == <<rowVars, worker, published>>
vars == <<apiVars, execVars>>

Slots == 0..MaxTime

RunStatuses == {"absent", "queued", "running", "completed", "expired"}
Outcomes == {"success", "failure"}
DeliveryTypes == {"incident_opened", "incident_recovered"}

IncidentRecords ==
    [status: {"none", "open", "resolved"},
     opened_at: Slots,
     resolved_at: Slots,
     events: Seq({"opened", "resolved"}),
     deliveries: Seq(DeliveryTypes)]

NoIncident ==
    [status |-> "none", opened_at |-> 0, resolved_at |-> 0,
     events |-> <<>>, deliveries |-> <<>>]

WorkerPhases == {"idle", "claimed", "requesting", "answered", "publishing"}

WorkerRecords ==
    [phase: WorkerPhases,
     slot: Slots,                \* the run in hand, or the incident to announce
     outcome: Outcomes,
     completed_at: Slots,
     delivery: DeliveryTypes]

IdleWorker ==
    [phase |-> "idle", slot |-> 0, outcome |-> "failure", completed_at |-> 0,
     delivery |-> "incident_opened"]

ExecTypeOK ==
    /\ run \in [Slots -> RunStatuses]
    /\ attempts \in [Slots -> Nat]
    /\ check \in [Slots -> Outcomes \cup {"none"}]
    /\ incident \in [Slots -> IncidentRecords]
    /\ lastChecked \in Slots \cup {NULL}
    /\ worker \in [Workers -> WorkerRecords]
    /\ published \subseteq (Slots \X DeliveryTypes)
    /\ history \in Seq(Outcomes)

ExecInit ==
    /\ run = [s \in Slots |-> "absent"]
    /\ attempts = [s \in Slots |-> 0]
    /\ check = [s \in Slots |-> "none"]
    /\ incident = [s \in Slots |-> NoIncident]
    /\ lastChecked = NULL
    /\ worker = [w \in Workers |-> IdleWorker]
    /\ published = {}
    /\ history = <<>>

Init == ApiInit /\ ExecInit

Open == {s \in Slots : incident[s].status = "open"}

-----------------------------------------------------------------------------
(* Scheduler: _schedule_due_monitors for this monitor. *)

\* Mutant of ScheduleRun: slots that were missed are skipped.
ScheduleRunFromNow ==
    /\ presence = "stored"
    /\ SchedulerEligible(monitor, now)
    /\ run' = [run EXCEPT ![monitor.next_check_at] = "queued"]
    /\ monitor' = [monitor EXCEPT !.next_check_at = now + monitor.interval_seconds]
    /\ UNCHANGED <<now, presence, request, attempts, check, incident, lastChecked,
                   history, worker, published>>

\* A run that exists already is an IntegrityError inside the savepoint; the
\* monitor is rescheduled either way.
ScheduleRun ==
    /\ ScheduleDue
    /\ LET slot == monitor.next_check_at
       IN  run' = IF run[slot] = "absent"
                  THEN [run EXCEPT ![slot] = "queued"] ELSE run
    /\ UNCHANGED <<attempts, check, incident, lastChecked, history, worker, published>>

-----------------------------------------------------------------------------
(* Workers *)

Rest(w) == worker' = [worker EXCEPT ![w] = IdleWorker]

\* Mutant of Claimable: a run that is already running is claimed again.
ClaimableAgain(slot) == run[slot] \in {"queued", "running"}

Claimable(slot) == run[slot] = "queued"

\* _claim_run: a run that is not queued is skipped, which changes nothing.
ClaimRun(w, slot) ==
    /\ worker[w].phase = "idle"
    /\ Claimable(slot)
    /\ IF CanExecuteRequest(monitor)
       THEN /\ run' = [run EXCEPT ![slot] = "running"]
            /\ attempts' = [attempts EXCEPT ![slot] = @ + 1]
            /\ worker' = [worker EXCEPT ![w] =
                   [IdleWorker EXCEPT !.phase = "claimed", !.slot = slot]]
       ELSE /\ run' = [run EXCEPT ![slot] = "expired"]
            /\ UNCHANGED <<attempts, worker>>
    /\ UNCHANGED <<apiVars, check, incident, lastChecked, history, published>>

\* _load_active_request: a second look at the run and the monitor, unlocked.
LoadRequest(w) ==
    LET slot == worker[w].slot
    IN  /\ worker[w].phase = "claimed"
        /\ \/ /\ run[slot] # "running"
              /\ Rest(w)
              /\ UNCHANGED run
           \/ /\ run[slot] = "running"
              /\ ~CanExecuteRequest(monitor)
              /\ run' = [run EXCEPT ![slot] = "expired"]
              /\ Rest(w)
           \/ /\ run[slot] = "running"
              /\ CanExecuteRequest(monitor)
              /\ worker' = [worker EXCEPT ![w].phase = "requesting"]
              /\ UNCHANGED run
        /\ UNCHANGED <<apiVars, attempts, check, incident, lastChecked, history,
                       published>>

\* The request ends, by a response or by an error, and _complete_run reads
\* the clock before it asks for any lock.
ReceiveAnswer(w, outcome) ==
    /\ worker[w].phase = "requesting"
    /\ worker' = [worker EXCEPT ![w] =
           [@ EXCEPT !.phase = "answered", !.outcome = outcome,
                     !.completed_at = now]]
    /\ UNCHANGED <<apiVars, rowVars, published>>

\* Mutants of OpenIncident: it does not look for an active incident; it
\* leaves the opening instant NULL.
OpenIncidentBlindly(slot, occurred_at) ==
    [incident EXCEPT ![slot] =
        [status |-> "open", opened_at |-> occurred_at, resolved_at |-> 0,
         events |-> <<"opened">>, deliveries |-> <<"incident_opened">>]]

OpenIncidentUntimed(slot, occurred_at) ==
    IF Open # {} THEN incident
    ELSE [incident EXCEPT ![slot] =
             [status |-> "open", opened_at |-> NULL, resolved_at |-> 0,
              events |-> <<"opened">>, deliveries |-> <<"incident_opened">>]]

\* _add_incident_opening: an active incident is reused.
OpenIncident(slot, occurred_at) ==
    IF Open # {} THEN incident
    ELSE [incident EXCEPT ![slot] =
             [status |-> "open", opened_at |-> occurred_at, resolved_at |-> 0,
              events |-> <<"opened">>, deliveries |-> <<"incident_opened">>]]

\* Mutant of ResolveIncident: event and delivery are added, the incident stays open.
ResolveIncidentKeepsOpen(i, occurred_at) ==
    [incident EXCEPT
        ![i].events = Append(@, "resolved"),
        ![i].deliveries = Append(@, "incident_recovered")]

\* _add_incident_resolution of the active incident i.
ResolveIncident(i, occurred_at) ==
    LET old == incident[i]
    IN  [incident EXCEPT ![i] =
            [status |-> "resolved", opened_at |-> old.opened_at,
             resolved_at |-> occurred_at,
             events |-> Append(old.events, "resolved"),
             deliveries |-> Append(old.deliveries, "incident_recovered")]]

\* The worker goes on to publish the delivery it committed, if there is one.
Announce(w, slot, delivery) ==
    worker' = [worker EXCEPT ![w] =
        [IdleWorker EXCEPT !.phase = "publishing", !.slot = slot,
                           !.delivery = delivery]]

\* Mutant of ResolvedInOrder: the table has no such constraint.
ResolvedAnyTime(i, at) == TRUE

\* The constraint ck_incidents_resolved_time.
ResolvedInOrder(i, at) == at >= incident[i].opened_at

\* What _complete_run writes to last_checked_at.
CheckedAt(w) == worker[w].completed_at

\* The part of _complete_run that concerns monitors and incidents.
RecordTransition(w, slot, success, at) ==
    LET applied == ResultApplied(monitor, success)
        transition == Transition(monitor, success)
    IN  \/ /\ \/ transition = "none"
              \/ transition = "incident_recovery_ready" /\ Open = {}
           /\ monitor' = applied
           /\ Rest(w)
           /\ UNCHANGED incident
        \/ /\ transition = "incident_opened"
           /\ monitor' = applied
           /\ incident' = OpenIncident(slot, at)
           /\ IF Open = {} THEN Announce(w, slot, "incident_opened") ELSE Rest(w)
        \/ /\ transition = "incident_recovery_ready"
           /\ \E i \in Open :
                /\ ResolvedInOrder(i, at)
                /\ incident' = ResolveIncident(i, at)
                /\ Announce(w, i, "incident_recovered")
           /\ monitor' = Recovered(applied)

\* _complete_run, committed: run, check, monitor and incident in one
\* transaction that holds the run and then the monitor.
CompleteRun(w) ==
    LET slot == worker[w].slot
        at == worker[w].completed_at
        success == worker[w].outcome = "success"
    IN  /\ worker[w].phase = "answered"
        /\ run[slot] = "running"
        /\ check[slot] = "none"
        /\ RecordTransition(w, slot, success, at)
        /\ run' = [run EXCEPT ![slot] = "completed"]
        /\ check' = [check EXCEPT ![slot] = worker[w].outcome]
        /\ history' = Append(history, worker[w].outcome)
        /\ lastChecked' = CheckedAt(w)
        /\ UNCHANGED <<now, presence, request, attempts, published>>

\* _complete_run finds the run gone, no longer running or checked already.
SkipCompletion(w) ==
    /\ worker[w].phase = "answered"
    /\ run[worker[w].slot] # "running" \/ check[worker[w].slot] # "none"
    /\ Rest(w)
    /\ UNCHANGED <<apiVars, rowVars, published>>

\* Mutant of RejectCompletion: the delivery is announced although the
\* transaction that stored it was rolled back.
RejectCompletionAnnounced(w) ==
    /\ worker[w].phase = "answered"
    /\ run[worker[w].slot] = "running"
    /\ check[worker[w].slot] = "none"
    /\ Transition(monitor, worker[w].outcome = "success") = "incident_recovery_ready"
    /\ \E i \in Open : /\ ~ResolvedInOrder(i, worker[w].completed_at)
                       /\ Announce(w, i, "incident_recovered")
    /\ UNCHANGED <<apiVars, rowVars, published>>

\* The check constraint resolved_at >= opened_at refuses the transaction: a
\* SQLAlchemyError, so all of it is rolled back and the result is dropped.
RejectCompletion(w) ==
    /\ worker[w].phase = "answered"
    /\ run[worker[w].slot] = "running"
    /\ check[worker[w].slot] = "none"
    /\ Transition(monitor, worker[w].outcome = "success") = "incident_recovery_ready"
    /\ \E i \in Open : ~ResolvedInOrder(i, worker[w].completed_at)
    /\ Rest(w)
    /\ UNCHANGED <<apiVars, rowVars, published>>

\* After the commit: the email task is queued, or the failure to queue it is
\* only logged.
PublishDelivery(w) ==
    /\ worker[w].phase = "publishing"
    /\ published' \in {published, published \cup {<<worker[w].slot, worker[w].delivery>>}}
    /\ Rest(w)
    /\ UNCHANGED <<apiVars, rowVars>>

\* The process dies, or the database fails the transaction it is in.  The
\* task was acknowledged when it was received: nobody resumes it.
WorkerStops(w) ==
    /\ worker[w].phase # "idle"
    /\ Rest(w)
    /\ UNCHANGED <<apiVars, rowVars, published>>

WorkerStep(w) ==
    \/ \E slot \in Slots : ClaimRun(w, slot)
    \/ LoadRequest(w)
    \/ \E outcome \in Outcomes : ReceiveAnswer(w, outcome)
    \/ CompleteRun(w)
    \/ SkipCompletion(w)
    \/ RejectCompletion(w)
    \/ PublishDelivery(w)

-----------------------------------------------------------------------------
(* Requests; a committed DELETE takes every row of the monitor with it. *)

ServeRequest(r) ==
    /\ RequestStep(r)
    /\ IF presence = "stored" /\ presence' = "deleted"
       THEN /\ run' = [s \in Slots |-> "absent"]
            /\ attempts' = [s \in Slots |-> 0]
            /\ check' = [s \in Slots |-> "none"]
            /\ incident' = [s \in Slots |-> NoIncident]
            /\ lastChecked' = NULL
            /\ history' = <<>>
            /\ UNCHANGED <<worker, published>>
       ELSE UNCHANGED execVars

Advance == Tick /\ UNCHANGED execVars

Reliable ==
    \/ \E r \in Requests : ServeRequest(r)
    \/ Advance
    \/ ScheduleRun
    \/ \E w \in Workers : WorkerStep(w)

Next == Reliable \/ \E w \in Workers : WorkerStops(w)

Spec == Init /\ [][Next]_vars

\* Without crashes and database failures, every worker keeps working.
LiveSpec == Init /\ [][Reliable]_vars /\ \A w \in Workers : WF_vars(WorkerStep(w))

-----------------------------------------------------------------------------
(* Properties *)

\* At most one incident of a monitor is active, although _add_incident_opening
\* looks for one with a plain SELECT: the lock on the monitor row serialises
\* the completions, so the partial unique index never has to refuse one.
OneActiveIncident == \A i, j \in Open : i = j

\* A monitor that is down has an active incident, whatever pauses, resumes,
\* edits and late results came between: the status and the incident are
\* written in different branches of _complete_run and resume rewrites one.
DownHasIncident ==
    (presence = "stored" /\ monitor.status = "down") => Open # {}

\* A run is claimed once and checked once: the broker may deliver its message
\* again to any worker, at any time.
OneCheckPerRun ==
    \A s \in Slots :
        /\ attempts[s] \in {0, 1}
        /\ run[s] \in {"absent", "queued"} => attempts[s] = 0
        /\ run[s] \in {"running", "completed"} => attempts[s] = 1
        /\ check[s] # "none" <=> run[s] = "completed"

\* No two workers have the same run in hand, even after its monitor is gone.
InHand(w) == worker[w].phase \in {"claimed", "requesting", "answered"}

ExclusiveRun ==
    \A v, w \in Workers :
        v # w /\ InHand(v) /\ InHand(w) => worker[v].slot # worker[w].slot

\* The strengthening of the four invariants above that every step preserves:
\* without the monitor there is no row of its runs and incidents, and the run
\* a worker has in hand is running for as long as the monitor is stored.
RowsFollowMonitor ==
    presence # "stored" =>
        \A s \in Slots : /\ run[s] = "absent"
                         /\ attempts[s] = 0
                         /\ check[s] = "none"
                         /\ incident[s].status = "none"

RunInHand ==
    \A w \in Workers : InHand(w) =>
        /\ presence # "absent"
        /\ presence = "stored" => run[worker[w].slot] = "running"

ExecInv ==
    /\ RowsFollowMonitor
    /\ RunInHand
    /\ OneCheckPerRun
    /\ ExclusiveRun
    /\ OneActiveIncident
    /\ DownHasIncident

\* What an incident says of itself agrees: it was triggered by a failed check
\* that is stored, it has one event and one delivery per transition, and it was
\* not resolved before it was opened.
IncidentHistory ==
    \A s \in Slots :
        LET i == incident[s]
        IN  /\ i.status # "none" => check[s] = "failure"
            /\ i.status = "open" =>
                  i.events = <<"opened">> /\ i.deliveries = <<"incident_opened">>
            /\ i.status = "resolved" =>
                  /\ i.events = <<"opened", "resolved">>
                  /\ i.deliveries = <<"incident_opened", "incident_recovered">>
                  /\ i.resolved_at >= i.opened_at

\* The email queue never learns of a delivery that is not stored: the task is
\* queued after the commit, and a transaction that was rolled back queues none.
PublishedAreStored ==
    presence = "stored" =>
        \A p \in published : \E k \in 1..Len(incident[p[1]].deliveries) :
            incident[p[1]].deliveries[k] = p[2]

\* The last n checks, in commit order, all had this outcome.
LastAre(outcome, n) ==
    /\ n <= Len(history)
    /\ \A k \in (Len(history) - n + 1)..Len(history) : history[k] = outcome

\* An incident opens only after failure_threshold failed checks in a row, of
\* whatever workers and in whatever order they committed.
OpeningIsJustified ==
    [][(\E s \in Slots : incident[s].status = "none" /\ incident'[s].status = "open")
         => LastAre("failure", monitor.failure_threshold)']_vars

\* An incident is resolved only after recovery_threshold successes in a row,
\* and resolving it takes the monitor from down to up.
ResolutionIsJustified ==
    [][(\E s \in Slots : incident[s].status = "open" /\ incident'[s].status = "resolved")
         => /\ monitor.status = "down" /\ monitor'.status = "up"
            /\ LastAre("success", monitor.recovery_threshold)']_vars

\* A paused monitor opens and resolves nothing, although the result of a check
\* that was in flight is still recorded and counted.
PausedIncidentsFrozen ==
    [][(monitor.status = "paused" /\ presence' = "stored")
         => UNCHANGED incident]_vars

\* A monitor that comes up from down leaves no incident active.
RecoveryClosesIncident ==
    [][(presence = "stored" /\ monitor.status = "down" /\ monitor'.status = "up")
         => Open' = {}]_vars

\* Every queued run is settled: docs/testing.md promises "one check and counter
\* update per run", and with a worker that keeps working a run is completed or
\* expired unless its monitor is deleted.
RunsSettle ==
    \A s \in Slots : run[s] \in {"queued", "running"}
                      ~> run[s] \in {"absent", "completed", "expired"}
=============================================================================
