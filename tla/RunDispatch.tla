---------------------------- MODULE RunDispatch ----------------------------
(***************************************************************************)
(* From a due monitor to a claimed run: the cycles of                      *)
(* monitoring/scheduler.py, which Celery beat starts every few seconds and *)
(* which may overlap, the queue of run identifiers, and the claim of       *)
(* monitoring/worker.py.                                                   *)
(*                                                                         *)
(* A cycle creates the due runs in one transaction that locks the due      *)
(* monitors FOR UPDATE SKIP LOCKED.  Then it sends the oldest run that was *)
(* not sent, run by run, each inside a transaction that locks the run,     *)
(* sends its identifier and commits enqueued_at AFTER that.  A worker      *)
(* acknowledges a message when it receives it and waits for the lock of    *)
(* the run.                                                                *)
(*                                                                         *)
(* Every monitor is checked once per tick here; MonitorApi has the         *)
(* intervals and the overlapping requests, CheckExecution what a worker    *)
(* does with a claimed run.                                                *)
(***************************************************************************)
EXTENDS Integers, Bags

CONSTANTS
    Monitors,
    Dispatchers,     \* processes that run scheduler cycles
    Workers,         \* processes that execute runs
    MaxFaults,       \* bound: failures of process, database or broker
    MaxTime,         \* bound: the last tick of the clock
    NULL             \* SQL NULL

ASSUME DispatchAssumption ==
    /\ MaxFaults \in Nat
    /\ MaxTime \in Nat
    /\ NULL \notin Nat
    /\ NULL \notin Monitors \X Nat

Slots == 0..MaxTime
Runs == Monitors \X Slots       \* <<monitor_id, scheduled_for>> is unique

VARIABLES
    now,             \* utc_now(), in ticks
    nextCheck,       \* next_check_at of each monitor, NULL while it is paused
    run,             \* status of each run: "settled" is completed or expired
    claims,          \* attempt_count of each run
    enqueued,        \* the runs whose enqueued_at is set
    queue,           \* messages of the execution queue, with copies
    dispatcher,      \* what each scheduler process is doing
    worker,          \* what each worker is doing
    faults,          \* ghost: failures so far
    lost             \* ghost: runs a message of which was lost

vars == <<now, nextCheck, run, claims, enqueued, queue, dispatcher, worker,
          faults, lost>>

DispatcherPhases == {"idle", "started", "scheduling", "enqueuing", "sending", "sent"}

DispatcherRecords ==
    [phase: DispatcherPhases,
     cutoff: Slots,                   \* the clock at the start of the cycle
     batch: SUBSET Monitors,          \* due monitors it holds locked
     run: Runs \cup {NULL}]           \* run it holds locked

WorkerRecords == [phase: {"idle", "received", "executing"}, run: Runs \cup {NULL}]

Resting == [phase |-> "idle", cutoff |-> 0, batch |-> {}, run |-> NULL]
Free == [phase |-> "idle", run |-> NULL]

DispatchTypeOK ==
    /\ now \in Slots
    /\ nextCheck \in [Monitors -> 0..(MaxTime + 1) \cup {NULL}]
    /\ run \in [Runs -> {"absent", "queued", "running", "settled"}]
    /\ claims \in [Runs -> 0..1]
    /\ enqueued \subseteq Runs
    /\ IsABag(queue) /\ BagToSet(queue) \subseteq Runs
    /\ dispatcher \in [Dispatchers -> DispatcherRecords]
    /\ worker \in [Workers -> WorkerRecords]
    /\ faults \in 0..MaxFaults
    /\ lost \subseteq Runs

Init ==
    /\ now = 0
    /\ nextCheck = [m \in Monitors |-> 0]
    /\ run = [r \in Runs |-> "absent"]
    /\ claims = [r \in Runs |-> 0]
    /\ enqueued = {}
    /\ queue = EmptyBag
    /\ dispatcher = [p \in Dispatchers |-> Resting]
    /\ worker = [w \in Workers |-> Free]
    /\ faults = 0
    /\ lost = {}

Fault ==
    /\ faults < MaxFaults
    /\ faults' = faults + 1

LockedMonitors == UNION {dispatcher[p].batch : p \in Dispatchers}
LockedRuns == {dispatcher[p].run : p \in Dispatchers} \ {NULL}

Active(m) == nextCheck[m] # NULL

Tick ==
    /\ now < MaxTime
    /\ now' = now + 1
    /\ UNCHANGED <<nextCheck, run, claims, enqueued, queue, dispatcher, worker,
                   faults, lost>>

-----------------------------------------------------------------------------
(* The commits of the requests, which wait for the lock of the monitor.       *)

PauseMonitor(m) ==
    /\ Active(m)
    /\ m \notin LockedMonitors
    /\ nextCheck' = [nextCheck EXCEPT ![m] = NULL]
    /\ UNCHANGED <<now, run, claims, enqueued, queue, dispatcher, worker, faults, lost>>

\* The handler may have read the clock a tick before it commits, and it also
\* reschedules a monitor that is enabled but overdue.
ResumeMonitor(m) ==
    /\ Active(m) => nextCheck[m] <= now
    /\ m \notin LockedMonitors
    /\ \E read \in {now - 1, now} \cap Slots :
          nextCheck' = [nextCheck EXCEPT ![m] = read + 1]
    /\ UNCHANGED <<now, run, claims, enqueued, queue, dispatcher, worker, faults, lost>>

-----------------------------------------------------------------------------
(* dispatch_due_monitors: _schedule_due_monitors *)

\* Beat starts a cycle, which reads the clock.
StartCycle(p) ==
    /\ dispatcher[p].phase = "idle"
    /\ dispatcher' = [dispatcher EXCEPT ![p] =
           [Resting EXCEPT !.phase = "started", !.cutoff = now]]
    /\ UNCHANGED <<now, nextCheck, run, claims, enqueued, queue, worker, faults, lost>>

Due(m, cutoff) == Active(m) /\ nextCheck[m] <= cutoff

\* Mutant of SelectDue: rows another cycle has locked are not skipped.
SelectDueLocked(p) ==
    /\ dispatcher[p].phase = "started"
    /\ dispatcher' = [dispatcher EXCEPT ![p] =
           [Resting EXCEPT !.phase = "scheduling",
                           !.cutoff = dispatcher[p].cutoff,
                           !.batch = {m \in Monitors : Due(m, dispatcher[p].cutoff)}]]
    /\ UNCHANGED <<now, nextCheck, run, claims, enqueued, queue, worker, faults, lost>>

\* SELECT ... FOR UPDATE SKIP LOCKED
SelectDue(p) ==
    /\ dispatcher[p].phase = "started"
    /\ dispatcher' = [dispatcher EXCEPT ![p] =
           [Resting EXCEPT !.phase = "scheduling",
                           !.cutoff = dispatcher[p].cutoff,
                           !.batch = {m \in Monitors \ LockedMonitors :
                                         Due(m, dispatcher[p].cutoff)}]]
    /\ UNCHANGED <<now, nextCheck, run, claims, enqueued, queue, worker, faults, lost>>

Enqueuing(p) ==
    dispatcher' = [dispatcher EXCEPT ![p] = [Resting EXCEPT !.phase = "enqueuing"]]

\* Mutants of CreateRuns: a slot that exists already is not left behind; it is
\* queued anew; slots that were missed are skipped.
CreateRunsStuck(p) ==
    LET new == {m \in dispatcher[p].batch : run[<<m, nextCheck[m]>>] = "absent"}
    IN  /\ dispatcher[p].phase = "scheduling"
        /\ run' = [r \in Runs |-> IF r[1] \in new /\ r[2] = nextCheck[r[1]]
                                 THEN "queued" ELSE run[r]]
        /\ nextCheck' = [m \in Monitors |-> IF m \in new THEN nextCheck[m] + 1
                                           ELSE nextCheck[m]]
        /\ Enqueuing(p)
        /\ UNCHANGED <<now, claims, enqueued, queue, worker, faults, lost>>

CreateRunsAgain(p) ==
    LET batch == dispatcher[p].batch
    IN  /\ dispatcher[p].phase = "scheduling"
        /\ run' = [r \in Runs |-> IF r[1] \in batch /\ r[2] = nextCheck[r[1]]
                                 THEN "queued" ELSE run[r]]
        /\ nextCheck' = [m \in Monitors |-> IF m \in batch THEN nextCheck[m] + 1
                                           ELSE nextCheck[m]]
        /\ enqueued' = enqueued \ {<<m, nextCheck[m]>> : m \in batch}
        /\ Enqueuing(p)
        /\ UNCHANGED <<now, claims, queue, worker, faults, lost>>

CreateRunsCatchUp(p) ==
    LET batch == dispatcher[p].batch
    IN  /\ dispatcher[p].phase = "scheduling"
        /\ run' = [r \in Runs |->
               IF r \in {<<m, nextCheck[m]>> : m \in batch} /\ run[r] = "absent"
               THEN "queued" ELSE run[r]]
        /\ nextCheck' = [m \in Monitors |-> IF m \in batch THEN now + 1
                                           ELSE nextCheck[m]]
        /\ Enqueuing(p)
        /\ UNCHANGED <<now, claims, enqueued, queue, worker, faults, lost>>

\* The transaction commits: one slot of each locked monitor, whether its run
\* exists already or not.
CreateRuns(p) ==
    LET batch == dispatcher[p].batch
        slots == {<<m, nextCheck[m]>> : m \in batch}
    IN  /\ dispatcher[p].phase = "scheduling"
        /\ run' = [r \in Runs |->
               IF r \in slots /\ run[r] = "absent" THEN "queued" ELSE run[r]]
        /\ nextCheck' = [m \in Monitors |->
               IF m \in batch THEN nextCheck[m] + 1 ELSE nextCheck[m]]
        /\ Enqueuing(p)
        /\ UNCHANGED <<now, claims, enqueued, queue, worker, faults, lost>>

\* It fails: nothing is created, and the cycle goes on to its second part.
CreateRunsFails(p) ==
    /\ dispatcher[p].phase \in {"started", "scheduling"}
    /\ Fault
    /\ Enqueuing(p)
    /\ UNCHANGED <<now, nextCheck, run, claims, enqueued, queue, worker, lost>>

-----------------------------------------------------------------------------
(* dispatch_due_monitors: _enqueue_pending_monitor_runs *)

EndCycle(p) == dispatcher' = [dispatcher EXCEPT ![p] = Resting]

\* It holds the lock of run r.
Holds(p, phase, r) ==
    dispatcher' = [dispatcher EXCEPT ![p] =
        [phase |-> phase, cutoff |-> 0, batch |-> {}, run |-> r]]

Pending == {r \in Runs : run[r] = "queued" /\ r \notin enqueued}

\* The oldest pending run that nobody has locked, or the end of the cycle.
SelectRun(p) ==
    LET candidates == Pending \ LockedRuns
    IN  /\ dispatcher[p].phase = "enqueuing"
        /\ \/ /\ candidates = {}
              /\ EndCycle(p)
           \/ \E r \in candidates :
                 /\ \A q \in candidates : r[2] <= q[2]
                 /\ Holds(p, "sending", r)
        /\ UNCHANGED <<now, nextCheck, run, claims, enqueued, queue, worker, faults,
                       lost>>

\* Mutant of SendRun: an error of the broker is not noticed.
SendRunUnnoticed(p) ==
    /\ dispatcher[p].phase = "sending"
    /\ Holds(p, "sent", dispatcher[p].run)
    /\ \/ /\ queue' = queue (+) SetToBag({dispatcher[p].run})
          /\ UNCHANGED faults
       \/ Fault /\ UNCHANGED queue
    /\ UNCHANGED <<now, nextCheck, run, claims, enqueued, worker, lost>>

\* enqueue(run_id); an error rolls back and ends the cycle.
SendRun(p) ==
    /\ dispatcher[p].phase = "sending"
    /\ \/ /\ queue' = queue (+) SetToBag({dispatcher[p].run})
          /\ Holds(p, "sent", dispatcher[p].run)
          /\ UNCHANGED faults
       \/ /\ Fault
          /\ EndCycle(p)
          /\ UNCHANGED queue
    /\ UNCHANGED <<now, nextCheck, run, claims, enqueued, worker, lost>>

\* The commit of enqueued_at; when it fails the run is pending as before, and
\* its message is in the queue already.
MarkEnqueued(p) ==
    /\ dispatcher[p].phase = "sent"
    /\ \/ /\ enqueued' = enqueued \cup {dispatcher[p].run}
          /\ Enqueuing(p)
          /\ UNCHANGED faults
       \/ /\ Fault
          /\ EndCycle(p)
          /\ UNCHANGED enqueued
    /\ UNCHANGED <<now, nextCheck, run, claims, queue, worker, lost>>

\* The process dies; the database releases its locks.
DispatcherDies(p) ==
    /\ dispatcher[p].phase # "idle"
    /\ Fault
    /\ EndCycle(p)
    /\ UNCHANGED <<now, nextCheck, run, claims, enqueued, queue, worker, lost>>

-----------------------------------------------------------------------------
(* The execution queue and its workers *)

\* A message is acknowledged when it is received.
ReceiveRun(w, r) ==
    /\ worker[w].phase = "idle"
    /\ BagIn(r, queue)
    /\ queue' = queue (-) SetToBag({r})
    /\ worker' = [worker EXCEPT ![w] = [phase |-> "received", run |-> r]]
    /\ UNCHANGED <<now, nextCheck, run, claims, enqueued, dispatcher, faults, lost>>

Claimable(r) == run[r] = "queued"

\* Mutant of ClaimRun: it gives up when the run is locked.
ClaimRunNoWait(w) ==
    LET r == worker[w].run
    IN  /\ worker[w].phase = "received"
        /\ IF r \notin LockedRuns /\ Claimable(r)
           THEN /\ run' = [run EXCEPT ![r] = "running"]
                /\ claims' = [claims EXCEPT ![r] = @ + 1]
                /\ worker' = [worker EXCEPT ![w] = [phase |-> "executing", run |-> r]]
           ELSE /\ worker' = [worker EXCEPT ![w] = Free]
                /\ UNCHANGED <<run, claims>>
        /\ UNCHANGED <<now, nextCheck, enqueued, queue, dispatcher, faults, lost>>

\* _claim_run waits for the lock of the run and then looks at its status.
ClaimRun(w) ==
    LET r == worker[w].run
    IN  /\ worker[w].phase = "received"
        /\ r \notin LockedRuns
        /\ \/ /\ Claimable(r)
              /\ Active(r[1])
              /\ run' = [run EXCEPT ![r] = "running"]
              /\ claims' = [claims EXCEPT ![r] = @ + 1]
              /\ worker' = [worker EXCEPT ![w] = [phase |-> "executing", run |-> r]]
           \/ /\ Claimable(r)
              /\ ~Active(r[1])
              /\ run' = [run EXCEPT ![r] = "settled"]
              /\ worker' = [worker EXCEPT ![w] = Free]
              /\ UNCHANGED claims
           \/ /\ ~Claimable(r)
              /\ worker' = [worker EXCEPT ![w] = Free]
              /\ UNCHANGED <<run, claims>>
        /\ UNCHANGED <<now, nextCheck, enqueued, queue, dispatcher, faults, lost>>

\* The rest of execute_monitor_run, which CheckExecution has in detail.
FinishRun(w) ==
    /\ worker[w].phase = "executing"
    /\ run' = [run EXCEPT ![worker[w].run] = "settled"]
    /\ worker' = [worker EXCEPT ![w] = Free]
    /\ UNCHANGED <<now, nextCheck, claims, enqueued, queue, dispatcher, faults, lost>>

\* The process dies, or the database fails its transaction: the message is
\* gone, and a run it has claimed stays running.
WorkerFails(w) ==
    /\ worker[w].phase # "idle"
    /\ Fault
    /\ worker' = [worker EXCEPT ![w] = Free]
    /\ lost' = lost \cup {worker[w].run}
    /\ UNCHANGED <<now, nextCheck, run, claims, enqueued, queue, dispatcher>>

\* The broker loses a message.
BrokerLoses(r) ==
    /\ BagIn(r, queue)
    /\ Fault
    /\ queue' = queue (-) SetToBag({r})
    /\ lost' = lost \cup {r}
    /\ UNCHANGED <<now, nextCheck, run, claims, enqueued, dispatcher, worker>>

DispatcherStep(p) ==
    \/ StartCycle(p)
    \/ SelectDue(p)
    \/ CreateRuns(p)
    \/ CreateRunsFails(p)
    \/ SelectRun(p)
    \/ SendRun(p)
    \/ MarkEnqueued(p)

WorkerStep(w) == ClaimRun(w) \/ FinishRun(w)

ReceiveSome(w) == \E r \in BagToSet(queue) : ReceiveRun(w, r)

Next ==
    \/ Tick
    \/ \E m \in Monitors : PauseMonitor(m) \/ ResumeMonitor(m)
    \/ \E p \in Dispatchers : DispatcherStep(p) \/ DispatcherDies(p)
    \/ \E w \in Workers : ReceiveSome(w) \/ WorkerStep(w) \/ WorkerFails(w)
    \/ \E r \in BagToSet(queue) : BrokerLoses(r)

\* Beat starts cycles for ever and a cycle goes on until it ends; free workers
\* take messages, and a worker that waits for a lock gets it when it is free
\* again and again.
Fairness ==
    /\ \A p \in Dispatchers : WF_vars(DispatcherStep(p))
    /\ WF_vars(\E w \in Workers : ReceiveSome(w))
    /\ \A w \in Workers : SF_vars(WorkerStep(w))

Safety == Init /\ [][Next]_vars

Spec == Safety /\ Fairness

-----------------------------------------------------------------------------
(* What the dispatch of runs may rely on *)

\* A run that the scheduler will not send again is on its way: enqueued_at is
\* committed after the message was sent, so that a queued run either is picked
\* by the next cycle, or has a message with the broker or in a worker's hand, or
\* the broker or the worker lost it.
QueuedIsOnItsWay ==
    \A r \in enqueued : run[r] = "queued" =>
        \/ BagIn(r, queue)
        \/ \E w \in Workers : worker[w].phase = "received" /\ worker[w].run = r
        \/ r \in lost

\* Two cycles never work on one row: a monitor is in one batch and a run in one
\* sending transaction, and the run being sent is still pending.
CyclesDoNotMeet ==
    \A p, q \in Dispatchers :
        /\ p # q => dispatcher[p].batch \cap dispatcher[q].batch = {}
        /\ p # q /\ dispatcher[p].run # NULL => dispatcher[p].run # dispatcher[q].run
        /\ dispatcher[p].run # NULL => dispatcher[p].run \in Pending

\* A cycle skips no slot, however late it comes and whatever overlaps it: it
\* moves a monitor by one slot, in the commit that leaves that slot's run behind.
\* Only a request may move the schedule over a slot.
NoSlotSkipped ==
    [][dispatcher' # dispatcher =>
          \A m \in Monitors : nextCheck'[m] # nextCheck[m] =>
              /\ nextCheck'[m] = nextCheck[m] + 1
              /\ run'[<<m, nextCheck[m]>>] # "absent"]_vars

\* The life of a run, whatever is sent twice or lost.
Lifecycle == INSTANCE RunLifecycle WITH status <- run

FollowsLifecycle == Lifecycle!LifecycleSpec

\* A due monitor is scheduled or paused: no cycle starves another of its lock.
DueIsScheduled ==
    \A m \in Monitors :
        Active(m) /\ nextCheck[m] <= now ~> ~Active(m) \/ nextCheck[m] > now

\* A run that is created is claimed or expires, unless a message of it was lost.
RunsStart ==
    \A r \in Runs : run[r] = "queued" ~> run[r] # "queued" \/ r \in lost
=============================================================================
