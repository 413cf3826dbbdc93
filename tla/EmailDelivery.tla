--------------------------- MODULE EmailDelivery ---------------------------
(***************************************************************************)
(* The email queue and its workers: notifications/email.py, claim.py,      *)
(* retry.py and dispatcher.py, run by the Celery task of celery_app.py,    *)
(* which is acknowledged late and rejected when its worker is lost.        *)
(*                                                                         *)
(* A message names a delivery and the instant before which no worker runs  *)
(* it (the countdown of a retry).  The worker that has a message in hand   *)
(* loads the row, claims it with one conditional UPDATE, calls SMTP        *)
(* outside any transaction, records the outcome in a second transaction,   *)
(* publishes the retry after that commit, and only then acknowledges.      *)
(***************************************************************************)
EXTENDS Integers, Bags

CONSTANTS
    Deliveries,      \* identifiers of notification_deliveries rows
    MaxAttempts,     \* MAX_EMAIL_ATTEMPTS
    BaseDelay,       \* BASE_RETRY_DELAY_SECONDS, in ticks
    MaxDelay,        \* MAX_RETRY_DELAY_SECONDS, in ticks
    Workers,         \* processes of the email queue
    Faults,          \* the kinds of fault that may happen
    MaxFaults,       \* bound: how many of them happen
    MaxTime,         \* bound: the last tick of the clock
    NULL             \* SQL NULL

FaultKinds == {"worker_lost", "task_fails", "publish_fails", "redelivery"}

ASSUME EmailAssumption ==
    /\ Deliveries # {}
    /\ MaxAttempts \in Nat \ {0}
    /\ BaseDelay \in Nat \ {0}
    /\ MaxDelay \in Nat \ {0}
    /\ MaxTime \in Nat
    /\ MaxFaults \in Nat
    /\ Faults \subseteq FaultKinds
    /\ NULL \notin Nat

VARIABLES
    clock,           \* utc_now(), in ticks
    row,             \* the notification_deliveries rows
    queue,           \* the messages of the email queue, with copies
    sender,          \* what each worker process is doing
    faults,          \* ghost: the faults that happened
    handed,          \* ghost: emails the provider accepted, per delivery
    unclear,         \* ghost: those of them for which it reported an error
    harmed           \* ghost: deliveries hit by a fault nothing repairs

vars == <<clock, row, queue, sender, faults, handed, unclear, harmed>>

RowStatuses ==
    {"absent", "pending", "sending", "retrying", "delivered", "failed", "gone"}

DeliveryRows ==
    [status: RowStatuses,
     attempt_count: 0..MaxAttempts,   \* attempts are bounded
     last_attempt_at: Nat \cup {NULL},
     next_retry_at: Nat \cup {NULL}]

Messages == [delivery: Deliveries, eta: Nat]

SenderPhases == {"idle", "received", "loaded", "claimed", "accepted", "refused",
                 "scheduling", "done"}

SenderRecords ==
    [phase: SenderPhases,
     message: Messages,
     attempted_at: Nat,
     temporary: BOOLEAN,          \* classify_provider_failure(error).temporary
     delay: Nat]                  \* the countdown of the retry to publish

NewRow(status) ==
    [status |-> status, attempt_count |-> 0,
     last_attempt_at |-> NULL, next_retry_at |-> NULL]

\* The rows when that of d has another status and next_retry_at.
With(d, status, next_retry_at) ==
    [row EXCEPT ![d] = [status |-> status,
                        attempt_count |-> row[d].attempt_count,
                        last_attempt_at |-> row[d].last_attempt_at,
                        next_retry_at |-> next_retry_at]]

Stored(d) == row[d].status \notin {"absent", "gone"}

\* retry_delay_seconds.
RetryDelay(attempt_count) ==
    LET delay == BaseDelay * 2 ^ (attempt_count - 1)
    IN  IF delay < MaxDelay THEN delay ELSE MaxDelay

\* Worker w has a message of delivery d in hand, in one of the phases.
InHand(w, d, phases) == sender[w].phase \in phases /\ sender[w].message.delivery = d

\* Faults are finite in number: without an end to them nothing settles.
Fault(kind) ==
    /\ kind \in Faults
    /\ faults < MaxFaults
    /\ faults' = faults + 1

NoWork ==
    [phase |-> "idle",
     message |-> [delivery |-> CHOOSE d \in Deliveries : TRUE, eta |-> 0],
     attempted_at |-> 0, temporary |-> FALSE, delay |-> 0]

EmailTypeOK ==
    /\ clock \in 0..MaxTime
    /\ row \in [Deliveries -> DeliveryRows]
    /\ \A d \in Deliveries : row[d].status = "retrying" =>
           row[d].attempt_count < MaxAttempts /\ row[d].next_retry_at # NULL
    /\ IsABag(queue) /\ BagToSet(queue) \subseteq Messages
    /\ sender \in [Workers -> SenderRecords]
    /\ faults \in 0..MaxFaults
    /\ handed \in [Deliveries -> Nat]
    /\ unclear \in [Deliveries -> Nat]
    /\ harmed \subseteq Deliveries

Init ==
    /\ clock = 0
    /\ row = [d \in Deliveries |-> NewRow("absent")]
    /\ queue = EmptyBag
    /\ sender = [w \in Workers |-> NoWork]
    /\ faults = 0
    /\ handed = [d \in Deliveries |-> 0]
    /\ unclear = [d \in Deliveries |-> 0]
    /\ harmed = {}

-----------------------------------------------------------------------------
(* The rest of the system: CheckExecution stores the row, publishes its      *)
(* message after the commit, and a deletion of the monitor removes the row.  *)

Publish(d, eta) ==
    queue' = queue (+) SetToBag({[delivery |-> d, eta |-> eta]})

StoreDelivery(d) ==
    /\ row[d].status = "absent"
    /\ row' = [row EXCEPT ![d] = NewRow("pending")]
    /\ \/ /\ Publish(d, clock)
          /\ UNCHANGED <<faults, harmed>>
       \/ /\ Fault("publish_fails")
          /\ harmed' = harmed \cup {d}
          /\ UNCHANGED queue
    /\ UNCHANGED <<clock, sender, handed, unclear>>

RemoveDelivery(d) ==
    /\ Stored(d)
    /\ row' = With(d, "gone", row[d].next_retry_at)
    /\ UNCHANGED <<clock, queue, sender, handed, unclear, harmed, faults>>

Tick ==
    /\ clock < MaxTime
    /\ clock' = clock + 1
    /\ UNCHANGED <<row, queue, sender, handed, unclear, harmed, faults>>

-----------------------------------------------------------------------------
(* deliver_notification *)

\* Worker w goes on with its message, or with another one.
Working(w, phase, message, attempted_at, temporary, delay) ==
    sender' = [sender EXCEPT ![w] =
        [phase |-> phase, message |-> message, attempted_at |-> attempted_at,
         temporary |-> temporary, delay |-> delay]]

Goes(w, phase, temporary, delay) ==
    Working(w, phase, sender[w].message, sender[w].attempted_at, temporary, delay)

\* The task returns; only the acknowledgement of its message is left.
Return(w) == Working(w, "done", sender[w].message, 0, FALSE, 0)

Idle(w) == sender' = [sender EXCEPT ![w] = NoWork]

\* The broker hands a message to a free worker, whose countdown is over.
Receive(w, message) ==
    /\ sender[w].phase = "idle"
    /\ BagIn(message, queue)
    /\ message.eta <= clock
    /\ queue' = queue (-) SetToBag({message})
    /\ Working(w, "received", message, 0, FALSE, 0)
    /\ UNCHANGED <<clock, row, handed, unclear, harmed, faults>>

\* _load_email_context, and the clock right after it: a missing or delivered
\* row ends the task.
LoadContext(w) ==
    LET d == sender[w].message.delivery
    IN  /\ sender[w].phase = "received"
        /\ IF Stored(d) /\ row[d].status # "delivered"
           THEN Working(w, "loaded", sender[w].message, clock, FALSE, 0)
           ELSE Return(w)
        /\ UNCHANGED <<clock, row, queue, handed, unclear, harmed, faults>>

Due(d, attempted_at) ==
    row[d].next_retry_at = NULL \/ row[d].next_retry_at <= attempted_at

\* Mutants of Claimable: a stuck row is taken over; the countdown is ignored; a
\* failed row is tried again.
ClaimableWhileSending(d, attempted_at) ==
    \/ row[d].status \in {"pending", "sending"}
    \/ row[d].status = "retrying" /\ Due(d, attempted_at)

ClaimableEarly(d, attempted_at) == row[d].status \in {"pending", "retrying"}

ClaimableFailed(d, attempted_at) ==
    \/ row[d].status \in {"pending", "failed"}
    \/ row[d].status = "retrying" /\ Due(d, attempted_at)

Claimable(d, attempted_at) ==
    \/ row[d].status = "pending"
    \/ row[d].status = "retrying" /\ Due(d, attempted_at)

\* claim_notification_delivery: one conditional UPDATE, committed at once.  Any
\* other state of the row ends the task.
Claim(w) ==
    LET d == sender[w].message.delivery
        at == sender[w].attempted_at
    IN  /\ sender[w].phase = "loaded"
        /\ \/ /\ Claimable(d, at)
              /\ row' = [row EXCEPT ![d] =
                     [status |-> "sending",
                      attempt_count |-> row[d].attempt_count + 1,
                      last_attempt_at |-> at,
                      next_retry_at |-> NULL]]
              /\ Goes(w, "claimed", FALSE, 0)
           \/ /\ ~Claimable(d, at)
              /\ Return(w)
              /\ UNCHANGED row
        /\ UNCHANGED <<clock, queue, handed, unclear, harmed, faults>>

\* The provider takes the email and says so.
Accept(w) ==
    /\ sender[w].phase = "claimed"
    /\ Goes(w, "accepted", FALSE, 0)
    /\ handed' = [handed EXCEPT ![sender[w].message.delivery] = @ + 1]
    /\ UNCHANGED <<clock, row, queue, unclear, harmed, faults>>

\* It reports an error, a temporary one or a permanent one.
Refuse(w, temporary) ==
    /\ sender[w].phase = "claimed"
    /\ Goes(w, "refused", temporary, 0)
    /\ UNCHANGED <<clock, row, queue, handed, unclear, harmed, faults>>

\* It takes the email, but the connection breaks before it says so: an OSError,
\* which counts as temporary.
BreakOff(w) ==
    LET d == sender[w].message.delivery
    IN  /\ sender[w].phase = "claimed"
        /\ Goes(w, "refused", TRUE, 0)
        /\ handed' = [handed EXCEPT ![d] = @ + 1]
        /\ unclear' = [unclear EXCEPT ![d] = @ + 1]
        /\ UNCHANGED <<clock, row, queue, harmed, faults>>

\* The transaction after a success.  A row that is gone is left alone; so is
\* one that is not sending, of which there is none while a worker is sending.
RecordDelivered(w) ==
    LET d == sender[w].message.delivery
    IN  /\ sender[w].phase = "accepted"
        /\ row' = IF row[d].status = "sending"
                  THEN With(d, "delivered", NULL)
                  ELSE row
        /\ Return(w)
        /\ UNCHANGED <<clock, queue, handed, unclear, harmed, faults>>

\* Mutant of Retryable: one attempt too many.
RetryableOnceMore(w) ==
    /\ sender[w].temporary
    /\ row[sender[w].message.delivery].attempt_count <= MaxAttempts

Retryable(w) ==
    /\ sender[w].temporary
    /\ row[sender[w].message.delivery].attempt_count < MaxAttempts

\* The transaction after an error.
RecordFailure(w) ==
    LET d == sender[w].message.delivery
        delay == RetryDelay(row[d].attempt_count)
    IN  /\ sender[w].phase = "refused"
        /\ \/ /\ row[d].status = "sending"
              /\ Retryable(w)
              /\ row' = With(d, "retrying", clock + delay)
              /\ Goes(w, "scheduling", TRUE, delay)
           \/ /\ row[d].status = "sending"
              /\ ~Retryable(w)
              /\ row' = With(d, "failed", NULL)
              /\ Return(w)
           \/ /\ row[d].status # "sending"
              /\ Return(w)
              /\ UNCHANGED row
        /\ UNCHANGED <<clock, queue, handed, unclear, harmed, faults>>

\* Mutant of ScheduleRetry: the message comes one tick before the row is due.
ScheduleRetryEarly(w) ==
    /\ sender[w].phase = "scheduling"
    /\ Publish(sender[w].message.delivery, clock + sender[w].delay - 1)
    /\ Return(w)
    /\ UNCHANGED <<clock, row, faults, handed, unclear, harmed>>

\* schedule_notification_retry after the commit; an error is only logged.
ScheduleRetry(w) ==
    LET d == sender[w].message.delivery
    IN  /\ sender[w].phase = "scheduling"
        /\ \/ /\ Publish(d, clock + sender[w].delay)
              /\ UNCHANGED <<faults, harmed>>
           \/ /\ Fault("publish_fails")
              /\ harmed' = harmed \cup {d}
              /\ UNCHANGED queue
        /\ Return(w)
        /\ UNCHANGED <<clock, row, handed, unclear>>

\* Celery acknowledges the message late, after the task returned.
Acknowledge(w) ==
    /\ sender[w].phase = "done"
    /\ Idle(w)
    /\ UNCHANGED <<clock, row, queue, handed, unclear, harmed, faults>>

-----------------------------------------------------------------------------
(* Faults *)

\* The process dies: its message goes back to the queue.
WorkerLost(w) ==
    /\ Fault("worker_lost")
    /\ sender[w].phase # "idle"
    /\ queue' = queue (+) SetToBag({sender[w].message})
    /\ Idle(w)
    /\ harmed' = harmed \cup
           (IF sender[w].phase \in {"claimed", "accepted", "refused", "scheduling"}
            THEN {sender[w].message.delivery} ELSE {})
    /\ UNCHANGED <<clock, row, handed, unclear>>

\* A transaction fails, or SMTP raises an error nobody catches: Celery
\* acknowledges the message of a task that raised.
TaskFails(w) ==
    /\ Fault("task_fails")
    /\ sender[w].phase \in {"received", "loaded", "claimed", "accepted", "refused"}
    /\ Idle(w)
    /\ harmed' = harmed \cup {sender[w].message.delivery}
    /\ UNCHANGED <<clock, row, queue, handed, unclear>>

\* The broker's visibility timeout gives a second worker the message while
\* the first still works on it.
Redeliver(w) ==
    /\ Fault("redelivery")
    /\ sender[w].phase # "idle"
    /\ queue' = queue (+) SetToBag({sender[w].message})
    /\ UNCHANGED <<clock, row, sender, handed, unclear, harmed>>

SenderStep(w) ==
    \/ LoadContext(w)
    \/ Claim(w)
    \/ Accept(w)
    \/ \E temporary \in BOOLEAN : Refuse(w, temporary)
    \/ BreakOff(w)
    \/ RecordDelivered(w)
    \/ RecordFailure(w)
    \/ ScheduleRetry(w)
    \/ Acknowledge(w)

ReceiveSome(w) == \E message \in BagToSet(queue) : Receive(w, message)

Mishap(w) == WorkerLost(w) \/ TaskFails(w) \/ Redeliver(w)

Next ==
    \/ \E d \in Deliveries : StoreDelivery(d) \/ RemoveDelivery(d)
    \/ Tick
    \/ \E w \in Workers : ReceiveSome(w) \/ SenderStep(w) \/ Mishap(w)

\* The clock runs, a free worker takes a message that is due, and a worker
\* that is not lost goes on with its task.
Fairness ==
    /\ WF_vars(Tick)
    /\ WF_vars(\E w \in Workers : ReceiveSome(w))
    /\ \A w \in Workers : WF_vars(SenderStep(w))

Spec == Init /\ [][Next]_vars /\ Fairness

-----------------------------------------------------------------------------
(* What the emails of an incident may rely on *)

\* An email is handed over again only after the provider's answer to the one
\* before was lost, and the row tells which: "delivered" after an acknowledged
\* handover, and pending, retrying or failed only without one.
OneAcknowledgedHandover ==
    \A d \in Deliveries :
        /\ handed[d] - unclear[d] \in {0, 1}
        /\ row[d].status = "delivered" => handed[d] = unclear[d] + 1
        /\ row[d].status \in {"pending", "retrying", "failed"} =>
               handed[d] = unclear[d]

\* Whatever message brings the worker, an early copy included, a retry starts no
\* sooner than the delay of its attempt after the attempt before, and the
\* attempt's recorded time never goes back (the WHERE clause of claim.py against
\* the delay that email.py stores).
RetriesBackOff ==
    [][\A d \in Deliveries :
           row[d].status = "retrying" /\ row'[d].status = "sending" =>
               row'[d].last_attempt_at >=
                   row[d].last_attempt_at + RetryDelay(row[d].attempt_count)]_vars

\* The row obeys the lifecycle of delivery_state.py, although its claim is an
\* UPDATE that never calls transition_delivery.
Lifecycle ==
    INSTANCE DeliveryLifecycle
        WITH status <- [d \in Deliveries |-> row[d].status],
             attempts <- [d \in Deliveries |-> row[d].attempt_count]

FollowsLifecycle == Lifecycle!LifecycleSpec

\* A stored email ends up delivered or failed, unless its monitor is deleted, a
\* fault nothing repairs hit it, or its next retry lies beyond the clock's bound.
BeyondBound(d) ==
    \E message \in BagToSet(queue) :
        message.delivery = d /\ message.eta > MaxTime

DeliveriesSettle ==
    \A d \in Deliveries :
        row[d].status = "pending" ~>
            \/ row[d].status \in {"delivered", "failed", "gone"}
            \/ d \in harmed
            \/ BeyondBound(d)

\* docs/email-delivery.md: a temporary failure sets "retrying" and schedules the
\* same delivery again.  So a message for a row that waits for its retry is in
\* the queue or in a worker's hand.
RetryIsScheduled ==
    \A d \in Deliveries :
        row[d].status = "retrying" =>
            \/ \E message \in BagToSet(queue) : message.delivery = d
            \/ \E w \in Workers : InHand(w, d, SenderPhases \ {"idle"})
=============================================================================
