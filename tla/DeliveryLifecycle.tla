------------------------- MODULE DeliveryLifecycle -------------------------
(***************************************************************************)
(* What a notification delivery promises whoever reads its row: the        *)
(* transitions of notifications/delivery_state.py, the bound on attempts   *)
(* of notifications/retry.py, and nothing about queues, workers, clocks    *)
(* or crashes.  EmailDelivery implements it.                               *)
(***************************************************************************)
EXTENDS Integers

CONSTANTS
    Deliveries,     \* identifiers of notification_deliveries rows
    MaxAttempts     \* MAX_EMAIL_ATTEMPTS, a positive number

VARIABLES
    status,         \* status of each row; "absent" before, "gone" after
    attempts        \* attempt_count of each row

lifecycleVars == <<status, attempts>>

DeliveryStatuses == {"pending", "sending", "retrying", "delivered", "failed"}

LifecycleTypeOK ==
    /\ status \in [Deliveries -> DeliveryStatuses \cup {"absent", "gone"}]
    /\ attempts \in [Deliveries -> 0..MaxAttempts]

\* ALLOWED_TRANSITIONS
AllowedTransitions ==
    [pending   |-> {"sending"},
     sending   |-> {"delivered", "retrying", "failed"},
     retrying  |-> {"sending"},
     delivered |-> {},
     failed    |-> {}]

LifecycleInit ==
    /\ status = [d \in Deliveries |-> "absent"]
    /\ attempts = [d \in Deliveries |-> 0]

Create(d) ==
    /\ status[d] = "absent"
    /\ status' = [status EXCEPT ![d] = "pending"]
    /\ UNCHANGED attempts

\* Only "sending" counts an attempt, and the last attempt is not retried.
Transit(d, target) ==
    /\ status[d] \in DeliveryStatuses
    /\ target \in AllowedTransitions[status[d]]
    /\ status' = [status EXCEPT ![d] = target]
    /\ \/ /\ target = "sending"
          /\ attempts[d] < MaxAttempts
          /\ attempts' = [attempts EXCEPT ![d] = @ + 1]
       \/ /\ target # "sending"
          /\ target = "retrying" => attempts[d] < MaxAttempts
          /\ UNCHANGED attempts

Remove(d) ==
    /\ status[d] \in DeliveryStatuses
    /\ status' = [status EXCEPT ![d] = "gone"]
    /\ UNCHANGED attempts

LifecycleNext ==
    \E d \in Deliveries :
        \/ Create(d)
        \/ \E target \in DeliveryStatuses : Transit(d, target)
        \/ Remove(d)

LifecycleSpec == LifecycleInit /\ [][LifecycleNext]_lifecycleVars
=============================================================================
