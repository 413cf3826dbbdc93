---------------------------- MODULE RunLifecycle ----------------------------
(***************************************************************************)
(* What a monitor run promises, whatever the queue does with its message:  *)
(* the statuses of monitoring/worker.py in their order, completed and      *)
(* expired as one, and one claim at most.  RunDispatch implements it.      *)
(***************************************************************************)
EXTENDS Integers

CONSTANT Runs

VARIABLES status, claims

runVars == <<status, claims>>

LifecycleInit ==
    /\ status = [r \in Runs |-> "absent"]
    /\ claims = [r \in Runs |-> 0]

Move(r, from, to) ==
    /\ status[r] = from
    /\ status' = [status EXCEPT ![r] = to]

\* One transaction of the scheduler may create runs of several monitors.
Create ==
    \E created \in SUBSET {r \in Runs : status[r] = "absent"} :
        /\ created # {}
        /\ status' = [r \in Runs |-> IF r \in created THEN "queued" ELSE status[r]]
        /\ UNCHANGED claims

Claim(r) ==
    /\ Move(r, "queued", "running")
    /\ claims' = [claims EXCEPT ![r] = @ + 1]

Settle(r) ==
    /\ Move(r, "queued", "settled") \/ Move(r, "running", "settled")
    /\ UNCHANGED claims

LifecycleSpec ==
    LifecycleInit /\ [][Create \/ \E r \in Runs : Claim(r) \/ Settle(r)]_runVars
=============================================================================
