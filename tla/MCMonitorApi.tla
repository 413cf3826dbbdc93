---------------------------- MODULE MCMonitorApi ----------------------------
(***************************************************************************)
(* MonitorApi for TLC: small sets of requests, intervals and thresholds,   *)
(* and a bound on the streak counters, which nothing else limits.          *)
(***************************************************************************)
EXTENDS MonitorApi, TLC

CONSTANT MaxStreak     \* bound: the longest streak of equal results

RequestSymmetry == Permutations(Requests)

BoundedResult(success) ==
    /\ monitor.consecutive_failures < MaxStreak
    /\ monitor.consecutive_successes < MaxStreak
    /\ RecordResult(success)

BoundedNext ==
    \/ \E r \in Requests : RequestStep(r)
    \/ Tick
    \/ ScheduleDue
    \/ \E success \in BOOLEAN : BoundedResult(success)

BoundedSpec == ApiInit /\ [][BoundedNext]_apiVars
=============================================================================
