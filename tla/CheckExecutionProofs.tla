------------------------ MODULE CheckExecutionProofs ------------------------
(***************************************************************************)
(* Proofs about CheckExecution, for any number of workers, requests and    *)
(* ticks and every set of thresholds and intervals.                        *)
(***************************************************************************)
EXTENDS CheckExecution, MonitorApiProofs, SequenceTheorems

(***************************************************************************)
(* Type correctness of the rows of runs, checks and incidents and of the   *)
(* workers' memory.                                                        *)
(***************************************************************************)

LEMMA SlotsAreNumbers == Slots \subseteq Nat /\ 0 \in Slots
BY BoundsAssumption DEF Slots

LEMMA IdleWorkerIsRecord == IdleWorker \in WorkerRecords
BY SlotsAreNumbers DEF IdleWorker, WorkerRecords, WorkerPhases, Outcomes, DeliveryTypes

LEMMA NoIncidentIsRecord == NoIncident \in IncidentRecords
BY SlotsAreNumbers DEF NoIncident, IncidentRecords

\* Opening and resolving keep the table of incidents well formed.
LEMMA IncidentEditsAreTyped ==
    ASSUME incident \in [Slots -> IncidentRecords], NEW s \in Slots, NEW t \in Slots
    PROVE  /\ OpenIncident(s, t) \in [Slots -> IncidentRecords]
           /\ ResolveIncident(s, t) \in [Slots -> IncidentRecords]
<1>1. [status |-> "open", opened_at |-> t, resolved_at |-> 0,
       events |-> <<"opened">>, deliveries |-> <<"incident_opened">>]
         \in IncidentRecords
  BY SlotsAreNumbers DEF IncidentRecords, DeliveryTypes
<1>2. OpenIncident(s, t) \in [Slots -> IncidentRecords]
  BY <1>1 DEF OpenIncident
<1>3. ResolveIncident(s, t) \in [Slots -> IncidentRecords]
  <2>1. /\ Append(incident[s].events, "resolved") \in Seq({"opened", "resolved"})
        /\ Append(incident[s].deliveries, "incident_recovered") \in Seq(DeliveryTypes)
    BY DEF IncidentRecords, DeliveryTypes
  <2>2. [status |-> "resolved", opened_at |-> incident[s].opened_at,
         resolved_at |-> t,
         events |-> Append(incident[s].events, "resolved"),
         deliveries |-> Append(incident[s].deliveries, "incident_recovered")]
           \in IncidentRecords
    BY <2>1 DEF IncidentRecords
  <2>. QED BY <2>2 DEF ResolveIncident
<1>. QED BY <1>2, <1>3

LEMMA ExecTypingInductive ==
    ASSUME ApiTypeOK, ExecTypeOK, [Next]_vars
    PROVE  ExecTypeOK'
<1> USE DEF ExecTypeOK
<1>1. ASSUME NEW w \in Workers, Rest(w)
      PROVE  worker' \in [Workers -> WorkerRecords]
  BY <1>1, IdleWorkerIsRecord DEF Rest
<1>2. ASSUME NEW w \in Workers, NEW s \in Slots, NEW d \in DeliveryTypes,
             Announce(w, s, d)
      PROVE  worker' \in [Workers -> WorkerRecords]
  <2>1. [IdleWorker EXCEPT !.phase = "publishing", !.slot = s, !.delivery = d]
           \in WorkerRecords
    BY IdleWorkerIsRecord DEF WorkerRecords, WorkerPhases
  <2>. QED BY <1>2, <2>1 DEF Announce
<1>3. ASSUME NEW w \in Workers, NEW slot \in Slots, ClaimRun(w, slot)
      PROVE  ExecTypeOK'
  <2>1. [IdleWorker EXCEPT !.phase = "claimed", !.slot = slot] \in WorkerRecords
    BY IdleWorkerIsRecord DEF WorkerRecords, WorkerPhases
  <2>2. attempts[slot] + 1 \in Nat
    OBVIOUS
  <2>. QED BY <1>3, <2>1, <2>2 DEF ClaimRun, RunStatuses
<1>4. ASSUME NEW w \in Workers, LoadRequest(w) PROVE ExecTypeOK'
  <2>1. worker[w].slot \in Slots
    BY DEF WorkerRecords
  <2>2. worker' = [worker EXCEPT ![w].phase = "requesting"]
           => worker' \in [Workers -> WorkerRecords]
    <3>1. [worker[w] EXCEPT !.phase = "requesting"] \in WorkerRecords
      BY DEF WorkerRecords, WorkerPhases
    <3>. QED BY <3>1
  <2>. QED BY <1>1, <1>4, <2>1, <2>2 DEF LoadRequest, RunStatuses
<1>5. ASSUME NEW w \in Workers, NEW outcome \in Outcomes,
             ReceiveAnswer(w, outcome)
      PROVE  ExecTypeOK'
  <2>1. now \in Slots
    BY DEF ApiTypeOK, Slots
  <2>2. [worker[w] EXCEPT !.phase = "answered", !.outcome = outcome,
                          !.completed_at = now] \in WorkerRecords
    BY <2>1 DEF WorkerRecords, WorkerPhases, Outcomes
  <2>3. worker' \in [Workers -> WorkerRecords]
    BY <1>5, <2>2 DEF ReceiveAnswer
  <2>. QED BY <1>5, <2>3 DEF ReceiveAnswer, rowVars
<1>6. ASSUME NEW w \in Workers, CompleteRun(w) PROVE ExecTypeOK'
  <2>1. /\ worker[w].slot \in Slots
        /\ worker[w].completed_at \in Slots
        /\ worker[w].outcome \in Outcomes
    BY DEF WorkerRecords
  <2>2. /\ incident' \in [Slots -> IncidentRecords]
        /\ worker' \in [Workers -> WorkerRecords]
    BY <1>1, <1>2, <1>6, <2>1, IncidentEditsAreTyped
       DEF CompleteRun, RecordTransition, Open, DeliveryTypes
  <2>3. /\ run' \in [Slots -> RunStatuses]
        /\ check' \in [Slots -> Outcomes \cup {"none"}]
        /\ lastChecked' \in Slots \cup {NULL}
        /\ UNCHANGED <<attempts, published>>
    BY <1>6, <2>1 DEF CompleteRun, CheckedAt, RunStatuses
  <2>4. history' \in Seq(Outcomes)
    BY <1>6, <2>1 DEF CompleteRun
  <2>. QED BY <2>2, <2>3, <2>4
<1>7. ASSUME NEW w \in Workers,
             SkipCompletion(w) \/ RejectCompletion(w) \/ WorkerStops(w)
      PROVE  ExecTypeOK'
  BY <1>1, <1>7 DEF SkipCompletion, RejectCompletion, WorkerStops, rowVars
<1>8. ASSUME NEW w \in Workers, PublishDelivery(w) PROVE ExecTypeOK'
  <2>1. <<worker[w].slot, worker[w].delivery>> \in Slots \X DeliveryTypes
    BY DEF WorkerRecords
  <2>. QED BY <1>1, <1>8, <2>1 DEF PublishDelivery, rowVars
<1>9. ASSUME NEW r \in Requests, ServeRequest(r) PROVE ExecTypeOK'
  <2>1. CASE UNCHANGED execVars
    BY <2>1 DEF execVars, rowVars
  <2>2. CASE ~UNCHANGED execVars
    <3>1. /\ run' \in [Slots -> RunStatuses]
          /\ attempts' \in [Slots -> Nat]
          /\ check' \in [Slots -> Outcomes \cup {"none"}]
          /\ incident' \in [Slots -> IncidentRecords]
          /\ lastChecked' \in Slots \cup {NULL}
          /\ UNCHANGED <<worker, published>>
      BY <1>9, <2>2, NoIncidentIsRecord DEF ServeRequest, RunStatuses, Outcomes
    <3>2. history' = <<>> /\ <<>> \in Seq(Outcomes)
      BY <1>9, <2>2 DEF ServeRequest
    <3>. QED BY <3>1, <3>2
  <2>. QED BY <2>1, <2>2
<1>10. CASE Advance
  BY <1>10 DEF Advance, execVars, rowVars
<1>11. CASE ScheduleRun
  <2>1. monitor.next_check_at \in Slots
    <3>1. monitor.next_check_at \in Nat /\ monitor.next_check_at <= now
      BY <1>11 DEF ScheduleRun, ScheduleDue, SchedulerEligible, ApiTypeOK, Rows
    <3>2. now \in 0..MaxTime /\ MaxTime \in Nat
      BY BoundsAssumption DEF ApiTypeOK
    <3>3. \A t \in Nat : t <= now => t \in 0..MaxTime
      BY <3>2
    <3>. QED BY <3>1, <3>3 DEF Slots
  <2>2. [run EXCEPT ![monitor.next_check_at] = "queued"] \in [Slots -> RunStatuses]
    BY DEF RunStatuses
  <2>. QED BY <1>11, <2>2 DEF ScheduleRun
<1>12. CASE UNCHANGED vars
  BY <1>12 DEF vars, execVars, rowVars
<1>. QED
  BY <1>3, <1>4, <1>5, <1>6, <1>7, <1>8, <1>9, <1>10, <1>11, <1>12
     DEF Next, Reliable, WorkerStep

(***************************************************************************)
(* The step of CheckExecution that changes the row of the monitor is a     *)
(* step of MonitorApi.                                                     *)
(***************************************************************************)

\* What a transition says of the status before and after the result.
LEMMA TransitionStatus ==
    ASSUME NEW row \in Rows, NEW success \in BOOLEAN
    PROVE  /\ Transition(row, success)
                  \in {"none", "incident_opened", "incident_recovery_ready"}
           /\ Transition(row, success) = "incident_recovery_ready"
                => success /\ row.status = "down"
           /\ Transition(row, success) = "incident_opened"
                => ~success /\ row.status \in {"unknown", "up"}
           /\ Transition(row, success) # "incident_opened"
                => (ResultApplied(row, success).status = "down" => row.status = "down")
           /\ Recovered(ResultApplied(row, success)).status = "up"
<1>1. /\ CountSuccess(row).status = IF row.status = "unknown" THEN "up" ELSE row.status
      /\ CountFailure(row).status = row.status
  BY DEF CountSuccess, CountFailure, Rows
<1>2. Recovered(ResultApplied(row, success)).status = "up"
  BY ResultIsRow DEF Recovered, Rows
<1>3. /\ Transition(row, success)
            \in {"none", "incident_opened", "incident_recovery_ready"}
      /\ Transition(row, success) = "incident_recovery_ready"
            => success /\ RecoveryReady(CountSuccess(row))
      /\ Transition(row, success) = "incident_opened"
            => ~success /\ FailureThresholdMet(CountFailure(row))
  BY DEF Transition
<1>4. Transition(row, success) # "incident_opened"
         => ResultApplied(row, success) \in {CountSuccess(row), CountFailure(row)}
  BY DEF Transition, ResultApplied
<1>. QED BY <1>1, <1>2, <1>3, <1>4 DEF RecoveryReady, FailureThresholdMet

LEMMA StepImplementsApi ==
    ASSUME ApiTypeOK, ExecTypeOK, RowsFollowMonitor, DownHasIncident, [Next]_vars
    PROVE  [ApiNext]_apiVars
<1>1. ASSUME NEW w \in Workers, CompleteRun(w)
      PROVE  \E success \in BOOLEAN : RecordResult(success)
  <2> DEFINE success == worker[w].outcome = "success"
  <2>1. presence = "stored"
    BY <1>1 DEF CompleteRun, RowsFollowMonitor, ExecTypeOK, WorkerRecords
  <2>2. Transition(monitor, success) = "incident_recovery_ready" => Open # {}
    BY <2>1, TransitionStatus DEF DownHasIncident, ApiTypeOK
  <2>3. monitor' = IF Transition(monitor, success) = "incident_recovery_ready"
                   THEN Recovered(ResultApplied(monitor, success))
                   ELSE ResultApplied(monitor, success)
    BY <1>1, <2>2 DEF CompleteRun, RecordTransition
  <2>4. UNCHANGED <<now, presence, request>>
    BY <1>1 DEF CompleteRun
  <2>. QED BY <2>1, <2>3, <2>4 DEF RecordResult
<1>2. ASSUME NEW w \in Workers, WorkerStep(w) \/ WorkerStops(w), ~CompleteRun(w)
      PROVE  UNCHANGED apiVars
  BY <1>2 DEF WorkerStep, WorkerStops, ClaimRun, LoadRequest, ReceiveAnswer,
              SkipCompletion, RejectCompletion, PublishDelivery
<1>3. ASSUME NEW r \in Requests, ServeRequest(r) PROVE RequestStep(r)
  BY <1>3 DEF ServeRequest
<1>4. /\ Advance => Tick
      /\ ScheduleRun => ScheduleDue
      /\ UNCHANGED vars => UNCHANGED apiVars
  BY DEF Advance, ScheduleRun, vars
<1>. QED BY <1>1, <1>2, <1>3, <1>4 DEF Next, Reliable, ApiNext

(***************************************************************************)
(* The inductive invariant of runs, checks and incidents.                  *)
(***************************************************************************)

\* What a request does to the rows of the other tables.
LEMMA RequestEffects ==
    ASSUME ApiTypeOK, EditsInv, NEW r \in Requests, ServeRequest(r)
    PROVE  /\ UNCHANGED worker
           /\ presence # "absent" => presence' # "absent"
           /\ presence = "deleted" => presence' = "deleted"
           /\ \/ /\ presence' # "stored"
                 /\ presence = "stored"
                 /\ run' = [s \in Slots |-> "absent"]
                 /\ attempts' = [s \in Slots |-> 0]
                 /\ check' = [s \in Slots |-> "none"]
                 /\ incident' = [s \in Slots |-> NoIncident]
              \/ /\ UNCHANGED <<run, attempts, check, incident>>
                 /\ presence = "stored" => presence' = "stored"
                 /\ (presence' = "stored" /\ monitor'.status = "down")
                      => (presence = "stored" /\ monitor.status = "down")
<1> USE DEF ApiTypeOK
<1>1. \/ UNCHANGED presence
      \/ /\ presence = "absent"
         /\ presence' = "stored"
         /\ monitor'.status = "unknown"
      \/ presence' = "deleted" /\ CommitDelete(r)
  <2>1. ASSUME NEW payload \in Payloads, CreateMonitor(r, payload)
        PROVE  \/ UNCHANGED presence
               \/ /\ presence = "absent"
                  /\ presence' = "stored"
                  /\ monitor'.status = "unknown"
    BY <2>1 DEF CreateMonitor, Created
  <2>2. CASE CommitDelete(r)
    BY <2>2 DEF CommitDelete
  <2>3. CASE ~CommitDelete(r) /\ ~ \E payload \in Payloads : CreateMonitor(r, payload)
    BY <2>3 DEF ServeRequest, RequestStep, NotFound, BeginPause, BeginResume,
                BeginDelete, BeginUpdate, ValidateDestination, CommitEdit, CommitFails
  <2>. QED BY <2>1, <2>2, <2>3
<1>2. presence = "stored" => monitor'.status \in {monitor.status, "paused", "unknown"}
  BY RequestStepSparesResults DEF ServeRequest
<1>. QED
  BY <1>1, <1>2 DEF ServeRequest, execVars, rowVars

\* A step after which every run in hand was in the same hand before, and is
\* as it was, keeps the invariants about hands.
LEMMA HandsKept ==
    ASSUME RunInHand, ExclusiveRun, UNCHANGED presence,
           \A v \in Workers : InHand(v)' =>
               /\ InHand(v)
               /\ worker'[v].slot = worker[v].slot
               /\ run'[worker[v].slot] = run[worker[v].slot]
    PROVE  RunInHand' /\ ExclusiveRun'
<1>1. ExclusiveRun'
  BY DEF ExclusiveRun
<1>2. ASSUME NEW v \in Workers, InHand(v)'
      PROVE  /\ presence' # "absent"
             /\ presence' = "stored" => run'[worker'[v].slot] = "running"
  BY <1>2 DEF RunInHand
<1>. QED BY <1>1, <1>2 DEF RunInHand

\* Claiming, loading and requesting: one run and one worker change.
LEMMA BeforeCompletion ==
    ASSUME ApiTypeOK, ExecTypeOK, ExecInv, NEW w \in Workers,
           \/ \E slot \in Slots : ClaimRun(w, slot)
           \/ LoadRequest(w)
           \/ \E outcome \in Outcomes : ReceiveAnswer(w, outcome)
    PROVE  ExecInv'
<1> USE DEF ApiTypeOK, ExecTypeOK
<1>0. /\ UNCHANGED <<presence, monitor, check, incident>>
      /\ Open' = Open
  BY DEF ClaimRun, LoadRequest, ReceiveAnswer, apiVars, rowVars, Open
<1>1. ASSUME NEW slot \in Slots, ClaimRun(w, slot)
      PROVE  RowsFollowMonitor' /\ RunInHand' /\ OneCheckPerRun' /\ ExclusiveRun'
  <2>1. presence = "stored" /\ run[slot] = "queued" /\ attempts[slot] = 0
    BY <1>1 DEF ClaimRun, Claimable, ExecInv, RowsFollowMonitor, OneCheckPerRun
  <2>2. \A v \in Workers : InHand(v) => worker[v].slot # slot
    BY <2>1 DEF ExecInv, RunInHand
  <2>3. CASE ~CanExecuteRequest(monitor)
    <3>1. run' = [run EXCEPT ![slot] = "expired"] /\ UNCHANGED <<attempts, worker>>
      BY <1>1, <2>3 DEF ClaimRun
    <3>. QED
      BY <1>0, <2>1, <2>2, <3>1
         DEF ExecInv, RowsFollowMonitor, RunInHand, OneCheckPerRun, ExclusiveRun,
             InHand, WorkerRecords
  <2>4. CASE CanExecuteRequest(monitor)
    <3>1. /\ run' = [run EXCEPT ![slot] = "running"]
          /\ attempts'[slot] = 1
          /\ \A s \in Slots \ {slot} : attempts'[s] = attempts[s]
          /\ worker'[w].slot = slot
          /\ \A v \in Workers \ {w} : worker'[v] = worker[v]
      <4>1. /\ run' = [run EXCEPT ![slot] = "running"]
            /\ attempts' = [attempts EXCEPT ![slot] = @ + 1]
            /\ worker' = [worker EXCEPT ![w] =
                   [IdleWorker EXCEPT !.phase = "claimed", !.slot = slot]]
        BY <1>1, <2>4 DEF ClaimRun
      <4>2. [IdleWorker EXCEPT !.phase = "claimed", !.slot = slot].slot = slot
        BY DEF IdleWorker
      <4>3. worker'[w].slot = slot /\ \A v \in Workers \ {w} : worker'[v] = worker[v]
        BY <4>1, <4>2
      <4>4. attempts'[slot] = 0 + 1 /\ \A s \in Slots \ {slot} : attempts'[s] = attempts[s]
        BY <2>1, <4>1
      <4>. QED BY <4>1, <4>3, <4>4
    <3>2. OneCheckPerRun'
      BY <1>0, <2>1, <3>1 DEF ExecInv, OneCheckPerRun
    <3>3. \A v \in Workers \ {w} : InHand(v)' =>
              /\ InHand(v)
              /\ worker'[v].slot = worker[v].slot
              /\ worker[v].slot # slot
              /\ run'[worker[v].slot] = run[worker[v].slot]
      BY <2>2, <3>1 DEF InHand, WorkerRecords
    <3>4. RunInHand'
      <4>1. ASSUME NEW v \in Workers \ {w}, InHand(v)'
            PROVE  /\ presence' # "absent"
                   /\ presence' = "stored" => run'[worker'[v].slot] = "running"
        BY <1>0, <3>3, <4>1 DEF ExecInv, RunInHand
      <4>2. /\ presence' # "absent"
            /\ run'[worker'[w].slot] = "running"
        BY <1>0, <2>1, <3>1
      <4>. QED BY <4>1, <4>2 DEF RunInHand
    <3>6. ExclusiveRun'
      <4>1. SUFFICES ASSUME NEW u \in Workers, NEW v \in Workers, u # v,
                            InHand(u)', InHand(v)'
                     PROVE  worker'[u].slot # worker'[v].slot
        BY DEF ExclusiveRun
      <4>2. CASE u = w \/ v = w
        BY <3>1, <3>3, <4>1, <4>2
      <4>3. CASE u # w /\ v # w
        BY <3>3, <4>1, <4>3 DEF ExecInv, ExclusiveRun
      <4>. QED BY <4>2, <4>3
    <3>5. RowsFollowMonitor'
      BY <1>0, <2>1 DEF RowsFollowMonitor
    <3>. QED BY <3>2, <3>4, <3>5, <3>6
  <2>. QED BY <2>3, <2>4
<1>2. CASE LoadRequest(w)
  <2>1. worker[w].slot \in Slots /\ InHand(w)
    BY <1>2 DEF LoadRequest, InHand, WorkerRecords
  <2>2. /\ UNCHANGED attempts
        /\ \A v \in Workers \ {w} : worker'[v] = worker[v]
        /\ InHand(w)' => worker'[w].slot = worker[w].slot /\ UNCHANGED run
        /\ \/ UNCHANGED run
           \/ /\ run[worker[w].slot] = "running"
              /\ run' = [run EXCEPT ![worker[w].slot] = "expired"]
    BY <1>2 DEF LoadRequest, Rest, InHand, IdleWorker, WorkerRecords
  <2>3. \A v \in Workers \ {w} :
            InHand(v) => worker[v].slot # worker[w].slot
    BY <2>1 DEF ExecInv, ExclusiveRun
  <2>4. OneCheckPerRun' /\ RowsFollowMonitor'
    BY <1>0, <2>1, <2>2 DEF ExecInv, OneCheckPerRun, RowsFollowMonitor
  <2>5. RunInHand' /\ ExclusiveRun'
    <3>1. \A v \in Workers : InHand(v)' =>
              /\ InHand(v)
              /\ worker'[v].slot = worker[v].slot
              /\ run'[worker[v].slot] = run[worker[v].slot]
      <4>1. ASSUME NEW v \in Workers \ {w}, InHand(v)'
            PROVE  /\ InHand(v)
                   /\ worker'[v].slot = worker[v].slot
                   /\ worker[v].slot # worker[w].slot
        BY <2>2, <2>3, <4>1 DEF InHand
      <4>2. \A v \in Workers \ {w} : InHand(v)' =>
                run'[worker[v].slot] = run[worker[v].slot]
        BY <2>1, <2>2, <4>1 DEF WorkerRecords
      <4>. QED BY <2>1, <2>2, <4>1, <4>2
    <3>. QED BY <1>0, <3>1, HandsKept DEF ExecInv
  <2>. QED BY <1>0, <2>4, <2>5 DEF ExecInv, OneActiveIncident, DownHasIncident
<1>3. ASSUME NEW outcome \in Outcomes, ReceiveAnswer(w, outcome)
      PROVE  ExecInv'
  <2>1. /\ InHand(w)
        /\ worker'[w].slot = worker[w].slot
        /\ \A v \in Workers \ {w} : worker'[v] = worker[v]
        /\ UNCHANGED <<run, attempts>>
    <3>1. InHand(w) /\ UNCHANGED <<run, attempts>>
      BY <1>3 DEF ReceiveAnswer, InHand, rowVars
    <3>2. worker[w] \in WorkerRecords
      OBVIOUS
    <3>3. [worker[w] EXCEPT !.phase = "answered", !.outcome = outcome,
                            !.completed_at = now].slot = worker[w].slot
      BY <3>2 DEF WorkerRecords
    <3>. QED BY <1>3, <3>1, <3>3 DEF ReceiveAnswer
  <2>2. RunInHand' /\ ExclusiveRun'
    <3>1. \A v \in Workers : InHand(v)' =>
              /\ InHand(v)
              /\ worker'[v].slot = worker[v].slot
              /\ run'[worker[v].slot] = run[worker[v].slot]
      BY <2>1 DEF InHand
    <3>. QED BY <1>0, <3>1, HandsKept DEF ExecInv
  <2>3. OneCheckPerRun' /\ RowsFollowMonitor'
    BY <1>0, <2>1 DEF ExecInv, OneCheckPerRun, RowsFollowMonitor
  <2>. QED BY <1>0, <2>2, <2>3 DEF ExecInv, OneActiveIncident, DownHasIncident
<1>4. OneActiveIncident' /\ DownHasIncident'
  BY <1>0 DEF ExecInv, OneActiveIncident, DownHasIncident
<1>. QED BY <1>1, <1>2, <1>3, <1>4 DEF ExecInv

\* A worker that gives its run up keeps every invariant.
LEMMA GivingUp ==
    ASSUME ExecTypeOK, ExecInv, NEW w \in Workers,
           \/ SkipCompletion(w)
           \/ RejectCompletion(w)
           \/ PublishDelivery(w)
           \/ WorkerStops(w)
    PROVE  ExecInv'
<1>1. UNCHANGED <<presence, monitor, run, attempts, check, incident>>
  BY DEF SkipCompletion, RejectCompletion, PublishDelivery, WorkerStops, apiVars, rowVars
<1>2. Rest(w)
  BY DEF SkipCompletion, RejectCompletion, PublishDelivery, WorkerStops
<1>3. \A v \in Workers : InHand(v)' => InHand(v) /\ worker'[v] = worker[v]
  BY <1>2 DEF Rest, InHand, IdleWorker, ExecTypeOK
<1>4. RunInHand' /\ ExclusiveRun'
  BY <1>1, <1>3, HandsKept DEF ExecInv
<1>. QED
  BY <1>1, <1>4 DEF ExecInv, RowsFollowMonitor, OneCheckPerRun, OneActiveIncident,
                    DownHasIncident, Open

\* What _complete_run makes of the table of incidents.
LEMMA IncidentsAfterCompletion ==
    ASSUME ApiTypeOK, ExecTypeOK, OneActiveIncident, DownHasIncident,
           presence = "stored", NEW w \in Workers, CompleteRun(w)
    PROVE  /\ \A i, j \in Open' : i = j
           /\ monitor'.status = "down" => Open' # {}
<1> DEFINE slot == worker[w].slot
           at == worker[w].completed_at
           success == worker[w].outcome = "success"
<1> USE DEF ApiTypeOK, ExecTypeOK
<1>1. slot \in Slots
  BY DEF WorkerRecords
<1>2. RecordTransition(w, slot, success, at)
  BY DEF CompleteRun
<1>3. CASE UNCHANGED incident
  <2>1. Open' = Open
    BY <1>3 DEF Open
  <2>2. monitor'.status = "down" => monitor.status = "down" \/ Open # {}
    <3>1. CASE Transition(monitor, success) = "incident_opened"
      <4>1. incident' = OpenIncident(slot, at)
        BY <1>2, <3>1 DEF RecordTransition
      <4>2. incident[slot].status # "open" => incident'[slot] # incident[slot] \/ Open # {}
        BY <1>1, <4>1 DEF OpenIncident
      <4>. QED BY <1>1, <1>3, <4>2 DEF Open
    <3>2. CASE Transition(monitor, success) # "incident_opened"
      <4>1. monitor' \in {ResultApplied(monitor, success),
                          Recovered(ResultApplied(monitor, success))}
        BY <1>2, <3>2 DEF RecordTransition
      <4>. QED BY <3>2, <4>1, TransitionStatus
    <3>. QED BY <3>1, <3>2
  <2>. QED BY <2>1, <2>2 DEF OneActiveIncident, DownHasIncident
<1>4. CASE incident' # incident /\ Transition(monitor, success) = "incident_opened"
  <2>1. Open = {} /\ incident' = OpenIncident(slot, at)
    BY <1>2, <1>4 DEF RecordTransition, OpenIncident
  <2>2. /\ incident'[slot].status = "open"
        /\ \A s \in Slots \ {slot} : incident'[s] = incident[s]
    BY <1>1, <2>1 DEF OpenIncident
  <2>3. Open' = {slot}
    BY <1>1, <2>1, <2>2 DEF Open
  <2>. QED BY <2>3
<1>5. CASE incident' # incident /\ Transition(monitor, success) # "incident_opened"
  <2>1. PICK i \in Open : incident' = ResolveIncident(i, at)
    BY <1>2, <1>5 DEF RecordTransition
  <2>2. monitor' = Recovered(ResultApplied(monitor, success))
    BY <1>2, <1>5 DEF RecordTransition
  <2>3. monitor'.status = "up"
    BY <2>2, TransitionStatus
  <2>4. Open' \subseteq Open
    BY <2>1 DEF Open, ResolveIncident
  <2>. QED BY <2>3, <2>4 DEF OneActiveIncident
<1>. QED BY <1>3, <1>4, <1>5

LEMMA Completion ==
    ASSUME ApiTypeOK, ExecTypeOK, ExecInv, NEW w \in Workers, CompleteRun(w)
    PROVE  ExecInv'
<1> USE DEF ExecTypeOK
<1>1. worker[w].slot \in Slots /\ worker[w].outcome \in {"success", "failure"}
  BY DEF WorkerRecords, Outcomes
<1>2. presence = "stored" /\ presence' = "stored"
  BY <1>1 DEF CompleteRun, ExecInv, RowsFollowMonitor
<1>3. OneActiveIncident' /\ DownHasIncident' /\ RowsFollowMonitor'
  BY <1>2, IncidentsAfterCompletion
     DEF ExecInv, OneActiveIncident, DownHasIncident, RowsFollowMonitor
<1>4. /\ run' = [run EXCEPT ![worker[w].slot] = "completed"]
      /\ check' = [check EXCEPT ![worker[w].slot] = worker[w].outcome]
      /\ UNCHANGED attempts
      /\ InHand(w)
  BY DEF CompleteRun, InHand
<1>5. RunInHand' /\ ExclusiveRun'
  <2>1. ~InHand(w)' /\ \A v \in Workers \ {w} : worker'[v] = worker[v]
    <3>1. CASE Rest(w)
      BY <3>1 DEF Rest, IdleWorker, InHand
    <3>2. ASSUME NEW s, NEW d, Announce(w, s, d)
          PROVE  ~InHand(w)' /\ \A v \in Workers \ {w} : worker'[v] = worker[v]
      <4>1. [IdleWorker EXCEPT !.phase = "publishing", !.slot = s,
                               !.delivery = d].phase = "publishing"
        BY DEF IdleWorker
      <4>. QED BY <3>2, <4>1 DEF Announce, InHand
    <3>. QED BY <3>1, <3>2 DEF CompleteRun, RecordTransition
  <2>2. \A v \in Workers : InHand(v)' =>
            InHand(v) /\ v # w /\ worker'[v].slot = worker[v].slot
    BY <2>1 DEF InHand
  <2>3. \A v \in Workers : InHand(v)' => worker[v].slot # worker[w].slot
    BY <1>4, <2>2 DEF ExecInv, ExclusiveRun
  <2>4. \A v \in Workers : InHand(v)' =>
            run'[worker[v].slot] = run[worker[v].slot]
    BY <1>4, <2>3 DEF WorkerRecords
  <2>. QED BY <1>2, <2>2, <2>4, HandsKept DEF ExecInv
<1>6. OneCheckPerRun'
  BY <1>1, <1>4 DEF ExecInv, OneCheckPerRun, CompleteRun
<1>. QED BY <1>3, <1>5, <1>6 DEF ExecInv

LEMMA ExecInvInductive ==
    ASSUME ApiTypeOK, ExecTypeOK, EditsInv, ExecInv, [Next]_vars
    PROVE  ExecInv'
<1>1. ASSUME NEW w \in Workers, WorkerStep(w) \/ WorkerStops(w)
      PROVE  ExecInv'
  BY <1>1, BeforeCompletion, Completion, GivingUp DEF WorkerStep
<1>2. ASSUME NEW r \in Requests, ServeRequest(r) PROVE ExecInv'
  <2>1. CASE /\ presence' # "stored"
             /\ presence = "stored"
             /\ run' = [s \in Slots |-> "absent"]
             /\ attempts' = [s \in Slots |-> 0]
             /\ check' = [s \in Slots |-> "none"]
             /\ incident' = [s \in Slots |-> NoIncident]
    <3>1. RowsFollowMonitor' /\ OneCheckPerRun' /\ OneActiveIncident' /\ DownHasIncident'
      BY <2>1 DEF RowsFollowMonitor, OneCheckPerRun, OneActiveIncident,
                  DownHasIncident, Open, NoIncident
    <3>2. RunInHand' /\ ExclusiveRun'
      BY <1>2, <2>1, RequestEffects DEF ExecInv, RunInHand, ExclusiveRun, InHand
    <3>. QED BY <3>1, <3>2 DEF ExecInv
  <2>2. CASE /\ UNCHANGED <<run, attempts, check, incident>>
             /\ presence = "stored" => presence' = "stored"
             /\ (presence' = "stored" /\ monitor'.status = "down")
                    => (presence = "stored" /\ monitor.status = "down")
    <3>1. /\ UNCHANGED worker
          /\ presence # "absent" => presence' # "absent"
          /\ presence = "deleted" => presence' = "deleted"
          /\ presence \in {"absent", "stored", "deleted"}
      BY <1>2, RequestEffects DEF ApiTypeOK
    <3>2. /\ RowsFollowMonitor' /\ OneCheckPerRun'
          /\ OneActiveIncident' /\ DownHasIncident'
      BY <2>2, <3>1 DEF ExecInv, RowsFollowMonitor, OneCheckPerRun,
                        OneActiveIncident, DownHasIncident, Open
    <3>3. RunInHand' /\ ExclusiveRun'
      BY <2>2, <3>1 DEF ExecInv, RunInHand, ExclusiveRun, InHand
    <3>. QED BY <3>2, <3>3 DEF ExecInv
  <2>. QED BY <1>2, <2>1, <2>2, RequestEffects
<1>3. CASE ScheduleRun
  <2>1. /\ presence = "stored" /\ presence' = "stored"
        /\ monitor'.status = monitor.status
        /\ UNCHANGED <<attempts, check, incident, worker>>
    BY <1>3 DEF ScheduleRun, ScheduleDue, Rescheduled, ApiTypeOK, Rows
  <2>2. \A s \in Slots : run'[s] = run[s] \/ (run[s] = "absent" /\ run'[s] = "queued")
    BY <1>3 DEF ScheduleRun, ExecTypeOK
  <2>3. \A v \in Workers : InHand(v)' =>
            InHand(v) /\ worker'[v].slot = worker[v].slot
    BY <2>1 DEF InHand
  <2>4. \A v \in Workers : InHand(v)' =>
            run'[worker[v].slot] = run[worker[v].slot]
    BY <2>1, <2>2, <2>3 DEF ExecInv, RunInHand, ExecTypeOK, WorkerRecords
  <2>5. RunInHand' /\ ExclusiveRun'
    BY <2>1, <2>3, <2>4, HandsKept DEF ExecInv
  <2>6. OneCheckPerRun' /\ RowsFollowMonitor'
    BY <2>1, <2>2 DEF ExecInv, OneCheckPerRun, RowsFollowMonitor
  <2>. QED
    BY <2>1, <2>5, <2>6 DEF ExecInv, OneActiveIncident, DownHasIncident, Open
<1>4. CASE Advance \/ UNCHANGED vars
  BY <1>4 DEF Advance, Tick, vars, apiVars, execVars, rowVars, ExecInv,
              RowsFollowMonitor, RunInHand, InHand, OneCheckPerRun, ExclusiveRun,
              OneActiveIncident, DownHasIncident, Open
<1>. QED BY <1>1, <1>2, <1>3, <1>4 DEF Next, Reliable

(***************************************************************************)
(* The theorems.                                                           *)
(***************************************************************************)

\* Types, the requests' edits and ExecInv together: none of the three is
\* inductive alone, since the steps of the requests need the typed rows and
\* the edits, and the steps of the workers need ExecInv to be steps of
\* MonitorApi at all.
ExecIInv == ApiTypeOK /\ ExecTypeOK /\ EditsInv /\ ExecInv

LEMMA ExecInitially == Init => ExecIInv
<1>1. Init => ApiTypeOK /\ EditsInv
  BY InitialRowIsRow, IdleIsRecord, BoundsAssumption
     DEF Init, ApiInit, ApiTypeOK, Replies, EditsInv, Idle
<1>2. Init => ExecTypeOK
  <2>1. <<>> \in Seq(Outcomes)
    OBVIOUS
  <2>. QED
    BY <2>1, IdleWorkerIsRecord, NoIncidentIsRecord
       DEF Init, ExecInit, ExecTypeOK, RunStatuses
<1>3. Init => ExecInv
  BY DEF Init, ApiInit, ExecInit, ExecInv, RowsFollowMonitor, RunInHand, InHand,
         OneCheckPerRun, ExclusiveRun, OneActiveIncident, DownHasIncident, Open,
         NoIncident, IdleWorker
<1>. QED BY <1>1, <1>2, <1>3 DEF ExecIInv

LEMMA ExecIInvInductive == ExecIInv /\ [Next]_vars => ExecIInv'
<1> SUFFICES ASSUME ExecIInv, [Next]_vars PROVE ExecIInv'
  OBVIOUS
<1> USE DEF ExecIInv
<1>1. [ApiNext]_apiVars
  BY StepImplementsApi DEF ExecInv
<1>2. ApiTypeOK' /\ EditsInv'
  BY <1>1, ApiTypingInductive, EditsInvInductive
<1>3. ExecTypeOK' /\ ExecInv'
  BY ExecTypingInductive, ExecInvInductive
<1>. QED BY <1>2, <1>3

LEMMA ExecInvariant == Spec => []ExecIInv
BY ExecInitially, ExecIInvInductive, PTL DEF Spec

\* The rows of runs, checks and incidents and the memory of the workers are
\* well formed in every state.
THEOREM ExecTyping == Spec => []ExecTypeOK
<1>1. ExecIInv => ExecTypeOK
  BY DEF ExecIInv
<1>. QED BY <1>1, ExecInvariant, PTL

\* Scheduler, workers and requests together change the monitor's row as
\* MonitorApi says, so that what holds of MonitorApi holds of them.
THEOREM ImplementsApi == Spec => ApiSpec
<1>1. Init => ApiInit
  BY DEF Init
<1>2. ExecIInv /\ [Next]_vars => [ApiNext]_apiVars
  BY StepImplementsApi DEF ExecIInv, ExecInv
<1>. QED BY <1>1, <1>2, ExecInvariant, PTL DEF Spec, ApiSpec

\* With the real scheduler and workers, too, a monitor is paused exactly
\* while it is disabled.
THEOREM ExecPausedIffDisabled == Spec => []PausedIffDisabled
BY ImplementsApi, PausedIffDisabledHolds, PTL

\* However many workers complete runs, a monitor has one active incident.
THEOREM OneActiveIncidentHolds == Spec => []OneActiveIncident
<1>1. ExecIInv => OneActiveIncident
  BY DEF ExecIInv, ExecInv
<1>. QED BY <1>1, ExecInvariant, PTL

\* A monitor that is down has an active incident.
THEOREM DownHasIncidentHolds == Spec => []DownHasIncident
<1>1. ExecIInv => DownHasIncident
  BY DEF ExecIInv, ExecInv
<1>. QED BY <1>1, ExecInvariant, PTL

\* A run is claimed and checked at most once, however often it is delivered.
THEOREM OneCheckPerRunHolds == Spec => []OneCheckPerRun
<1>1. ExecIInv => OneCheckPerRun
  BY DEF ExecIInv, ExecInv
<1>. QED BY <1>1, ExecInvariant, PTL

\* No two workers ever have the same run in hand.
THEOREM ExclusiveRunHolds == Spec => []ExclusiveRun
<1>1. ExecIInv => ExclusiveRun
  BY DEF ExecIInv, ExecInv
<1>. QED BY <1>1, ExecInvariant, PTL

\* Nothing opens or resolves an incident of a paused monitor.
THEOREM PausedIncidentsFrozenHolds == Spec => PausedIncidentsFrozen
<1>1. ASSUME ExecIInv, [Next]_vars, monitor.status = "paused", presence' = "stored"
      PROVE  UNCHANGED incident
  <2>1. ASSUME NEW w \in Workers, CompleteRun(w) PROVE UNCHANGED incident
    <3>1. Transition(monitor, worker[w].outcome = "success") = "none"
      BY <1>1, TransitionStatus DEF ExecIInv, ApiTypeOK
    <3>. QED BY <2>1, <3>1 DEF CompleteRun, RecordTransition
  <2>2. ASSUME NEW w \in Workers, WorkerStep(w) \/ WorkerStops(w), ~CompleteRun(w)
        PROVE  UNCHANGED incident
    BY <2>2 DEF WorkerStep, WorkerStops, ClaimRun, LoadRequest, ReceiveAnswer,
                SkipCompletion, RejectCompletion, PublishDelivery, rowVars
  <2>3. ASSUME NEW r \in Requests, ServeRequest(r) PROVE UNCHANGED incident
    BY <1>1, <2>3 DEF ServeRequest, execVars, rowVars
  <2>4. CASE Advance \/ ScheduleRun \/ UNCHANGED vars
    BY <2>4 DEF Advance, ScheduleRun, vars, execVars, rowVars
  <2>. QED BY <1>1, <2>1, <2>2, <2>3, <2>4 DEF Next, Reliable
<1>2. ExecIInv /\ [Next]_vars
         => [(monitor.status = "paused" /\ presence' = "stored") => UNCHANGED incident]_vars
  BY <1>1
<1>. QED BY <1>2, ExecInvariant, PTL DEF Spec, PausedIncidentsFrozen

\* A monitor that comes up from down leaves no incident active.
THEOREM RecoveryClosesIncidentHolds == Spec => RecoveryClosesIncident
<1>1. ASSUME ExecIInv, [Next]_vars,
             presence = "stored", monitor.status = "down", monitor'.status = "up"
      PROVE  Open' = {}
  <2> USE DEF ExecIInv, ApiTypeOK
  <2>1. ASSUME NEW w \in Workers, CompleteRun(w) PROVE Open' = {}
    <3> DEFINE success == worker[w].outcome = "success"
    <3>1. Transition(monitor, success) = "incident_recovery_ready"
      <4>1. /\ CountSuccess(monitor).status = "down"
            /\ CountFailure(monitor).status = "down"
        BY <1>1 DEF CountSuccess, CountFailure, Rows
      <4>2. Transition(monitor, success) # "incident_opened"
        BY <1>1, TransitionStatus
      <4>3. ResultApplied(monitor, success).status = "down"
        BY <4>1 DEF ResultApplied, FailureThresholdMet
      <4>. QED BY <1>1, <2>1, <4>2, <4>3, TransitionStatus DEF CompleteRun, RecordTransition
    <3>2. Open # {}
      BY <1>1 DEF ExecInv, DownHasIncident
    <3>3. PICK k \in Open : incident' = ResolveIncident(k, worker[w].completed_at)
      BY <2>1, <3>1, <3>2 DEF CompleteRun, RecordTransition
    <3>4. Open = {k}
      <4>1. \A j \in Open : j = k
        BY <1>1 DEF ExecInv, OneActiveIncident
      <4>. QED BY <4>1
    <3>5. /\ incident'[k].status = "resolved"
          /\ \A s \in Slots \ {k} : incident'[s] = incident[s]
      <4>1. k \in Slots /\ DOMAIN incident = Slots
        BY <1>1 DEF ExecTypeOK, Open
      <4>. QED BY <3>3, <4>1 DEF ResolveIncident
    <3>. QED BY <3>4, <3>5 DEF Open
  <2>2. ASSUME NEW w \in Workers, WorkerStep(w) \/ WorkerStops(w), ~CompleteRun(w)
        PROVE  UNCHANGED monitor
    BY <2>2 DEF WorkerStep, WorkerStops, ClaimRun, LoadRequest, ReceiveAnswer,
                SkipCompletion, RejectCompletion, PublishDelivery, apiVars
  <2>3. ASSUME NEW r \in Requests, ServeRequest(r) PROVE monitor'.status # "up"
    BY <1>1, <2>3, RequestStepSparesResults DEF ServeRequest
  <2>4. CASE Advance \/ ScheduleRun \/ UNCHANGED vars
    <3>1. monitor'.status = monitor.status
      BY <1>1, <2>4 DEF Advance, Tick, ScheduleRun, ScheduleDue, Rescheduled, Rows,
                        vars, apiVars
    <3>. QED BY <1>1, <3>1
  <2>. QED BY <1>1, <2>1, <2>2, <2>3, <2>4 DEF Next, Reliable
<1>2. ExecIInv /\ [Next]_vars
         => [(presence = "stored" /\ monitor.status = "down" /\ monitor'.status = "up")
               => Open' = {}]_vars
  BY <1>1
<1>. QED BY <1>2, ExecInvariant, PTL DEF Spec, RecoveryClosesIncident

(***************************************************************************)
(* What incidents say of themselves: their events and deliveries, the      *)
(* emails announced for them, and the streaks of checks that open and      *)
(* resolve them.                                                           *)
(***************************************************************************)

\* The delivery d of the incident of slot s is stored.
IsStored(s, d) ==
    \E k \in 1..Len(incident[s].deliveries) : incident[s].deliveries[k] = d

\* A slot without an incident has no deliveries.
NoneDelivers ==
    \A s \in Slots : incident[s].status = "none" => incident[s].deliveries = <<>>

\* PublishedAreStored together with what is about to be published.
AnnouncedAreStored ==
    /\ presence = "absent" =>
          published = {} /\ \A w \in Workers : worker[w].phase # "publishing"
    /\ presence = "stored" =>
          /\ \A p \in published : IsStored(p[1], p[2])
          /\ \A w \in Workers : worker[w].phase = "publishing"
                                    => IsStored(worker[w].slot, worker[w].delivery)

\* The counters of the row never exceed the streaks that were really checked.
StreaksAreChecked ==
    presence = "stored" =>
        /\ LastAre("failure", monitor.consecutive_failures)
        /\ LastAre("success", monitor.consecutive_successes)

IncidentInv ==
    /\ IncidentHistory
    /\ NoneDelivers
    /\ AnnouncedAreStored
    /\ StreaksAreChecked

(***************************************************************************)
(* Completion                                                              *)
(***************************************************************************)

OpenedAt(at) ==
    [status |-> "open", opened_at |-> at, resolved_at |-> 0,
     events |-> <<"opened">>, deliveries |-> <<"incident_opened">>]

ResolvedAt(i, at) ==
    [status |-> "resolved", opened_at |-> incident[i].opened_at,
     resolved_at |-> at,
     events |-> Append(incident[i].events, "resolved"),
     deliveries |-> Append(incident[i].deliveries, "incident_recovered")]

\* A completion leaves the incidents alone, opens one, or resolves one.
Unmoved(w) == UNCHANGED incident /\ Rest(w)

Opens(w) ==
    LET slot == worker[w].slot
    IN  /\ Transition(monitor, FALSE) = "incident_opened"
        /\ worker[w].outcome = "failure"
        /\ incident' = [incident EXCEPT ![slot] = OpenedAt(worker[w].completed_at)]
        /\ Announce(w, slot, "incident_opened")

Resolves(w, i) ==
    /\ Transition(monitor, TRUE) = "incident_recovery_ready"
    /\ worker[w].outcome = "success"
    /\ incident[i].status = "open"
    /\ worker[w].completed_at >= incident[i].opened_at
    /\ incident' = [incident EXCEPT ![i] = ResolvedAt(i, worker[w].completed_at)]
    /\ Announce(w, i, "incident_recovered")
    /\ monitor' = Recovered(ResultApplied(monitor, TRUE))

LEMMA CompletionMoves ==
    ASSUME ExecIInv, NEW w \in Workers, CompleteRun(w)
    PROVE  /\ presence = "stored" /\ presence' = "stored"
           /\ worker[w].slot \in Slots
           /\ worker[w].outcome \in Outcomes
           /\ check[worker[w].slot] = "none"
           /\ check' = [check EXCEPT ![worker[w].slot] = worker[w].outcome]
           /\ history' = Append(history, worker[w].outcome)
           /\ UNCHANGED published
           /\ Unmoved(w) \/ Opens(w) \/ \E i \in Slots : Resolves(w, i)
<1> USE DEF ExecIInv, ApiTypeOK, ExecTypeOK
<1> DEFINE slot == worker[w].slot
           at == worker[w].completed_at
           success == worker[w].outcome = "success"
<1>1. /\ slot \in Slots
      /\ worker[w].outcome \in Outcomes
      /\ success \in BOOLEAN
      /\ success => worker[w].outcome = "success" /\ success = TRUE
      /\ ~success => worker[w].outcome = "failure" /\ success = FALSE
  BY DEF WorkerRecords, Outcomes
<1>2. /\ presence = "stored" /\ presence' = "stored"
      /\ check[slot] = "none"
      /\ check' = [check EXCEPT ![slot] = worker[w].outcome]
      /\ history' = Append(history, worker[w].outcome)
      /\ UNCHANGED published
      /\ RecordTransition(w, slot, success, at)
  BY <1>1 DEF CompleteRun, ExecInv, RowsFollowMonitor
<1>3. /\ Transition(monitor, success) = "incident_recovery_ready" => success
      /\ Transition(monitor, success) = "incident_opened" => ~success
  BY <1>1, TransitionStatus
<1>4. CASE Transition(monitor, success) = "incident_opened"
  <2>1. /\ incident' = OpenIncident(slot, at)
        /\ IF Open = {} THEN Announce(w, slot, "incident_opened") ELSE Rest(w)
    BY <1>2, <1>4 DEF RecordTransition
  <2>2. CASE Open = {}
    <3>1. incident' = [incident EXCEPT ![slot] = OpenedAt(at)]
      BY <2>1, <2>2 DEF OpenIncident, OpenedAt
    <3>. QED BY <1>1, <1>2, <1>3, <1>4, <2>1, <2>2, <3>1 DEF Opens
  <2>3. CASE Open # {}
    BY <1>1, <1>2, <2>1, <2>3 DEF OpenIncident, Unmoved
  <2>. QED BY <2>2, <2>3
<1>5. CASE Transition(monitor, success) = "incident_recovery_ready" /\ Open # {}
  <2>1. /\ monitor' = Recovered(ResultApplied(monitor, success))
        /\ \E i \in Open : /\ ResolvedInOrder(i, at)
                           /\ incident' = ResolveIncident(i, at)
                           /\ Announce(w, i, "incident_recovered")
    BY <1>2, <1>5 DEF RecordTransition
  <2>2. PICK i \in Open : /\ ResolvedInOrder(i, at)
                          /\ incident' = ResolveIncident(i, at)
                          /\ Announce(w, i, "incident_recovered")
    BY <2>1
  <2>3. incident' = [incident EXCEPT ![i] = ResolvedAt(i, at)]
    BY <2>2 DEF ResolveIncident, ResolvedAt
  <2>4. i \in Slots /\ incident[i].status = "open" /\ at >= incident[i].opened_at
    BY <2>2 DEF Open, ResolvedInOrder
  <2>5. success = TRUE
    BY <1>1, <1>3, <1>5
  <2>6. Resolves(w, i)
    BY <1>1, <1>5, <2>1, <2>2, <2>3, <2>4, <2>5 DEF Resolves
  <2>. QED BY <1>1, <1>2, <2>4, <2>6
<1>6. CASE \/ Transition(monitor, success) = "none"
           \/ Transition(monitor, success) = "incident_recovery_ready" /\ Open = {}
  BY <1>1, <1>2, <1>6 DEF RecordTransition, Unmoved
<1>. QED BY <1>1, <1>4, <1>5, <1>6, TransitionStatus

LEMMA AnnounceEffect ==
    ASSUME ExecTypeOK, NEW w \in Workers, NEW s, NEW d, Announce(w, s, d)
    PROVE  /\ worker'[w].slot = s
           /\ worker'[w].delivery = d
           /\ \A v \in Workers \ {w} : worker'[v] = worker[v]
<1> DEFINE announcing == [IdleWorker EXCEPT !.phase = "publishing", !.slot = s,
                                            !.delivery = d]
<1>1. worker' = [worker EXCEPT ![w] = announcing]
  BY DEF Announce
<1>2. announcing.slot = s /\ announcing.delivery = d
  BY DEF IdleWorker
<1> HIDE DEF announcing
<1>. QED BY <1>1, <1>2 DEF ExecTypeOK

LEMMA RestEffect ==
    ASSUME ExecTypeOK, NEW w \in Workers, Rest(w)
    PROVE  /\ worker'[w].phase = "idle"
           /\ \A v \in Workers \ {w} : worker'[v] = worker[v]
BY DEF Rest, IdleWorker, ExecTypeOK

LEMMA TwoInARow ==
    ASSUME NEW a, NEW b
    PROVE  Append(<<a>>, b) = <<a, b>>
<1>1. /\ Append(<<a>>, b) \in Seq({a, b})
      /\ Len(Append(<<a>>, b)) = 2
      /\ Append(<<a>>, b)[1] = a
      /\ Append(<<a>>, b)[2] = b
  BY <<a>> \in Seq({a, b})
<1>2. <<a, b>> \in Seq({a, b}) /\ Len(<<a, b>>) = 2
  OBVIOUS
<1>3. \A i \in 1..2 : Append(<<a>>, b)[i] = <<a, b>>[i]
  <2>1. \A i \in 1..2 : i = 1 \/ i = 2
    OBVIOUS
  <2>. QED BY <1>1, <2>1
<1>4. \A s, t \in Seq({a, b}) :
          (Len(s) = Len(t) /\ \A i \in 1..Len(s) : s[i] = t[i]) => s = t
  BY SeqEqual
<1>. QED BY <1>1, <1>2, <1>3, <1>4, Zenon

\* What a completion leaves and adds: what was stored stays, and what the
\* worker goes on to publish is stored.
Settled(w) ==
    /\ IncidentHistory'
    /\ NoneDelivers'
    /\ \A s \in Slots, d \in DeliveryTypes : IsStored(s, d) => IsStored(s, d)'
    /\ (worker[w].phase = "publishing" => IsStored(worker[w].slot, worker[w].delivery))'
    /\ \A v \in Workers \ {w} : worker'[v] = worker[v]

LEMMA CompletionSettles ==
    ASSUME ExecIInv, IncidentHistory, NoneDelivers, NEW w \in Workers, CompleteRun(w)
    PROVE  Settled(w)
<1> DEFINE slot == worker[w].slot
           at == worker[w].completed_at
<1>1. /\ slot \in Slots
      /\ check[slot] = "none"
      /\ check' = [check EXCEPT ![slot] = worker[w].outcome]
      /\ check \in [Slots -> Outcomes \cup {"none"}]
      /\ incident \in [Slots -> IncidentRecords]
      /\ ExecTypeOK
  BY CompletionMoves DEF ExecIInv, ExecTypeOK
<1>2. incident[slot].status = "none" /\ incident[slot].deliveries = <<>>
  BY <1>1 DEF IncidentHistory, NoneDelivers
<1>3. /\ check'[slot] = worker[w].outcome
      /\ \A s \in Slots \ {slot} : check'[s] = check[s]
  BY <1>1
<1>4. CASE Unmoved(w)
  <2>1. UNCHANGED incident
    BY <1>4 DEF Unmoved
  <2>2. IncidentHistory' /\ NoneDelivers'
    BY <1>1, <1>2, <1>3, <2>1 DEF IncidentHistory, NoneDelivers
  <2>. QED BY <1>1, <1>4, <2>1, <2>2, RestEffect DEF Unmoved, IsStored, Settled
<1>5. CASE Opens(w)
  <2>1. incident'[slot] = OpenedAt(at) /\ \A s \in Slots \ {slot} : incident'[s] = incident[s]
    BY <1>1, <1>5 DEF Opens
  <2>2. IncidentHistory' /\ NoneDelivers'
    BY <1>3, <1>5, <2>1 DEF IncidentHistory, NoneDelivers, OpenedAt, Opens
  <2>3. \A s \in Slots, d \in DeliveryTypes : IsStored(s, d) => IsStored(s, d)'
    BY <1>2, <2>1 DEF IsStored
  <2>4. \E k \in 1..Len(incident'[slot].deliveries) :
            incident'[slot].deliveries[k] = "incident_opened"
    <3>1. /\ Len(incident'[slot].deliveries) = 1
          /\ incident'[slot].deliveries[1] = "incident_opened"
      BY <2>1 DEF OpenedAt
    <3>. QED BY <3>1
  <2>5. /\ worker'[w].slot = slot
        /\ worker'[w].delivery = "incident_opened"
        /\ \A v \in Workers \ {w} : worker'[v] = worker[v]
    BY <1>1, <1>5, AnnounceEffect DEF Opens
  <2>. QED BY <2>2, <2>3, <2>4, <2>5 DEF IsStored, Settled
<1>6. ASSUME NEW i \in Slots, Resolves(w, i)
      PROVE  Settled(w)
  <2>1. incident'[i] = ResolvedAt(i, at) /\ \A s \in Slots \ {i} : incident'[s] = incident[s]
    BY <1>1, <1>6 DEF Resolves
  <2>2. i # slot /\ incident[i].deliveries = <<"incident_opened">>
          /\ incident[i].events = <<"opened">> /\ check[i] = "failure"
    BY <1>2, <1>6 DEF Resolves, IncidentHistory
  <2>3. /\ incident'[i].deliveries = <<"incident_opened", "incident_recovered">>
        /\ incident'[i].events = <<"opened", "resolved">>
        /\ incident'[i].status = "resolved"
        /\ incident'[i].resolved_at >= incident'[i].opened_at
    BY <1>6, <2>1, <2>2, TwoInARow DEF ResolvedAt, Resolves
  <2>4. IncidentHistory' /\ NoneDelivers'
    BY <1>2, <1>3, <2>1, <2>2, <2>3 DEF IncidentHistory, NoneDelivers
  <2>5. \A s \in Slots, d \in DeliveryTypes : IsStored(s, d) => IsStored(s, d)'
    BY <2>1, <2>2, <2>3 DEF IsStored
  <2>6. \E k \in 1..Len(incident'[i].deliveries) :
            incident'[i].deliveries[k] = "incident_recovered"
    BY <2>3
  <2>7. /\ worker'[w].slot = i
        /\ worker'[w].delivery = "incident_recovered"
        /\ \A v \in Workers \ {w} : worker'[v] = worker[v]
    BY <1>1, <1>6, AnnounceEffect DEF Resolves
  <2>. QED BY <2>4, <2>5, <2>6, <2>7 DEF IsStored, Settled
<1>. QED BY <1>4, <1>5, <1>6, CompletionMoves

(***************************************************************************)
(* Streaks                                                                 *)
(***************************************************************************)

\* A streak that goes on is one longer, and every suffix of it is a streak.
LEMMA StreakGrows ==
    ASSUME history \in Seq(Outcomes), NEW outcome \in Outcomes, NEW n \in Nat,
           LastAre(outcome, n), history' = Append(history, outcome),
           NEW m \in Nat, m <= n + 1
    PROVE  /\ m <= Len(history')
           /\ \A k \in (Len(history') - m + 1)..Len(history') : history'[k] = outcome
<1>1. /\ Len(history) \in Nat
      /\ Len(history') = Len(history) + 1
      /\ history'[Len(history) + 1] = outcome
      /\ \A k \in 1..Len(history) : history'[k] = history[k]
  BY AppendProperties
<1>2. n <= Len(history) /\ \A k \in (Len(history) - n + 1)..Len(history) : history[k] = outcome
  BY DEF LastAre
<1>3. m <= Len(history')
  BY <1>1, <1>2
<1>4. ASSUME NEW k \in (Len(history') - m + 1)..Len(history')
      PROVE  history'[k] = outcome
  <2>1. k = Len(history) + 1 \/ k \in (Len(history) - n + 1)..Len(history)
    BY <1>1
  <2>2. \A j \in (Len(history) - n + 1)..Len(history) : j \in 1..Len(history)
    BY <1>1, <1>2
  <2>. QED BY <1>1, <1>2, <2>1, <2>2
<1>. QED BY <1>3, <1>4

\* What a result does to the counters of the row.
LEMMA CountersAfterResult ==
    ASSUME NEW row \in Rows, NEW success \in BOOLEAN
    PROVE  LET after == ResultApplied(row, success)
           IN  /\ after.consecutive_failures =
                      IF success THEN 0 ELSE row.consecutive_failures + 1
               /\ after.consecutive_successes =
                      IF success THEN row.consecutive_successes + 1 ELSE 0
               /\ after.failure_threshold = row.failure_threshold
               /\ after.recovery_threshold = row.recovery_threshold
               /\ Recovered(after).failure_threshold = row.failure_threshold
               /\ Recovered(after).recovery_threshold = row.recovery_threshold
               /\ Recovered(after).status = "up"
               /\ Recovered(after).consecutive_failures = 0
               /\ Recovered(after).consecutive_successes = 0
<1>1. CASE success
  <2>1. ResultApplied(row, success) = CountSuccess(row)
    BY <1>1 DEF ResultApplied
  <2>2. /\ CountSuccess(row).consecutive_failures = 0
        /\ CountSuccess(row).consecutive_successes = row.consecutive_successes + 1
        /\ CountSuccess(row).failure_threshold = row.failure_threshold
        /\ CountSuccess(row).recovery_threshold = row.recovery_threshold
        /\ CountSuccess(row) \in Rows
    BY <1>1, <2>1, ResultIsRow DEF CountSuccess, Rows
  <2>. QED BY <1>1, <2>1, <2>2 DEF Recovered, Rows
<1>2. CASE ~success
  <2> DEFINE counted == CountFailure(row)
  <2>1. /\ counted.consecutive_failures = row.consecutive_failures + 1
        /\ counted.consecutive_successes = 0
        /\ counted.failure_threshold = row.failure_threshold
        /\ counted.recovery_threshold = row.recovery_threshold
        /\ DOMAIN counted = DOMAIN row
    BY DEF CountFailure, Rows
  <2>2. ResultApplied(row, success) \in {counted, [counted EXCEPT !.status = "down"]}
    BY <1>2 DEF ResultApplied
  <2>3. ResultApplied(row, success) \in Rows
    BY ResultIsRow
  <2> HIDE DEF counted
  <2>4. LET after == ResultApplied(row, success)
        IN  /\ after.consecutive_failures = counted.consecutive_failures
            /\ after.consecutive_successes = counted.consecutive_successes
            /\ after.failure_threshold = counted.failure_threshold
            /\ after.recovery_threshold = counted.recovery_threshold
    BY <2>1, <2>2 DEF Rows
  <2>. QED BY <1>2, <2>1, <2>3, <2>4 DEF Recovered, Rows
<1>. QED BY <1>1, <1>2

\* What the transition says of the counters of the row before the result.
LEMMA CountersAtTransition ==
    ASSUME NEW row \in Rows
    PROVE  /\ Transition(row, FALSE) = "incident_opened"
                => row.failure_threshold <= row.consecutive_failures + 1
           /\ Transition(row, TRUE) = "incident_recovery_ready"
                => /\ row.status = "down"
                   /\ row.recovery_threshold <= row.consecutive_successes + 1
<1>1. Transition(row, FALSE) = "incident_opened"
         => row.failure_threshold <= row.consecutive_failures + 1
  BY DEF Transition, FailureThresholdMet, CountFailure, Rows
<1>2. Transition(row, TRUE) = "incident_recovery_ready"
         => row.recovery_threshold <= row.consecutive_successes + 1
  BY DEF Transition, RecoveryReady, CountSuccess, Rows
<1>. QED BY <1>1, <1>2, TransitionStatus

LEMMA CompletionKeepsStreaks ==
    ASSUME ExecIInv, StreaksAreChecked, NEW w \in Workers, CompleteRun(w)
    PROVE  /\ StreaksAreChecked'
           /\ Opens(w) => LastAre("failure", monitor.failure_threshold)'
           /\ \A i \in Slots : Resolves(w, i) =>
                  /\ monitor.status = "down" /\ monitor'.status = "up"
                  /\ LastAre("success", monitor.recovery_threshold)'
<1> DEFINE success == worker[w].outcome = "success"
           f == monitor.consecutive_failures
           g == monitor.consecutive_successes
           After(o, m) == /\ m <= Len(history')
                          /\ \A k \in (Len(history') - m + 1)..Len(history') :
                                history'[k] = o
<1>1. /\ monitor \in Rows
      /\ success \in BOOLEAN
      /\ history \in Seq(Outcomes)
      /\ history' = Append(history, worker[w].outcome)
      /\ worker[w].outcome \in Outcomes
  BY CompletionMoves DEF ExecIInv, ApiTypeOK, ExecTypeOK
<1>2. f \in Nat /\ g \in Nat
  BY <1>1 DEF Rows
<1>3. LastAre("failure", f) /\ LastAre("success", g)
  BY CompletionMoves DEF StreaksAreChecked
<1>4. /\ worker[w].outcome = "failure" => \A m \in Nat : m <= f + 1 => After("failure", m)
      /\ worker[w].outcome = "success" => \A m \in Nat : m <= g + 1 => After("success", m)
  BY <1>1, <1>2, <1>3, StreakGrows DEF Outcomes
<1>5. \A o : After(o, 0)
  BY <1>1, AppendProperties
<1>6. monitor' \in {ResultApplied(monitor, success), Recovered(ResultApplied(monitor, success))}
  BY DEF CompleteRun, RecordTransition
<1>7. /\ monitor'.consecutive_failures \in {0, IF success THEN 0 ELSE f + 1}
      /\ monitor'.consecutive_successes \in {0, IF success THEN g + 1 ELSE 0}
      /\ monitor'.failure_threshold = monitor.failure_threshold
      /\ monitor'.recovery_threshold = monitor.recovery_threshold
  BY <1>1, <1>6, CountersAfterResult
<1>8. StreaksAreChecked'
  <2>1. f + 1 \in Nat /\ g + 1 \in Nat /\ f + 1 <= f + 1 /\ g + 1 <= g + 1
    BY <1>2
  <2>2. /\ worker[w].outcome = "failure" => After("failure", f + 1)
        /\ worker[w].outcome = "success" => After("success", g + 1)
    <3> HIDE DEF After, f, g
    <3>. QED BY <1>4, <2>1
  <2>5. \/ success /\ worker[w].outcome = "success"
        \/ ~success /\ worker[w].outcome = "failure"
    BY <1>1 DEF Outcomes
  <2> HIDE DEF After
  <2>3. After("failure", monitor'.consecutive_failures)
    BY <1>5, <1>7, <2>2, <2>5
  <2>4. After("success", monitor'.consecutive_successes)
    BY <1>5, <1>7, <2>2, <2>5
  <2>. QED BY <2>3, <2>4 DEF StreaksAreChecked, LastAre, After
<1>9. ASSUME Opens(w) PROVE LastAre("failure", monitor.failure_threshold)'
  <2>1. /\ monitor.failure_threshold \in Nat
        /\ monitor.failure_threshold <= f + 1
        /\ worker[w].outcome = "failure"
    BY <1>1, <1>9, CountersAtTransition, ThresholdsAssumption DEF Opens, Rows
  <2>2. After("failure", monitor.failure_threshold)
    BY <1>4, <2>1
  <2>. QED BY <1>7, <2>2 DEF LastAre
<1>10. ASSUME NEW i \in Slots, Resolves(w, i)
       PROVE  /\ monitor.status = "down" /\ monitor'.status = "up"
              /\ LastAre("success", monitor.recovery_threshold)'
  <2>1. /\ monitor.recovery_threshold \in Nat
        /\ monitor.recovery_threshold <= g + 1
        /\ monitor.status = "down"
        /\ worker[w].outcome = "success"
    BY <1>1, <1>10, CountersAtTransition, ThresholdsAssumption DEF Resolves, Rows
  <2>2. After("success", monitor.recovery_threshold)
    BY <1>4, <2>1
  <2>3. monitor'.status = "up"
    BY <1>1, <1>10, CountersAfterResult DEF Resolves
  <2>. QED BY <1>7, <2>1, <2>2, <2>3 DEF LastAre
<1>. QED BY <1>8, <1>9, <1>10

(***************************************************************************)
(* The inductive invariant.                                                *)
(***************************************************************************)

\* The steps of a worker other than a completion: nothing new is announced
\* except from what the worker was about to publish.
LEMMA OtherWorkerSteps ==
    ASSUME ExecIInv, NEW w \in Workers, WorkerStep(w) \/ WorkerStops(w), ~CompleteRun(w)
    PROVE  /\ UNCHANGED <<presence, monitor, check, incident, history>>
           /\ \A v \in Workers : worker'[v].phase = "publishing" => worker'[v] = worker[v]
           /\ \/ UNCHANGED published
              \/ /\ worker[w].phase = "publishing"
                 /\ published' = published \cup {<<worker[w].slot, worker[w].delivery>>}
<1> USE DEF ExecIInv, ExecTypeOK
<1>1. UNCHANGED <<presence, monitor, check, incident, history>>
  BY DEF WorkerStep, WorkerStops, ClaimRun, LoadRequest, ReceiveAnswer,
         SkipCompletion, RejectCompletion, PublishDelivery, apiVars, rowVars
<1>2. \/ UNCHANGED published
      \/ /\ worker[w].phase = "publishing"
         /\ published' = published \cup {<<worker[w].slot, worker[w].delivery>>}
  BY DEF WorkerStep, WorkerStops, ClaimRun, LoadRequest, ReceiveAnswer,
         SkipCompletion, RejectCompletion, PublishDelivery, apiVars, rowVars
<1>3. CASE Rest(w)
  BY <1>1, <1>2, <1>3, RestEffect
<1>4. ASSUME NEW slot \in Slots, ClaimRun(w, slot), ~UNCHANGED worker
      PROVE  \A v \in Workers : worker'[v].phase = "publishing" => worker'[v] = worker[v]
  <2>1. [IdleWorker EXCEPT !.phase = "claimed", !.slot = slot].phase = "claimed"
    BY DEF IdleWorker
  <2>2. worker' = [worker EXCEPT ![w] = [IdleWorker EXCEPT !.phase = "claimed", !.slot = slot]]
    BY <1>4 DEF ClaimRun
  <2>. QED BY <2>1, <2>2
<1>5. ASSUME worker' = [worker EXCEPT ![w].phase = "requesting"]
      PROVE  \A v \in Workers : worker'[v].phase = "publishing" => worker'[v] = worker[v]
  BY <1>5 DEF WorkerRecords
<1>6. ASSUME NEW outcome \in Outcomes, ReceiveAnswer(w, outcome)
      PROVE  \A v \in Workers : worker'[v].phase = "publishing" => worker'[v] = worker[v]
  <2>1. [worker[w] EXCEPT !.phase = "answered", !.outcome = outcome,
                          !.completed_at = now].phase = "answered"
    BY DEF WorkerRecords
  <2>2. worker' = [worker EXCEPT ![w] =
           [worker[w] EXCEPT !.phase = "answered", !.outcome = outcome,
                             !.completed_at = now]]
    BY <1>6 DEF ReceiveAnswer
  <2>. QED BY <2>1, <2>2
<1>7. \/ Rest(w)
      \/ UNCHANGED worker
      \/ \E slot \in Slots : ClaimRun(w, slot)
      \/ worker' = [worker EXCEPT ![w].phase = "requesting"]
      \/ \E outcome \in Outcomes : ReceiveAnswer(w, outcome)
  BY DEF WorkerStep, WorkerStops, LoadRequest, SkipCompletion, RejectCompletion,
         PublishDelivery
<1>. QED BY <1>1, <1>2, <1>3, <1>4, <1>5, <1>6, <1>7

\* A step of anybody else changes no incident of a stored monitor.
LEMMA ElsewhereSteps ==
    ASSUME ExecIInv,
           \/ \E r \in Requests : ServeRequest(r)
           \/ Advance
           \/ ScheduleRun
           \/ UNCHANGED vars
    PROVE  /\ UNCHANGED <<worker, published>>
           /\ presence # "stored" => presence' \in {presence, "stored", "deleted"}
           /\ presence = "deleted" => presence' = "deleted"
           /\ \/ presence' = "deleted" /\ incident' = [s \in Slots |-> NoIncident]
              \/ /\ UNCHANGED <<check, incident, history>>
                 /\ presence = "stored" => presence' = "stored"
                 /\ presence' = "stored" =>
                       \/ /\ presence = "stored"
                          /\ monitor'.consecutive_failures = monitor.consecutive_failures
                          /\ monitor'.consecutive_successes = monitor.consecutive_successes
                       \/ /\ presence = "absent"
                          /\ monitor'.consecutive_failures = 0
                          /\ monitor'.consecutive_successes = 0
<1> USE DEF ExecIInv, ApiTypeOK
<1>1. ASSUME NEW r \in Requests, ServeRequest(r)
      PROVE  /\ UNCHANGED <<worker, published>>
             /\ \/ UNCHANGED presence
                \/ presence = "absent" /\ presence' = "stored"
                      /\ \E payload \in Payloads : CreateMonitor(r, payload)
                \/ presence' = "deleted"
             /\ \/ presence' = "deleted" /\ incident' = [s \in Slots |-> NoIncident]
                \/ UNCHANGED <<check, incident, history>>
                      /\ ~(presence = "stored" /\ presence' = "deleted")
  <2>1. UNCHANGED <<worker, published>>
    BY <1>1 DEF ServeRequest, execVars
  <2>2. \/ UNCHANGED presence
        \/ presence = "absent" /\ presence' = "stored"
              /\ \E payload \in Payloads : CreateMonitor(r, payload)
        \/ presence' = "deleted"
    BY <1>1 DEF ServeRequest, RequestStep, CreateMonitor, NotFound, BeginPause,
                BeginResume, BeginDelete, BeginUpdate, ValidateDestination, CommitEdit,
                CommitDelete, CommitFails
  <2>3. \/ presence' = "deleted" /\ incident' = [s \in Slots |-> NoIncident]
        \/ UNCHANGED <<check, incident, history>>
              /\ ~(presence = "stored" /\ presence' = "deleted")
    BY <1>1 DEF ServeRequest, execVars, rowVars
  <2>. QED BY <2>1, <2>2, <2>3
<1>2. ASSUME NEW r \in Requests, NEW payload \in Payloads, CreateMonitor(r, payload),
             presence' = "stored"
      PROVE  monitor'.consecutive_failures = 0 /\ monitor'.consecutive_successes = 0
  BY <1>2 DEF CreateMonitor, Created
<1>3. ASSUME NEW r \in Requests, ServeRequest(r), presence = "stored"
      PROVE  /\ monitor'.consecutive_failures = monitor.consecutive_failures
             /\ monitor'.consecutive_successes = monitor.consecutive_successes
  BY <1>3, RequestStepSparesResults DEF ServeRequest
<1>4. ASSUME NEW r \in Requests, ServeRequest(r), presence = "deleted"
      PROVE  presence' = "deleted"
  BY <1>4, RequestEffects
<1>5. CASE \E r \in Requests : ServeRequest(r)
  BY <1>1, <1>2, <1>3, <1>4, <1>5
<1>6. CASE Advance \/ UNCHANGED vars
  BY <1>6 DEF Advance, Tick, vars, apiVars, execVars, rowVars
<1>7. CASE ScheduleRun
  BY <1>7 DEF ScheduleRun, ScheduleDue, Rescheduled, Rows
<1>. QED BY <1>5, <1>6, <1>7

LEMMA IncidentInvInductive ==
    ASSUME ExecIInv, IncidentInv, [Next]_vars
    PROVE  IncidentInv'
<1> USE DEF IncidentInv
<1>1. ASSUME NEW w \in Workers, CompleteRun(w) PROVE IncidentInv'
  <2>1. Settled(w)
    BY <1>1, CompletionSettles
  <2>2. StreaksAreChecked'
    BY <1>1, CompletionKeepsStreaks
  <2>3. presence = "stored" /\ presence' = "stored" /\ UNCHANGED published
    BY <1>1, CompletionMoves
  <2>4. /\ published \subseteq Slots \X DeliveryTypes
        /\ worker \in [Workers -> WorkerRecords]
    BY DEF ExecIInv, ExecTypeOK
  <2>5. \A p \in published' : IsStored(p[1], p[2])'
    BY <2>1, <2>3, <2>4 DEF AnnouncedAreStored, Settled
  <2>6. ASSUME NEW v \in Workers, worker'[v].phase = "publishing"
        PROVE  IsStored(worker[v].slot, worker[v].delivery)'
    <3>1. CASE v = w
      BY <2>1, <2>6, <3>1 DEF Settled
    <3>2. CASE v # w
      <4>1. worker'[v] = worker[v]
        BY <2>1, <3>2 DEF Settled
      <4>2. worker[v].slot \in Slots /\ worker[v].delivery \in DeliveryTypes
        BY <2>4 DEF WorkerRecords
      <4>3. IsStored(worker[v].slot, worker[v].delivery)
        BY <2>3, <2>6, <4>1 DEF AnnouncedAreStored
      <4>4. \E k \in 1..Len(incident'[worker[v].slot].deliveries) :
                incident'[worker[v].slot].deliveries[k] = worker[v].delivery
        BY <2>1, <4>2, <4>3 DEF Settled, IsStored
      <4>. QED BY <4>1, <4>4 DEF IsStored
    <3>. QED BY <3>1, <3>2
  <2>7. AnnouncedAreStored'
    BY <2>3, <2>5, <2>6 DEF AnnouncedAreStored
  <2>. QED BY <2>1, <2>2, <2>7 DEF Settled
<1>2. ASSUME NEW w \in Workers, WorkerStep(w) \/ WorkerStops(w), ~CompleteRun(w)
      PROVE  IncidentInv'
  <2>1. /\ UNCHANGED <<presence, monitor, check, incident, history>>
        /\ \A v \in Workers : worker'[v].phase = "publishing" => worker'[v] = worker[v]
        /\ \/ UNCHANGED published
           \/ /\ worker[w].phase = "publishing"
              /\ published' = published \cup {<<worker[w].slot, worker[w].delivery>>}
    BY <1>2, OtherWorkerSteps
  <2>2. IncidentHistory' /\ NoneDelivers' /\ StreaksAreChecked'
    BY <2>1 DEF IncidentHistory, NoneDelivers, StreaksAreChecked, LastAre
  <2>3. AnnouncedAreStored'
    BY <2>1 DEF AnnouncedAreStored, IsStored
  <2>. QED BY <2>2, <2>3
<1>3. CASE \/ \E r \in Requests : ServeRequest(r)
           \/ Advance
           \/ ScheduleRun
           \/ UNCHANGED vars
  <2>1. UNCHANGED <<worker, published>>
    BY <1>3, ElsewhereSteps
  <2>2. CASE presence' = "deleted" /\ incident' = [s \in Slots |-> NoIncident]
    <3>1. IncidentHistory' /\ NoneDelivers'
      BY <2>2 DEF IncidentHistory, NoneDelivers, NoIncident
    <3>. QED BY <2>2, <3>1 DEF AnnouncedAreStored, StreaksAreChecked
  <2>3. CASE /\ UNCHANGED <<check, incident, history>>
             /\ presence = "stored" => presence' = "stored"
             /\ presence' = "stored" =>
                   \/ /\ presence = "stored"
                      /\ monitor'.consecutive_failures = monitor.consecutive_failures
                      /\ monitor'.consecutive_successes = monitor.consecutive_successes
                   \/ /\ presence = "absent"
                      /\ monitor'.consecutive_failures = 0
                      /\ monitor'.consecutive_successes = 0
    <3>1. IncidentHistory' /\ NoneDelivers'
      BY <2>3 DEF IncidentHistory, NoneDelivers
    <3>2. AnnouncedAreStored'
      <4>1. presence' = "absent" => presence = "absent"
        BY <1>3, <2>3, ElsewhereSteps DEF ExecIInv, ApiTypeOK
      <4>. QED BY <2>1, <2>3, <4>1 DEF AnnouncedAreStored, IsStored
    <3>3. StreaksAreChecked'
      <4>1. Len(history) \in Nat /\ \A o : LastAre(o, 0)
        BY DEF LastAre, ExecIInv, ExecTypeOK
      <4>. QED BY <2>3, <4>1 DEF StreaksAreChecked, LastAre
    <3>. QED BY <3>1, <3>2, <3>3
  <2>. QED BY <1>3, <2>2, <2>3, ElsewhereSteps
<1>. QED BY <1>1, <1>2, <1>3 DEF Next, Reliable

LEMMA IncidentInvInitially == Init => IncidentInv
<1> SUFFICES ASSUME Init PROVE IncidentInv
  OBVIOUS
<1>1. IncidentHistory /\ NoneDelivers
  BY DEF Init, ExecInit, IncidentHistory, NoneDelivers, NoIncident
<1>2. AnnouncedAreStored /\ StreaksAreChecked
  BY DEF Init, ApiInit, ExecInit, AnnouncedAreStored, StreaksAreChecked, IdleWorker
<1>. QED BY <1>1, <1>2 DEF IncidentInv

LEMMA IncidentInvariant == Spec => [](ExecIInv /\ IncidentInv)
<1>1. ExecIInv /\ IncidentInv /\ [Next]_vars => IncidentInv'
  BY IncidentInvInductive
<1>. QED BY <1>1, IncidentInvInitially, ExecInvariant, PTL DEF Spec

(***************************************************************************)
(* The theorems about incidents.                                           *)
(***************************************************************************)

\* What an incident says of itself agrees: its check, its events, its
\* deliveries and its instants.
THEOREM IncidentHistoryHolds == Spec => []IncidentHistory
<1>1. IncidentInv => IncidentHistory
  BY DEF IncidentInv
<1>. QED BY <1>1, IncidentInvariant, PTL

\* The email queue learns only of deliveries that were committed.
THEOREM PublishedAreStoredHolds == Spec => []PublishedAreStored
<1>1. IncidentInv => PublishedAreStored
  BY DEF IncidentInv, AnnouncedAreStored, PublishedAreStored, IsStored
<1>. QED BY <1>1, IncidentInvariant, PTL

\* Only a completion opens or resolves an incident.
LEMMA OnlyCompletionsMove ==
    ASSUME ExecIInv, IncidentInv, [Next]_vars, NEW s \in Slots,
           \/ incident[s].status = "none" /\ incident'[s].status = "open"
           \/ incident[s].status = "open" /\ incident'[s].status = "resolved"
    PROVE  \E w \in Workers :
             /\ CompleteRun(w)
             /\ \/ /\ incident[s].status = "none"
                   /\ Opens(w)
                \/ /\ incident[s].status = "open"
                   /\ Resolves(w, s)
<1>1. ~ \/ \E r \in Requests : ServeRequest(r)
        \/ Advance
        \/ ScheduleRun
        \/ UNCHANGED vars
  BY ElsewhereSteps DEF NoIncident
<1>2. PICK w \in Workers : CompleteRun(w)
  BY <1>1, OtherWorkerSteps DEF Next, Reliable
<1>3. /\ incident \in [Slots -> IncidentRecords]
      /\ worker[w].slot \in Slots
      /\ check[worker[w].slot] = "none"
  BY <1>2, CompletionMoves DEF ExecIInv, ExecTypeOK
<1>4. ~Unmoved(w)
  BY DEF Unmoved
<1>5. CASE Opens(w)
  <2>1. incident[worker[w].slot].status = "none"
    BY <1>3 DEF IncidentInv, IncidentHistory
  <2>2. s = worker[w].slot
    BY <1>3, <1>5 DEF Opens
  <2>. QED BY <1>2, <1>5, <2>1, <2>2
<1>6. ASSUME NEW i \in Slots, Resolves(w, i)
      PROVE  s = i /\ incident[s].status = "open"
  BY <1>3, <1>6 DEF Resolves
<1>. QED BY <1>2, <1>4, <1>5, <1>6, CompletionMoves

\* An incident opens only after failure_threshold failed checks in a row,
\* whatever workers committed them and whatever requests came between.
THEOREM OpeningIsJustifiedHolds == Spec => OpeningIsJustified
<1>1. ASSUME ExecIInv, IncidentInv, [Next]_vars, NEW s \in Slots,
             incident[s].status = "none", incident'[s].status = "open"
      PROVE  LastAre("failure", monitor.failure_threshold)'
  <2>1. PICK w \in Workers : CompleteRun(w) /\ Opens(w)
    BY <1>1, OnlyCompletionsMove
  <2>. QED BY <1>1, <2>1, CompletionKeepsStreaks DEF IncidentInv
<1>2. ExecIInv /\ IncidentInv /\ [Next]_vars
         => [(\E s \in Slots : incident[s].status = "none" /\ incident'[s].status = "open")
               => LastAre("failure", monitor.failure_threshold)']_vars
  BY <1>1
<1>. QED BY <1>2, IncidentInvariant, PTL DEF Spec, OpeningIsJustified

\* An incident is resolved only after recovery_threshold successes in a row,
\* by the step that takes the monitor from down to up.
THEOREM ResolutionIsJustifiedHolds == Spec => ResolutionIsJustified
<1>1. ASSUME ExecIInv, IncidentInv, [Next]_vars, NEW s \in Slots,
             incident[s].status = "open", incident'[s].status = "resolved"
      PROVE  /\ monitor.status = "down" /\ monitor'.status = "up"
             /\ LastAre("success", monitor.recovery_threshold)'
  <2>1. PICK w \in Workers : CompleteRun(w) /\ Resolves(w, s)
    BY <1>1, OnlyCompletionsMove
  <2>. QED BY <1>1, <2>1, CompletionKeepsStreaks DEF IncidentInv
<1>2. ExecIInv /\ IncidentInv /\ [Next]_vars
         => [(\E s \in Slots : incident[s].status = "open" /\ incident'[s].status = "resolved")
               => /\ monitor.status = "down" /\ monitor'.status = "up"
                  /\ LastAre("success", monitor.recovery_threshold)']_vars
  BY <1>1
<1>. QED BY <1>2, IncidentInvariant, PTL DEF Spec, ResolutionIsJustified
=============================================================================
