-------------------------- MODULE MonitorApiProofs --------------------------
(***************************************************************************)
(* Proofs about MonitorApi, for every set of request slots, intervals and  *)
(* thresholds and for every bound.                                         *)
(***************************************************************************)
EXTENDS MonitorApi, TLAPS

(***************************************************************************)
(* Lemmas about the operators on rows.                                     *)
(***************************************************************************)

\* Adding an interval to an instant gives an instant.
LEMMA IntervalAdds ==
    ASSUME NEW t \in Nat, NEW i \in Intervals
    PROVE  t + i \in Nat
BY IntervalsAssumption

\* What a POST inserts is a row, and some payload exists.
LEMMA CreatedIsRow ==
    ASSUME NEW payload \in Payloads, NEW t \in Nat
    PROVE  Created(payload, t) \in Rows
<1>1. t + payload.interval_seconds \in Nat
  BY IntervalAdds DEF Payloads
<1>. QED BY <1>1 DEF Created, Rows, Payloads, Statuses

LEMMA InitialRowIsRow == InitialPayload \in Payloads /\ InitialRow \in Rows
<1>1. \E p \in Payloads : TRUE
  <2>1. PICK i \in Intervals : TRUE
    BY IntervalsAssumption
  <2>2. PICK t \in Thresholds : TRUE
    BY ThresholdsAssumption
  <2>3. [interval_seconds |-> i, failure_threshold |-> t,
         recovery_threshold |-> t] \in Payloads
    BY DEF Payloads
  <2>. QED BY <2>3
<1>2. InitialPayload \in Payloads
  BY <1>1 DEF InitialPayload
<1>. QED BY <1>2, CreatedIsRow DEF InitialRow

\* The edits of the handlers and of the scheduler keep the row a row.
LEMMA EditsAreRows ==
    ASSUME NEW row \in Rows, NEW payload \in Payloads, NEW t \in Nat
    PROVE  /\ Paused(row) \in Rows
           /\ Resumed(row, t) \in Rows
           /\ Updated(row, payload, t) \in Rows
           /\ SchedulerEligible(row, t) => Rescheduled(row) \in Rows
<1>1. Paused(row) \in Rows
  BY DEF Paused, Rows, Statuses
<1>2. Resumed(row, t) \in Rows
  <2>1. t + row.interval_seconds \in Nat
    BY IntervalAdds DEF Rows
  <2>. QED BY <2>1 DEF Resumed, Rows, Statuses
<1>3. Updated(row, payload, t) \in Rows
  <2>1. t + payload.interval_seconds \in Nat
    BY IntervalAdds DEF Payloads
  <2>. QED BY <2>1 DEF Updated, Rows, Payloads
<1>4. ASSUME SchedulerEligible(row, t)
      PROVE  Rescheduled(row) \in Rows
  <2>1. row.next_check_at \in Nat
    BY <1>4 DEF SchedulerEligible, Rows
  <2>2. row.next_check_at + row.interval_seconds \in Nat
    BY <2>1, IntervalAdds DEF Rows
  <2>. QED BY <2>2 DEF Rescheduled, Rows
<1>. QED BY <1>1, <1>2, <1>3, <1>4

\* So does a column-wise write of one row's edits over another row.
LEMMA FlushIsRow ==
    ASSUME NEW row \in Rows, NEW loaded \in Rows, NEW edited \in Rows
    PROVE  Flush(row, loaded, edited) \in Rows
BY DEF Flush, Rows

\* And the result of a check.
LEMMA ResultIsRow ==
    ASSUME NEW row \in Rows, NEW success \in BOOLEAN
    PROVE  /\ ResultApplied(row, success) \in Rows
           /\ Recovered(ResultApplied(row, success)) \in Rows
<1>1. CountSuccess(row) \in Rows
  <2>1. row.consecutive_successes + 1 \in Nat
    BY DEF Rows
  <2>. QED BY <2>1 DEF CountSuccess, Rows, Statuses
<1>2. CountFailure(row) \in Rows
  <2>1. row.consecutive_failures + 1 \in Nat
    BY DEF Rows
  <2>. QED BY <2>1 DEF CountFailure, Rows
<1>3. [CountFailure(row) EXCEPT !.status = "down"] \in Rows
  BY <1>2 DEF Rows, Statuses
<1>4. ResultApplied(row, success) \in Rows
  BY <1>1, <1>2, <1>3 DEF ResultApplied
<1>. QED BY <1>4 DEF Recovered, Rows, Statuses

(***************************************************************************)
(* Type correctness.                                                       *)
(***************************************************************************)

LEMMA IdleIsRecord ==
    ASSUME NEW code \in Replies
    PROVE  Idle(code) \in RequestRecords
BY InitialRowIsRow DEF Idle, RequestRecords, Phases, Operations

LEMMA ApiTypingInductive ==
    ASSUME ApiTypeOK, [ApiNext]_apiVars
    PROVE  ApiTypeOK'
<1> USE DEF ApiTypeOK
<1>1. ASSUME NEW r \in Requests, NEW code \in Replies, Answer(r, code)
      PROVE  request' \in [Requests -> RequestRecords]
  BY <1>1, IdleIsRecord DEF Answer
<1>2. ASSUME NEW r \in Requests, NEW op \in Operations, NEW row \in Rows,
             ReachCommit(r, op, row)
      PROVE  request' \in [Requests -> RequestRecords]
  <2>1. [Idle("none") EXCEPT !.phase = "committing", !.op = op,
                             !.loaded = monitor, !.edited = row]
           \in RequestRecords
    BY IdleIsRecord DEF RequestRecords, Phases, Replies
  <2>. QED BY <1>2, <2>1 DEF ReachCommit
<1>3. ASSUME NEW r \in Requests, NEW payload \in Payloads,
             CreateMonitor(r, payload)
      PROVE  ApiTypeOK'
  BY <1>1, <1>3, CreatedIsRow DEF CreateMonitor, Replies
<1>4. ASSUME NEW r \in Requests, NotFound(r) PROVE ApiTypeOK'
  BY <1>1, <1>4 DEF NotFound, Replies
<1>5. ASSUME NEW r \in Requests, BeginPause(r) PROVE ApiTypeOK'
  BY <1>1, <1>2, <1>5, EditsAreRows, InitialRowIsRow
     DEF BeginPause, Replies, Operations
<1>6. ASSUME NEW r \in Requests, BeginResume(r) PROVE ApiTypeOK'
  BY <1>1, <1>2, <1>6, EditsAreRows, InitialRowIsRow
     DEF BeginResume, Replies, Operations
<1>7. ASSUME NEW r \in Requests, BeginDelete(r) PROVE ApiTypeOK'
  BY <1>2, <1>7 DEF BeginDelete, Operations
<1>8. ASSUME NEW r \in Requests, NEW payload \in Payloads,
             BeginUpdate(r, payload)
      PROVE  ApiTypeOK'
  <2>1. [Idle("none") EXCEPT !.phase = "validating", !.op = "update",
                             !.payload = payload, !.loaded = monitor]
           \in RequestRecords
    BY IdleIsRecord DEF RequestRecords, Phases, Operations, Replies
  <2>. QED BY <1>8, <2>1 DEF BeginUpdate
<1>9. ASSUME NEW r \in Requests, ValidateDestination(r) PROVE ApiTypeOK'
  <2>1. CASE Answer(r, "422")
    BY <1>1, <1>9, <2>1 DEF ValidateDestination, Replies
  <2>2. CASE ~Answer(r, "422")
    <3>1. Updated(request[r].loaded, request[r].payload, now) \in Rows
      BY EditsAreRows DEF RequestRecords
    <3>2. request' \in [Requests -> RequestRecords]
      BY <1>9, <2>2, <3>1 DEF ValidateDestination, RequestRecords, Phases
    <3>. QED BY <1>9, <3>2 DEF ValidateDestination
  <2>. QED BY <2>1, <2>2
<1>10. ASSUME NEW r \in Requests, CommitEdit(r) PROVE ApiTypeOK'
  <2>1. Flush(monitor, request[r].loaded, request[r].edited) \in Rows
    BY FlushIsRow DEF RequestRecords
  <2>. QED BY <1>1, <1>10, <2>1 DEF CommitEdit, Replies
<1>11. ASSUME NEW r \in Requests, CommitDelete(r) PROVE ApiTypeOK'
  BY <1>1, <1>11 DEF CommitDelete, Replies
<1>12. ASSUME NEW r \in Requests, CommitFails(r) PROVE ApiTypeOK'
  BY <1>1, <1>12 DEF CommitFails, Replies
<1>13. CASE Tick
  BY <1>13, BoundsAssumption DEF Tick
<1>14. CASE ScheduleDue
  BY <1>14, EditsAreRows, InitialRowIsRow DEF ScheduleDue
<1>15. ASSUME NEW success \in BOOLEAN, RecordResult(success)
       PROVE  ApiTypeOK'
  BY <1>15, ResultIsRow DEF RecordResult
<1>16. CASE UNCHANGED apiVars
  BY <1>16 DEF apiVars
<1>. QED
  BY <1>3, <1>4, <1>5, <1>6, <1>7, <1>8, <1>9, <1>10, <1>11, <1>12,
     <1>13, <1>14, <1>15, <1>16 DEF ApiNext, RequestStep

\* Every value the variables take has its declared type: the state of every
\* request slot is a well-formed handler state and the row is a row.
THEOREM ApiTyping == ApiSpec => []ApiTypeOK
<1>1. ApiInit => ApiTypeOK
  BY InitialRowIsRow, IdleIsRecord, BoundsAssumption
     DEF ApiInit, ApiTypeOK, Replies
<1>. QED BY <1>1, ApiTypingInductive, PTL DEF ApiSpec

(***************************************************************************)
(* A monitor is paused exactly while it is disabled.                       *)
(***************************************************************************)

\* What a commit makes of the two columns, given that its request changed
\* both or neither.
LEMMA FlushKeepsPair ==
    ASSUME NEW row \in Rows, NEW q \in RequestRecords,
           SoundRow(row), SoundRow(q.loaded), SoundRow(q.edited), PairedEdit(q)
    PROVE  SoundRow(Flush(row, q.loaded, q.edited))
<1> DEFINE new == Flush(row, q.loaded, q.edited)
<1>1. q.loaded \in Rows /\ q.edited \in Rows
  BY DEF RequestRecords
<1>2. /\ new.status = IF q.edited.status # q.loaded.status
                       THEN q.edited.status ELSE row.status
      /\ new.is_enabled = IF q.edited.is_enabled # q.loaded.is_enabled
                           THEN q.edited.is_enabled ELSE row.is_enabled
  BY DEF Flush, Rows
<1>3. CASE q.edited.status # q.loaded.status
  BY <1>2, <1>3 DEF PairedEdit, SoundRow
<1>4. CASE q.edited.status = q.loaded.status
  <2>1. q.edited.is_enabled = q.loaded.is_enabled
    BY <1>1, <1>4 DEF SoundRow, Rows
  <2>. QED BY <1>2, <1>4, <2>1 DEF SoundRow
<1>. QED BY <1>3, <1>4

\* Each edit of a sound row is sound and changes the columns in pairs.
LEMMA EditsKeepPair ==
    ASSUME NEW row \in Rows, NEW payload \in Payloads, NEW t \in Nat,
           SoundRow(row)
    PROVE  /\ \A edited \in {Paused(row), Resumed(row, t), Updated(row, payload, t)} :
                  /\ SoundRow(edited)
                  /\ edited.status # row.status => edited.is_enabled # row.is_enabled
           /\ SoundRow(Rescheduled(row))
<1>1. /\ SoundRow(Paused(row))
      /\ Paused(row).status # row.status
            => Paused(row).is_enabled # row.is_enabled
  BY DEF Paused, SoundRow, Rows
<1>2. /\ SoundRow(Resumed(row, t))
      /\ Resumed(row, t).status # row.status
            => Resumed(row, t).is_enabled # row.is_enabled
  BY DEF Resumed, SoundRow, Rows
<1>3. /\ SoundRow(Updated(row, payload, t))
      /\ Updated(row, payload, t).status = row.status
  BY DEF Updated, SoundRow, Rows
<1>4. SoundRow(Rescheduled(row))
  BY DEF Rescheduled, SoundRow, Rows
<1>. QED BY <1>1, <1>2, <1>3, <1>4

\* A result never pauses or resumes a monitor.
LEMMA ResultKeepsPair ==
    ASSUME NEW row \in Rows, NEW success \in BOOLEAN, SoundRow(row)
    PROVE  /\ SoundRow(ResultApplied(row, success))
           /\ Transition(row, success) = "incident_recovery_ready"
                => SoundRow(Recovered(ResultApplied(row, success)))
<1>1. SoundRow(CountSuccess(row))
  BY DEF CountSuccess, SoundRow, Rows
<1>2. /\ SoundRow(CountFailure(row))
      /\ CountFailure(row).status = row.status
  BY DEF CountFailure, SoundRow, Rows
<1>3. FailureThresholdMet(CountFailure(row))
        => SoundRow([CountFailure(row) EXCEPT !.status = "down"])
  BY <1>2 DEF FailureThresholdMet, SoundRow, CountFailure, Rows
<1>4. SoundRow(ResultApplied(row, success))
  BY <1>1, <1>2, <1>3 DEF ResultApplied
<1>5. ASSUME Transition(row, success) = "incident_recovery_ready"
      PROVE  SoundRow(Recovered(ResultApplied(row, success)))
  <2>1. success /\ RecoveryReady(CountSuccess(row))
    BY <1>5 DEF Transition
  <2>2. ResultApplied(row, success) = CountSuccess(row)
    BY <2>1 DEF ResultApplied
  <2>3. CountSuccess(row).status = "down"
    BY <2>1 DEF RecoveryReady
  <2>4. CountSuccess(row) \in Rows
    <3>1. row.consecutive_successes + 1 \in Nat
      BY DEF Rows
    <3>. QED BY <3>1 DEF CountSuccess, Rows, Statuses
  <2>. QED BY <1>1, <2>2, <2>3, <2>4 DEF Recovered, SoundRow, Rows
<1>. QED BY <1>4, <1>5

LEMMA PauseInvInductive ==
    ASSUME ApiTypeOK, PauseInv, [ApiNext]_apiVars
    PROVE  PauseInv'
<1> USE DEF ApiTypeOK, PauseInv
<1>0. /\ SoundRow(InitialRow)
      /\ \A code \in Replies : Idle(code).loaded = InitialRow
                              /\ Idle(code).edited = InitialRow
                              /\ Idle(code).phase = "idle"
  BY InitialRowIsRow DEF SoundRow, InitialRow, Created, Idle
<1> DEFINE Kept(q) == /\ SoundRow(q.loaded) /\ SoundRow(q.edited)
                      /\ q.phase = "committing" => PairedEdit(q)
<1>1. ASSUME NEW r \in Requests, NEW code \in Replies, Answer(r, code)
      PROVE  \A s \in Requests : Kept(request'[s])
  BY <1>0, <1>1 DEF Answer
<1>2. ASSUME NEW r \in Requests, NEW op \in Operations, NEW row \in Rows,
             ReachCommit(r, op, row), SoundRow(row),
             row.status # monitor.status => row.is_enabled # monitor.is_enabled
      PROVE  \A s \in Requests : Kept(request'[s])
  BY <1>2, IdleIsRecord DEF ReachCommit, PairedEdit, RequestRecords, Replies
<1>3. ASSUME NEW r \in Requests, NEW payload \in Payloads,
             CreateMonitor(r, payload)
      PROVE  PauseInv'
  <2>1. SoundRow(Created(payload, now))
    BY DEF SoundRow, Created
  <2>. QED BY <1>1, <1>3, <2>1 DEF CreateMonitor, Replies
<1>4. ASSUME NEW r \in Requests, NotFound(r) PROVE PauseInv'
  BY <1>1, <1>4 DEF NotFound, Replies
<1>5. ASSUME NEW r \in Requests, BeginPause(r) PROVE PauseInv'
  BY <1>1, <1>2, <1>5, EditsAreRows, EditsKeepPair, InitialRowIsRow
     DEF BeginPause, Replies, Operations
<1>6. ASSUME NEW r \in Requests, BeginResume(r) PROVE PauseInv'
  BY <1>1, <1>2, <1>6, EditsAreRows, EditsKeepPair, InitialRowIsRow
     DEF BeginResume, Replies, Operations
<1>7. ASSUME NEW r \in Requests, BeginDelete(r) PROVE PauseInv'
  BY <1>2, <1>7 DEF BeginDelete, Operations
<1>8. ASSUME NEW r \in Requests, NEW payload \in Payloads,
             BeginUpdate(r, payload)
      PROVE  PauseInv'
  BY <1>0, <1>8, IdleIsRecord DEF BeginUpdate, RequestRecords, Replies
<1>9. ASSUME NEW r \in Requests, ValidateDestination(r) PROVE PauseInv'
  <2>1. CASE Answer(r, "422")
    BY <1>1, <1>9, <2>1 DEF ValidateDestination, Replies
  <2>2. CASE ~Answer(r, "422")
    <3> DEFINE new == Updated(request[r].loaded, request[r].payload, now)
    <3>1. SoundRow(new)
            /\ (new.status # request[r].loaded.status
                  => new.is_enabled # request[r].loaded.is_enabled)
      BY EditsKeepPair DEF RequestRecords
    <3> HIDE DEF new
    <3>2. \A s \in Requests : Kept(request'[s])
      BY <1>9, <2>2, <3>1 DEF ValidateDestination, RequestRecords, PairedEdit, new
    <3>. QED BY <1>9, <3>2 DEF ValidateDestination
  <2>. QED BY <2>1, <2>2
<1>10. ASSUME NEW r \in Requests, CommitEdit(r) PROVE PauseInv'
  <2>1. SoundRow(Flush(monitor, request[r].loaded, request[r].edited))
    BY <1>10, FlushKeepsPair DEF CommitEdit
  <2>. QED BY <1>1, <1>10, <2>1 DEF CommitEdit, Replies
<1>11. ASSUME NEW r \in Requests, CommitDelete(r) PROVE PauseInv'
  BY <1>1, <1>11 DEF CommitDelete, Replies
<1>12. ASSUME NEW r \in Requests, CommitFails(r) PROVE PauseInv'
  BY <1>1, <1>12 DEF CommitFails, Replies
<1>13. CASE Tick
  BY <1>13 DEF Tick
<1>14. CASE ScheduleDue
  BY <1>14, EditsKeepPair, InitialRowIsRow DEF ScheduleDue
<1>15. ASSUME NEW success \in BOOLEAN, RecordResult(success)
       PROVE  PauseInv'
  BY <1>15, ResultKeepsPair DEF RecordResult
<1>16. CASE UNCHANGED apiVars
  BY <1>16 DEF apiVars
<1>. QED
  BY <1>3, <1>4, <1>5, <1>6, <1>7, <1>8, <1>9, <1>10, <1>11, <1>12,
     <1>13, <1>14, <1>15, <1>16 DEF ApiNext, RequestStep

\* Whatever pause, resume, update and delete requests overlap, the stored row
\* is paused exactly while it is disabled.
THEOREM PausedIffDisabledHolds == ApiSpec => []PausedIffDisabled
<1>1. ApiInit => PauseInv
  BY InitialRowIsRow
     DEF ApiInit, PauseInv, SoundRow, InitialRow, Created, Idle, PairedEdit
<1>2. PauseInv => PausedIffDisabled
  BY DEF PauseInv, PausedIffDisabled, SoundRow
<1>. QED
  BY <1>1, <1>2, ApiTyping, PauseInvInductive, PTL DEF ApiSpec

(***************************************************************************)
(* The next check is within the longest interval.                          *)
(***************************************************************************)

\* NearRow speaks of the clock; Near is the same fact at a given instant.
Near(row, t) == row.next_check_at # NULL
                    => \E i \in Intervals : row.next_check_at <= t + i

LEMMA NearLater ==
    ASSUME NEW row \in Rows, NEW t \in Nat, NEW u \in Nat, t <= u, Near(row, t)
    PROVE  Near(row, u)
<1>1. CASE row.next_check_at = NULL
  BY <1>1 DEF Near
<1>2. CASE row.next_check_at # NULL
  <2>1. PICK i \in Intervals : row.next_check_at <= t + i
    BY <1>2 DEF Near
  <2>2. row.next_check_at \in Nat /\ i \in Nat
    BY <1>2, IntervalsAssumption DEF Rows
  <2>3. row.next_check_at <= u + i
    BY <2>1, <2>2
  <2>. QED BY <2>3 DEF Near
<1>. QED BY <1>1, <1>2

\* Every edit leaves the next check where it was, clears it, or sets it one
\* interval ahead.
LEMMA EditsAreNear ==
    ASSUME NEW row \in Rows, NEW payload \in Payloads, NEW t \in Nat, Near(row, t)
    PROVE  /\ Near(Created(payload, t), t)
           /\ Near(Paused(row), t)
           /\ Near(Resumed(row, t), t)
           /\ Near(Updated(row, payload, t), t)
           /\ SchedulerEligible(row, t) => Near(Rescheduled(row), t)
<1>1. \A j \in Intervals : t + j <= t + j
  BY IntervalAdds
<1>2. Near(Created(payload, t), t)
  BY <1>1 DEF Created, Near, Payloads
<1>3. Near(Paused(row), t)
  BY DEF Paused, Near, Rows
<1>4. Near(Resumed(row, t), t)
  BY <1>1 DEF Resumed, Near, Rows
<1>5. Near(Updated(row, payload, t), t)
  BY <1>1 DEF Updated, Near, Rows, Payloads
<1>6. ASSUME SchedulerEligible(row, t)
      PROVE  Near(Rescheduled(row), t)
  <2>1. /\ row.next_check_at \in Nat
        /\ row.next_check_at <= t
        /\ row.interval_seconds \in Intervals
        /\ row.interval_seconds \in Nat
    BY <1>6, IntervalsAssumption DEF SchedulerEligible, Rows
  <2>2. row.next_check_at + row.interval_seconds <= t + row.interval_seconds
    BY <2>1
  <2>3. Rescheduled(row).next_check_at = row.next_check_at + row.interval_seconds
    BY DEF Rescheduled, Rows
  <2>. QED BY <2>1, <2>2, <2>3 DEF Near
<1>. QED BY <1>2, <1>3, <1>4, <1>5, <1>6

LEMMA FlushIsNear ==
    ASSUME NEW row \in Rows, NEW loaded \in Rows, NEW edited \in Rows, NEW t \in Nat,
           Near(row, t), Near(edited, t)
    PROVE  Near(Flush(row, loaded, edited), t)
<1>1. Flush(row, loaded, edited).next_check_at \in
         {row.next_check_at, edited.next_check_at}
  BY DEF Flush, Rows
<1>. QED BY <1>1 DEF Near

LEMMA ResultIsNear ==
    ASSUME NEW row \in Rows, NEW success \in BOOLEAN
    PROVE  /\ ResultApplied(row, success).next_check_at = row.next_check_at
           /\ Recovered(ResultApplied(row, success)).next_check_at = row.next_check_at
<1>1. /\ CountSuccess(row).next_check_at = row.next_check_at
      /\ CountFailure(row).next_check_at = row.next_check_at
      /\ [CountFailure(row) EXCEPT !.status = "down"].next_check_at
            = row.next_check_at
  BY DEF CountSuccess, CountFailure, Rows
<1>2. ResultApplied(row, success).next_check_at = row.next_check_at
  BY <1>1 DEF ResultApplied
<1>3. ResultApplied(row, success) \in Rows
  BY ResultIsRow
<1>. QED BY <1>2, <1>3 DEF Recovered, Rows

LEMMA HorizonInvInductive ==
    ASSUME ApiTypeOK, HorizonInv, [ApiNext]_apiVars
    PROVE  HorizonInv'
<1> USE DEF ApiTypeOK
<1>0. /\ Near(monitor, now)
      /\ \A r \in Requests : Near(request[r].loaded, now) /\ Near(request[r].edited, now)
  BY DEF HorizonInv, NearRow, Near
<1> DEFINE NearAll(q) == Near(q.loaded, now) /\ Near(q.edited, now)
<1>1. /\ Near(InitialRow, now)
      /\ \A code \in Replies : NearAll(Idle(code))
  <2>1. Near(InitialRow, 0) /\ InitialRow \in Rows
    <3>1. \A j \in Intervals : 0 + j <= 0 + j
      BY IntervalAdds
    <3>. QED BY <3>1, InitialRowIsRow DEF InitialRow, Created, Near, Payloads
  <2>2. Near(InitialRow, now)
    BY <2>1, NearLater
  <2>. QED BY <2>2 DEF Idle
<1>2. (Near(monitor', now) /\ (\A r \in Requests : NearAll(request'[r])) /\ now' = now)
         => HorizonInv'
  BY DEF HorizonInv, NearRow, Near
<1>3. ASSUME NEW r \in Requests, NEW code \in Replies, Answer(r, code)
      PROVE  \A s \in Requests : NearAll(request'[s])
  BY <1>0, <1>1, <1>3 DEF Answer
<1>4. ASSUME NEW r \in Requests, NEW op \in Operations, NEW row \in Rows,
             ReachCommit(r, op, row), Near(row, now)
      PROVE  \A s \in Requests : NearAll(request'[s])
  BY <1>0, <1>4, IdleIsRecord DEF ReachCommit, RequestRecords, Replies
<1>5. ASSUME NEW r \in Requests, NEW payload \in Payloads,
             CreateMonitor(r, payload)
      PROVE  HorizonInv'
  <2>1. Near(Created(payload, now), now)
    BY <1>0, EditsAreNear
  <2>. QED BY <1>0, <1>2, <1>3, <1>5, <2>1 DEF CreateMonitor, Replies
<1>6. ASSUME NEW r \in Requests, NotFound(r) PROVE HorizonInv'
  BY <1>0, <1>2, <1>3, <1>6 DEF NotFound, Replies
<1>7. ASSUME NEW r \in Requests, BeginPause(r) PROVE HorizonInv'
  BY <1>0, <1>2, <1>3, <1>4, <1>7, EditsAreRows, EditsAreNear, InitialRowIsRow
     DEF BeginPause, Replies, Operations
<1>8. ASSUME NEW r \in Requests, BeginResume(r) PROVE HorizonInv'
  BY <1>0, <1>2, <1>3, <1>4, <1>8, EditsAreRows, EditsAreNear, InitialRowIsRow
     DEF BeginResume, Replies, Operations
<1>9. ASSUME NEW r \in Requests, BeginDelete(r) PROVE HorizonInv'
  BY <1>0, <1>2, <1>4, <1>9 DEF BeginDelete, Operations
<1>10. ASSUME NEW r \in Requests, NEW payload \in Payloads,
              BeginUpdate(r, payload)
       PROVE  HorizonInv'
  <2>1. \A s \in Requests : NearAll(request'[s])
    BY <1>0, <1>1, <1>10, IdleIsRecord DEF BeginUpdate, RequestRecords, Replies
  <2>. QED BY <1>0, <1>2, <1>10, <2>1 DEF BeginUpdate
<1>11. ASSUME NEW r \in Requests, ValidateDestination(r) PROVE HorizonInv'
  <2>1. CASE Answer(r, "422")
    BY <1>0, <1>2, <1>3, <1>11, <2>1 DEF ValidateDestination, Replies
  <2>2. CASE ~Answer(r, "422")
    <3> DEFINE new == Updated(request[r].loaded, request[r].payload, now)
    <3>1. Near(new, now)
      BY <1>0, EditsAreNear DEF RequestRecords
    <3> HIDE DEF new
    <3>2. \A s \in Requests : NearAll(request'[s])
      BY <1>0, <1>11, <2>2, <3>1 DEF ValidateDestination, RequestRecords, new
    <3>. QED BY <1>0, <1>2, <1>11, <3>2 DEF ValidateDestination
  <2>. QED BY <2>1, <2>2
<1>12. ASSUME NEW r \in Requests, CommitEdit(r) PROVE HorizonInv'
  <2>1. Near(Flush(monitor, request[r].loaded, request[r].edited), now)
    BY <1>0, FlushIsNear DEF RequestRecords
  <2>. QED BY <1>0, <1>2, <1>3, <1>12, <2>1 DEF CommitEdit, Replies
<1>13. ASSUME NEW r \in Requests, CommitDelete(r) PROVE HorizonInv'
  BY <1>0, <1>2, <1>3, <1>13 DEF CommitDelete, Replies
<1>14. ASSUME NEW r \in Requests, CommitFails(r) PROVE HorizonInv'
  BY <1>0, <1>2, <1>3, <1>14 DEF CommitFails, Replies
<1>15. CASE Tick
  <2>1. now <= now' /\ now' \in Nat
    BY <1>15 DEF Tick
  <2>2. Near(monitor, now')
    BY <1>0, <2>1, NearLater
  <2>3. \A r \in Requests : Near(request[r].loaded, now') /\ Near(request[r].edited, now')
    BY <1>0, <2>1, NearLater DEF RequestRecords
  <2>. QED BY <1>15, <2>2, <2>3 DEF Tick, HorizonInv, NearRow, Near
<1>16. CASE ScheduleDue
  BY <1>0, <1>2, <1>16, EditsAreNear, InitialRowIsRow DEF ScheduleDue
<1>17. ASSUME NEW success \in BOOLEAN, RecordResult(success)
       PROVE  HorizonInv'
  <2>1. monitor'.next_check_at = monitor.next_check_at
    BY <1>17, ResultIsNear DEF RecordResult
  <2>. QED BY <1>0, <1>2, <1>17, <2>1 DEF RecordResult, Near
<1>18. CASE UNCHANGED apiVars
  BY <1>0, <1>2, <1>18 DEF apiVars
<1>. QED
  BY <1>5, <1>6, <1>7, <1>8, <1>9, <1>10, <1>11, <1>12, <1>13, <1>14,
     <1>15, <1>16, <1>17, <1>18 DEF ApiNext, RequestStep

\* However late a request commits what it computed from an old row and an old
\* clock, the next check of the monitor is at most one interval away.
THEOREM NextCheckWithinHorizonHolds == ApiSpec => []NextCheckWithinHorizon
<1>1. ApiInit => HorizonInv
  <2>1. \A j \in Intervals : 0 + j <= 0 + j
    BY IntervalAdds
  <2>. QED
    BY <2>1, InitialRowIsRow
       DEF ApiInit, HorizonInv, NearRow, InitialRow, Created, Idle, Payloads
<1>2. HorizonInv => NextCheckWithinHorizon
  BY DEF HorizonInv, NearRow, NextCheckWithinHorizon
<1>. QED
  BY <1>1, <1>2, ApiTyping, HorizonInvInductive, PTL DEF ApiSpec

(***************************************************************************)
(* No request overwrites a result.                                         *)
(***************************************************************************)

\* What the edits do to the columns the workers write.
LEMMA EditsSpareResults ==
    ASSUME NEW row \in Rows, NEW payload \in Payloads, NEW t \in Nat
    PROVE  \A edited \in {row, Paused(row), Resumed(row, t), Updated(row, payload, t)} :
               /\ edited.consecutive_failures = row.consecutive_failures
               /\ edited.consecutive_successes = row.consecutive_successes
               /\ edited.status \in {row.status, "paused", "unknown"}
<1>1. /\ Paused(row).consecutive_failures = row.consecutive_failures
      /\ Paused(row).consecutive_successes = row.consecutive_successes
      /\ Paused(row).status = "paused"
  BY DEF Paused, Rows
<1>2. /\ Resumed(row, t).consecutive_failures = row.consecutive_failures
      /\ Resumed(row, t).consecutive_successes = row.consecutive_successes
      /\ Resumed(row, t).status \in {row.status, "unknown"}
  BY DEF Resumed, Rows
<1>3. /\ Updated(row, payload, t).consecutive_failures = row.consecutive_failures
      /\ Updated(row, payload, t).consecutive_successes = row.consecutive_successes
      /\ Updated(row, payload, t).status = row.status
  BY DEF Updated, Rows
<1>. QED BY <1>1, <1>2, <1>3

\* EditsInv, of one request.
Spared(q) ==
    q.phase = "committing" =>
        /\ q.edited.consecutive_failures = q.loaded.consecutive_failures
        /\ q.edited.consecutive_successes = q.loaded.consecutive_successes
        /\ q.edited.status \in {q.loaded.status, "paused", "unknown"}

LEMMA EditsInvInductive ==
    ASSUME ApiTypeOK, EditsInv, [ApiNext]_apiVars
    PROVE  EditsInv'
<1> USE DEF ApiTypeOK
<1>0. \A r \in Requests : Spared(request[r])
  BY DEF EditsInv, Spared
<1>1. (\A r \in Requests : Spared(request'[r])) => EditsInv'
  BY DEF EditsInv, Spared
<1>2. ASSUME NEW r \in Requests, NEW code \in Replies, Answer(r, code)
      PROVE  EditsInv'
  <2>1. Idle(code).phase = "idle"
    BY DEF Idle
  <2>. QED BY <1>0, <1>1, <1>2, <2>1 DEF Answer, Spared
<1>3. ASSUME NEW r \in Requests, NEW op \in Operations, NEW payload \in Payloads,
             NEW row \in {monitor, Paused(monitor), Resumed(monitor, now)},
             ReachCommit(r, op, row)
      PROVE  EditsInv'
  <2>1. /\ row.consecutive_failures = monitor.consecutive_failures
        /\ row.consecutive_successes = monitor.consecutive_successes
        /\ row.status \in {monitor.status, "paused", "unknown"}
    BY EditsSpareResults
  <2>2. row \in Rows
    BY EditsAreRows
  <2>3. Spared([Idle("none") EXCEPT !.phase = "committing", !.op = op,
                                    !.loaded = monitor, !.edited = row])
    BY <2>1, <2>2, IdleIsRecord DEF Spared, RequestRecords, Replies
  <2>. QED BY <1>0, <1>1, <1>3, <2>3 DEF ReachCommit
<1>4. PICK payload0 \in Payloads : TRUE
  BY InitialRowIsRow
<1>5. ASSUME NEW r \in Requests, NEW payload \in Payloads,
             CreateMonitor(r, payload)
      PROVE  EditsInv'
  BY <1>2, <1>5 DEF CreateMonitor, Replies
<1>6. ASSUME NEW r \in Requests, NotFound(r) PROVE EditsInv'
  BY <1>2, <1>6 DEF NotFound, Replies
<1>7. ASSUME NEW r \in Requests, BeginPause(r) PROVE EditsInv'
  BY <1>2, <1>3, <1>4, <1>7 DEF BeginPause, Replies, Operations
<1>8. ASSUME NEW r \in Requests, BeginResume(r) PROVE EditsInv'
  BY <1>2, <1>3, <1>4, <1>8 DEF BeginResume, Replies, Operations
<1>9. ASSUME NEW r \in Requests, BeginDelete(r) PROVE EditsInv'
  BY <1>3, <1>4, <1>9 DEF BeginDelete, Operations
<1>10. ASSUME NEW r \in Requests, NEW payload \in Payloads,
              BeginUpdate(r, payload)
       PROVE  EditsInv'
  <2>1. Spared([Idle("none") EXCEPT !.phase = "validating", !.op = "update",
                                    !.payload = payload, !.loaded = monitor])
    BY IdleIsRecord DEF Spared, RequestRecords, Replies
  <2>. QED BY <1>0, <1>1, <1>10, <2>1 DEF BeginUpdate
<1>11. ASSUME NEW r \in Requests, ValidateDestination(r) PROVE EditsInv'
  <2>1. CASE Answer(r, "422")
    BY <1>2, <2>1 DEF Replies
  <2>2. CASE ~Answer(r, "422")
    <3> DEFINE new == Updated(request[r].loaded, request[r].payload, now)
    <3>1. /\ new.consecutive_failures = request[r].loaded.consecutive_failures
          /\ new.consecutive_successes = request[r].loaded.consecutive_successes
          /\ new.status \in {request[r].loaded.status, "paused", "unknown"}
      BY EditsSpareResults DEF RequestRecords
    <3> HIDE DEF new
    <3>2. Spared(request'[r])
      BY <1>11, <2>2, <3>1 DEF ValidateDestination, RequestRecords, Spared, new
    <3>3. \A s \in Requests : s # r => request'[s] = request[s]
      BY <1>11, <2>2 DEF ValidateDestination
    <3>. QED BY <1>0, <1>1, <3>2, <3>3
  <2>. QED BY <2>1, <2>2
<1>12. ASSUME NEW r \in Requests, CommitEdit(r) PROVE EditsInv'
  BY <1>2, <1>12 DEF CommitEdit, Replies
<1>13. ASSUME NEW r \in Requests, CommitDelete(r) PROVE EditsInv'
  BY <1>2, <1>13 DEF CommitDelete, Replies
<1>14. ASSUME NEW r \in Requests, CommitFails(r) PROVE EditsInv'
  BY <1>2, <1>14 DEF CommitFails, Replies
<1>15. CASE Tick \/ ScheduleDue \/ \E success \in BOOLEAN : RecordResult(success)
  BY <1>0, <1>1, <1>15 DEF Tick, ScheduleDue, RecordResult
<1>16. CASE UNCHANGED apiVars
  BY <1>0, <1>1, <1>16 DEF apiVars
<1>. QED
  BY <1>5, <1>6, <1>7, <1>8, <1>9, <1>10, <1>11, <1>12, <1>13, <1>14,
     <1>15, <1>16 DEF ApiNext, RequestStep

\* What a commit does to the columns the workers write.
LEMMA FlushSparesResults ==
    ASSUME NEW row \in Rows, NEW q \in RequestRecords, Spared(q),
           q.phase = "committing"
    PROVE  LET new == Flush(row, q.loaded, q.edited)
           IN  /\ new.consecutive_failures = row.consecutive_failures
               /\ new.consecutive_successes = row.consecutive_successes
               /\ new.status \in {row.status, "paused", "unknown"}
BY DEF Flush, Spared, RequestRecords, Rows

LEMMA RequestStepSparesResults ==
    ASSUME ApiTypeOK, EditsInv, presence = "stored",
           NEW r \in Requests, RequestStep(r)
    PROVE  /\ monitor'.consecutive_failures = monitor.consecutive_failures
           /\ monitor'.consecutive_successes = monitor.consecutive_successes
           /\ monitor'.status \in {monitor.status, "paused", "unknown"}
<1>1. CASE CommitEdit(r)
  <2>1. Spared(request[r]) /\ request[r] \in RequestRecords /\ monitor \in Rows
    BY DEF EditsInv, Spared, ApiTypeOK
  <2>. QED BY <1>1, <2>1, FlushSparesResults DEF CommitEdit
<1>2. CASE ~CommitEdit(r)
  <2>1. UNCHANGED monitor
    BY <1>2 DEF RequestStep, CreateMonitor, NotFound, BeginPause, BeginResume,
                BeginDelete, BeginUpdate, ValidateDestination, CommitDelete,
                CommitFails
  <2>. QED BY <2>1
<1>. QED BY <1>1, <1>2

\* However old the object a request commits, the streaks and the up and down
\* the workers recorded meanwhile survive it.
THEOREM ResultsSurviveRequestsHolds == ApiSpec => ResultsSurviveRequests
<1>1. ApiInit => EditsInv
  BY DEF ApiInit, EditsInv, Idle
<1>2. ASSUME ApiTypeOK, EditsInv, [ApiNext]_apiVars
      PROVE  [(presence = "stored" /\ \E r \in Requests : request'[r] # request[r])
                => /\ monitor'.consecutive_failures = monitor.consecutive_failures
                   /\ monitor'.consecutive_successes = monitor.consecutive_successes
                   /\ monitor'.status \in {monitor.status, "paused", "unknown"}]_apiVars
  <2>1. CASE \E r \in Requests : RequestStep(r)
    BY <1>2, <2>1, RequestStepSparesResults
  <2>2. CASE UNCHANGED request
    BY <2>2
  <2>. QED BY <1>2, <2>1, <2>2 DEF ApiNext, Tick, ScheduleDue, RecordResult, apiVars
<1>. QED
  BY <1>1, <1>2, ApiTyping, EditsInvInductive, PTL
     DEF ApiSpec, ResultsSurviveRequests

(***************************************************************************)
(* Deletion.                                                               *)
(***************************************************************************)

\* A request that is being served has not been answered.
BusyInv ==
    \A r \in Requests : request[r].phase # "idle" => request[r].reply = "none"

\* What a step of one request does to its slot.
LEMMA RequestStepSlots ==
    ASSUME ApiTypeOK, BusyInv, NEW r \in Requests, RequestStep(r)
    PROVE  /\ \A q \in Requests : q # r => request'[q] = request[q]
           /\ request'[r].phase # "idle" => request'[r].reply = "none"
           /\ request[r].phase = "committing" =>
                 CommitEdit(r) \/ CommitDelete(r) \/ CommitFails(r)
<1> USE DEF ApiTypeOK
<1>1. ASSUME NEW code, Answer(r, code)
      PROVE  /\ \A q \in Requests : q # r => request'[q] = request[q]
             /\ request'[r].phase = "idle"
  BY <1>1 DEF Answer, Idle
<1>2. ASSUME NEW op, NEW row, ReachCommit(r, op, row)
      PROVE  /\ \A q \in Requests : q # r => request'[q] = request[q]
             /\ request'[r].reply = "none"
  <2>1. [Idle("none") EXCEPT !.phase = "committing", !.op = op,
                             !.loaded = monitor, !.edited = row].reply = "none"
    BY DEF Idle
  <2>. QED BY <1>2, <2>1 DEF ReachCommit
<1>3. ASSUME NEW payload \in Payloads, BeginUpdate(r, payload)
      PROVE  /\ \A q \in Requests : q # r => request'[q] = request[q]
             /\ request'[r].reply = "none"
  <2>1. [Idle("none") EXCEPT !.phase = "validating", !.op = "update",
                             !.payload = payload, !.loaded = monitor].reply = "none"
    BY DEF Idle
  <2>. QED BY <1>3, <2>1 DEF BeginUpdate
<1>4. ASSUME ValidateDestination(r), ~Answer(r, "422")
      PROVE  /\ \A q \in Requests : q # r => request'[q] = request[q]
             /\ request'[r].reply = "none"
  <2>1. request[r].reply = "none"
    BY <1>4 DEF ValidateDestination, BusyInv
  <2>. QED BY <1>4, <2>1 DEF ValidateDestination, RequestRecords
<1>5. \/ \E code \in Replies : Answer(r, code)
      \/ \E op \in Operations : \E row : ReachCommit(r, op, row)
      \/ \E payload \in Payloads : BeginUpdate(r, payload)
      \/ ValidateDestination(r) /\ ~Answer(r, "422")
  BY DEF RequestStep, CreateMonitor, NotFound, BeginPause, BeginResume, BeginDelete,
         ValidateDestination, CommitEdit, CommitDelete, CommitFails, Replies, Operations
<1>6. request[r].phase = "committing" =>
          CommitEdit(r) \/ CommitDelete(r) \/ CommitFails(r)
  BY DEF RequestStep, CreateMonitor, NotFound, BeginPause, BeginResume, BeginDelete,
         BeginUpdate, ValidateDestination, CanRead
<1>. QED BY <1>1, <1>2, <1>3, <1>4, <1>5, <1>6

\* A commit that loaded the row before it was deleted neither brings it back
\* nor reports success for the columns it wanted to write.
THEOREM DeletionIsFinalHolds == ApiSpec => DeletionIsFinal
<1>1. ApiInit => BusyInv
  BY DEF ApiInit, BusyInv, Idle
<1>2. ASSUME ApiTypeOK, BusyInv, [ApiNext]_apiVars
      PROVE  BusyInv'
  <2>1. ASSUME NEW r \in Requests, RequestStep(r) PROVE BusyInv'
    BY <1>2, <2>1, RequestStepSlots DEF BusyInv
  <2>2. CASE UNCHANGED request
    BY <1>2, <2>2 DEF BusyInv
  <2>. QED BY <1>2, <2>1, <2>2 DEF ApiNext, Tick, ScheduleDue, RecordResult, apiVars
<1>3. ASSUME ApiTypeOK, BusyInv, [ApiNext]_apiVars, presence = "deleted"
      PROVE  /\ presence' = "deleted"
             /\ \A r \in Requests :
                  (request[r].edited # request[r].loaded
                       /\ request[r].phase = "committing")
                    => request'[r].reply # "200"
  <2>1. ASSUME NEW r \in Requests, RequestStep(r) PROVE presence' = "deleted"
    BY <1>3, <2>1 DEF RequestStep, CreateMonitor, NotFound, BeginPause, BeginResume,
                      BeginDelete, BeginUpdate, ValidateDestination, CommitEdit,
                      CommitDelete, CommitFails
  <2>2. ASSUME NEW r \in Requests, RequestStep(r), NEW q \in Requests,
               request[q].edited # request[q].loaded, request[q].phase = "committing"
        PROVE  request'[q].reply # "200"
    <3>1. CASE q # r
      BY <1>3, <2>2, <3>1, RequestStepSlots DEF BusyInv
    <3>2. CASE q = r
      <4>1. CommitEdit(q) \/ CommitDelete(q) \/ CommitFails(q)
        BY <1>3, <2>2, <3>2, RequestStepSlots
      <4>2. Answer(q, "503") \/ Answer(q, "204")
        BY <1>3, <2>2, <4>1 DEF CommitEdit, CommitDelete, CommitFails
      <4>. QED BY <1>3, <4>2 DEF Answer, Idle, ApiTypeOK
    <3>. QED BY <3>1, <3>2
  <2>3. CASE UNCHANGED <<presence, request>>
    BY <1>3, <2>3 DEF BusyInv
  <2>. QED BY <1>3, <2>1, <2>2, <2>3 DEF ApiNext, Tick, ScheduleDue, RecordResult, apiVars
<1>4. ApiTypeOK /\ BusyInv /\ [ApiNext]_apiVars
        => [presence = "deleted" =>
              /\ presence' = "deleted"
              /\ \A r \in Requests :
                   (request[r].edited # request[r].loaded
                        /\ request[r].phase = "committing")
                     => request'[r].reply # "200"]_apiVars
  BY <1>3
<1>. QED BY <1>1, <1>2, <1>4, ApiTyping, PTL DEF ApiSpec, DeletionIsFinal
=============================================================================
