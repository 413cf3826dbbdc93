------------------------ MODULE EmailDeliveryProofs ------------------------
(***************************************************************************)
(* Email delivery for any number of deliveries and workers, any attempts   *)
(* and delays, and any faults.                                             *)
(*                                                                         *)
(* Neither the count of handovers nor the back-off is inductive.  The      *)
(* count needs where each worker is between its claim and its second       *)
(* transaction, and that no other worker is there with the same delivery,  *)
(* which rests on the row: it is "sending" (or gone) for as long.  The     *)
(* back-off needs what the row says while it waits, and that no recorded   *)
(* time lies ahead of the clock.                                           *)
(***************************************************************************)
EXTENDS EmailDelivery, QueueLemmas, FiniteSetTheorems, TLAPS

DeliveryOf(w) == sender[w].message.delivery

\* Between the claim and the transaction that records its outcome.
Attempting(w) == sender[w].phase \in {"claimed", "accepted", "refused"}

\* What a row says about its attempts.
RowsAgree ==
    \A d \in Deliveries :
        /\ row[d].status \in {"absent", "pending"} => row[d].attempt_count = 0
        /\ row[d].status \in {"sending", "retrying"} =>
               row[d].attempt_count >= 1 /\ row[d].last_attempt_at # NULL
        /\ row[d].last_attempt_at # NULL => row[d].last_attempt_at <= clock
        /\ row[d].status = "retrying" =>
               /\ row[d].attempt_count < MaxAttempts
               /\ row[d].next_retry_at # NULL
               /\ row[d].next_retry_at >=
                      row[d].last_attempt_at + RetryDelay(row[d].attempt_count)

\* A row is one worker's while its attempt is under way.
AttemptsAreAlone ==
    \A w \in Workers :
        /\ sender[w].attempted_at <= clock
        /\ Attempting(w) =>
               /\ row[DeliveryOf(w)].status \in {"sending", "gone"}
               /\ \A v \in Workers \ {w} :
                      Attempting(v) => DeliveryOf(v) # DeliveryOf(w)

\* Acknowledged handovers, by the row and by the worker.
HandoversAgree ==
    /\ \A d \in Deliveries :
        /\ handed[d] \in {unclear[d], unclear[d] + 1}
        /\ row[d].status = "delivered" => handed[d] = unclear[d] + 1
        /\ row[d].status \in {"absent", "pending", "retrying", "failed"} =>
               handed[d] = unclear[d]
    /\ \A w \in Workers :
        /\ sender[w].phase \in {"claimed", "refused"} =>
               handed[DeliveryOf(w)] = unclear[DeliveryOf(w)]
        /\ sender[w].phase = "accepted" =>
               handed[DeliveryOf(w)] = unclear[DeliveryOf(w)] + 1

IInv ==
    /\ EmailTypeOK
    /\ RowsAgree
    /\ AttemptsAreAlone
    /\ HandoversAgree

-----------------------------------------------------------------------------
(* The delays, and the records of rows and workers.                           *)

\* A power of two counts the subsets of a set, which is how the provers know that
\* it is a natural number.
LEMMA PowersOfTwo == \A n \in Nat : 2 ^ n \in Nat
<1> SUFFICES ASSUME NEW n \in Nat
             PROVE  2 ^ n \in Nat
  OBVIOUS
<1>1. IsFiniteSet(1..n) /\ Cardinality(1..n) = n
  BY FS_Interval
<1>2. Cardinality(SUBSET (1..n)) = 2 ^ n /\ IsFiniteSet(SUBSET (1..n))
  BY <1>1, FS_SUBSET
<1> QED BY <1>2, FS_CardinalityType

LEMMA RetryDelayIsNat ==
  ASSUME NEW attempt_count \in Nat \ {0}
  PROVE  RetryDelay(attempt_count) \in Nat
<1> DEFINE power == 2 ^ (attempt_count - 1)
<1>1. power \in Nat
  BY PowersOfTwo
<1> HIDE DEF power
<1>2. BaseDelay * power \in Nat
  BY <1>1, EmailAssumption
<1> QED BY <1>2, EmailAssumption DEF RetryDelay, power

LEMMA NoWorkIsWork ==
  /\ NoWork \in SenderRecords
  /\ NoWork.phase = "idle"
  /\ NoWork.attempted_at = 0
<1>1. (CHOOSE d \in Deliveries : TRUE) \in Deliveries
  BY EmailAssumption
<1> QED BY <1>1 DEF NoWork, SenderRecords, SenderPhases, Messages

\* What Working makes of the worker's record.
LEMMA WorkingEffect ==
  ASSUME EmailTypeOK, NEW w \in Workers, NEW phase \in SenderPhases,
         NEW message \in Messages, NEW attempted_at \in Nat,
         NEW temporary \in BOOLEAN, NEW delay \in Nat,
         Working(w, phase, message, attempted_at, temporary, delay)
  PROVE  /\ sender' \in [Workers -> SenderRecords]
         /\ sender'[w].phase = phase
         /\ sender'[w].message = message
         /\ sender'[w].attempted_at = attempted_at
         /\ sender'[w].delay = delay
         /\ \A v \in Workers \ {w} : sender'[v] = sender[v]
<1> DEFINE new == [phase |-> phase, message |-> message, attempted_at |-> attempted_at,
                   temporary |-> temporary, delay |-> delay]
<1>1. /\ new \in SenderRecords
      /\ new.phase = phase
      /\ new.message = message
      /\ new.attempted_at = attempted_at
      /\ new.delay = delay
  BY DEF SenderRecords
<1>2. sender \in [Workers -> SenderRecords] /\ sender' = [sender EXCEPT ![w] = new]
  BY DEF EmailTypeOK, Working
<1> HIDE DEF new
<1>3. /\ sender' \in [Workers -> SenderRecords]
      /\ sender'[w] = new
      /\ \A v \in Workers \ {w} : sender'[v] = sender[v]
  BY <1>1, <1>2
<1> QED BY <1>1, <1>3

LEMMA IdleEffect ==
  ASSUME EmailTypeOK, NEW w \in Workers, Idle(w)
  PROVE  /\ sender' \in [Workers -> SenderRecords]
         /\ sender'[w].phase = "idle"
         /\ sender'[w].attempted_at = 0
         /\ \A v \in Workers \ {w} : sender'[v] = sender[v]
<1> QED BY NoWorkIsWork DEF Idle, EmailTypeOK

\* What a worker has in hand.
LEMMA SenderFields ==
  ASSUME EmailTypeOK, NEW w \in Workers
  PROVE  /\ sender[w].phase \in SenderPhases
         /\ sender[w].message \in Messages
         /\ DeliveryOf(w) \in Deliveries
         /\ sender[w].attempted_at \in Nat
         /\ sender[w].delay \in Nat
BY DEF EmailTypeOK, SenderRecords, Messages, DeliveryOf

\* It goes on with the same message.
LEMMA GoesEffect ==
  ASSUME EmailTypeOK, NEW w \in Workers, NEW phase \in SenderPhases,
         NEW temporary \in BOOLEAN, NEW delay \in Nat, Goes(w, phase, temporary, delay)
  PROVE  /\ sender' \in [Workers -> SenderRecords]
         /\ sender'[w].phase = phase
         /\ sender'[w].message = sender[w].message
         /\ sender'[w].attempted_at = sender[w].attempted_at
         /\ sender'[w].delay = delay
         /\ \A v \in Workers \ {w} : sender'[v] = sender[v]
<1>1. Working(w, phase, sender[w].message, sender[w].attempted_at, temporary, delay)
  BY DEF Goes
<1> QED BY <1>1, SenderFields, WorkingEffect

LEMMA RowFields ==
  ASSUME EmailTypeOK, NEW d \in Deliveries
  PROVE  /\ row[d].status \in RowStatuses
         /\ row[d].attempt_count \in 0..MaxAttempts
         /\ row[d].last_attempt_at \in Nat \cup {NULL}
         /\ row[d].next_retry_at \in Nat \cup {NULL}
BY DEF EmailTypeOK, DeliveryRows

\* What an update makes of the row of d.
RowBecomes(d, status, attempt_count, last_attempt_at, next_retry_at) ==
    row' = [row EXCEPT ![d] =
        [status |-> status, attempt_count |-> attempt_count,
         last_attempt_at |-> last_attempt_at, next_retry_at |-> next_retry_at]]

LEMMA RowEffect ==
  ASSUME EmailTypeOK, NEW d \in Deliveries, NEW status \in RowStatuses,
         NEW attempt_count \in 0..MaxAttempts, NEW last_attempt_at \in Nat \cup {NULL},
         NEW next_retry_at \in Nat \cup {NULL},
         RowBecomes(d, status, attempt_count, last_attempt_at, next_retry_at)
  PROVE  /\ row' \in [Deliveries -> DeliveryRows]
         /\ row'[d].status = status
         /\ row'[d].attempt_count = attempt_count
         /\ row'[d].last_attempt_at = last_attempt_at
         /\ row'[d].next_retry_at = next_retry_at
         /\ \A e \in Deliveries \ {d} : row'[e] = row[e]
<1> DEFINE new == [status |-> status, attempt_count |-> attempt_count,
                   last_attempt_at |-> last_attempt_at, next_retry_at |-> next_retry_at]
<1>1. /\ new \in DeliveryRows
      /\ new.status = status
      /\ new.attempt_count = attempt_count
      /\ new.last_attempt_at = last_attempt_at
      /\ new.next_retry_at = next_retry_at
  BY DEF DeliveryRows
<1>2. row \in [Deliveries -> DeliveryRows] /\ row' = [row EXCEPT ![d] = new]
  BY DEF EmailTypeOK, RowBecomes
<1> HIDE DEF new
<1>3. /\ row' \in [Deliveries -> DeliveryRows]
      /\ row'[d] = new
      /\ \A e \in Deliveries \ {d} : row'[e] = row[e]
  BY <1>1, <1>2
<1> QED BY <1>1, <1>3

\* An update by With leaves the attempts alone.
LEMMA WithEffect ==
  ASSUME EmailTypeOK, NEW d \in Deliveries, NEW status \in RowStatuses,
         NEW next_retry_at \in Nat \cup {NULL}, row' = With(d, status, next_retry_at)
  PROVE  /\ row' \in [Deliveries -> DeliveryRows]
         /\ row'[d].status = status
         /\ row'[d].attempt_count = row[d].attempt_count
         /\ row'[d].last_attempt_at = row[d].last_attempt_at
         /\ row'[d].next_retry_at = next_retry_at
         /\ \A e \in Deliveries \ {d} : row'[e] = row[e]
<1>1. RowBecomes(d, status, row[d].attempt_count, row[d].last_attempt_at, next_retry_at)
  BY DEF With, RowBecomes
<1> QED BY <1>1, RowFields, RowEffect

\* Publishing and putting back a message keep the queue's type.
LEMMA QueueEffect ==
  ASSUME EmailTypeOK, NEW message \in Messages
  PROVE  /\ queue' = queue (+) SetToBag({message}) =>
               IsABag(queue') /\ BagToSet(queue') \subseteq Messages
         /\ queue' = queue (-) SetToBag({message}) =>
               IsABag(queue') /\ BagToSet(queue') \subseteq Messages
<1>1. IsABag(queue) /\ BagToSet(queue) \subseteq Messages
  BY DEF EmailTypeOK
<1>2. ASSUME queue' = queue (+) SetToBag({message})
      PROVE  IsABag(queue') /\ BagToSet(queue') \subseteq Messages
  <2>1. IsABag(queue') /\ BagToSet(queue') = BagToSet(queue) \cup {message}
    BY <1>1, <1>2, AddMessage
  <2> QED BY <1>1, <2>1
<1>3. ASSUME queue' = queue (-) SetToBag({message})
      PROVE  IsABag(queue') /\ BagToSet(queue') \subseteq Messages
  <2>1. IsABag(queue') /\ BagToSet(queue') \subseteq BagToSet(queue)
    BY <1>1, <1>3, TakeMessage
  <2> QED BY <1>1, <2>1
<1> QED BY <1>2, <1>3
-----------------------------------------------------------------------------
(* The rest of the system                                                     *)

LEMMA TickKeeps ==
  ASSUME IInv, Tick
  PROVE  IInv'
<1> USE DEF IInv
<1>1. /\ clock' = clock + 1
      /\ clock \in Nat
      /\ clock' \in 0..MaxTime
      /\ UNCHANGED <<row, queue, sender, handed, unclear, harmed, faults>>
  BY EmailAssumption DEF Tick, EmailTypeOK
<1>2. EmailTypeOK'
  BY <1>1 DEF EmailTypeOK
<1>3. RowsAgree'
  <2>1. \A d \in Deliveries : row[d].last_attempt_at \in Nat \cup {NULL}
    BY RowFields
  <2>2. \A d \in Deliveries : row[d].last_attempt_at # NULL =>
          row[d].last_attempt_at <= clock + 1
    BY <1>1, <2>1 DEF RowsAgree
  <2> QED BY <1>1, <2>2 DEF RowsAgree
<1>4. AttemptsAreAlone'
  <2>1. \A w \in Workers : sender[w].attempted_at <= clock + 1
    BY <1>1, SenderFields DEF AttemptsAreAlone
  <2> QED BY <1>1, <2>1 DEF AttemptsAreAlone, Attempting, DeliveryOf
<1>5. HandoversAgree'
  BY <1>1 DEF HandoversAgree, DeliveryOf
<1> QED BY <1>2, <1>3, <1>4, <1>5

\* A row is stored fresh, whatever becomes of its message.
LEMMA StoreDeliveryKeeps ==
  ASSUME IInv, NEW d \in Deliveries, StoreDelivery(d)
  PROVE  IInv'
<1> USE DEF IInv
<1>1. /\ row[d].status = "absent"
      /\ row' = [row EXCEPT ![d] = NewRow("pending")]
      /\ UNCHANGED <<clock, sender, handed, unclear>>
  BY DEF StoreDelivery
<1>2. clock \in Nat
  BY EmailAssumption DEF EmailTypeOK
<1>3. /\ row' \in [Deliveries -> DeliveryRows]
      /\ row'[d].status = "pending"
      /\ row'[d].attempt_count = 0
      /\ row'[d].last_attempt_at = NULL
      /\ \A e \in Deliveries \ {d} : row'[e] = row[e]
  <2>1. RowBecomes(d, "pending", 0, NULL, NULL)
    BY <1>1 DEF NewRow, RowBecomes
  <2>2. "pending" \in RowStatuses /\ 0 \in 0..MaxAttempts
    BY EmailAssumption DEF RowStatuses
  <2> QED BY <2>1, <2>2, RowEffect
<1>4. /\ IsABag(queue') /\ BagToSet(queue') \subseteq Messages
      /\ faults' \in 0..MaxFaults
      /\ harmed' \subseteq Deliveries
  <2>1. [delivery |-> d, eta |-> clock] \in Messages
    BY <1>2 DEF Messages
  <2>2. CASE Publish(d, clock) /\ UNCHANGED <<faults, harmed>>
    BY <2>1, <2>2, QueueEffect DEF Publish, EmailTypeOK
  <2>3. CASE Fault("publish_fails") /\ harmed' = harmed \cup {d} /\ UNCHANGED queue
    BY <2>3, EmailAssumption DEF Fault, EmailTypeOK
  <2> QED BY <2>2, <2>3 DEF StoreDelivery
<1>5. EmailTypeOK'
  BY <1>1, <1>3, <1>4 DEF EmailTypeOK
<1>6. RowsAgree'
  BY <1>1, <1>3 DEF RowsAgree
<1>7. AttemptsAreAlone'
  <2>1. \A w \in Workers : Attempting(w) => DeliveryOf(w) # d
    BY <1>1 DEF AttemptsAreAlone
  <2> QED BY <1>1, <1>3, <2>1, SenderFields DEF AttemptsAreAlone, Attempting, DeliveryOf
<1>8. HandoversAgree'
  BY <1>1, <1>3 DEF HandoversAgree, DeliveryOf
<1> QED BY <1>5, <1>6, <1>7, <1>8

\* A worker whose row is gone goes on with its attempt.
LEMMA RemoveDeliveryKeeps ==
  ASSUME IInv, NEW d \in Deliveries, RemoveDelivery(d)
  PROVE  IInv'
<1> USE DEF IInv
<1>1. /\ row' = With(d, "gone", row[d].next_retry_at)
      /\ UNCHANGED <<clock, queue, sender, handed, unclear, harmed, faults>>
  BY DEF RemoveDelivery
<1>2. /\ row' \in [Deliveries -> DeliveryRows]
      /\ row'[d].status = "gone"
      /\ row'[d].attempt_count = row[d].attempt_count
      /\ row'[d].last_attempt_at = row[d].last_attempt_at
      /\ \A e \in Deliveries \ {d} : row'[e] = row[e]
  <2>1. "gone" \in RowStatuses
    BY DEF RowStatuses
  <2> QED BY <1>1, <2>1, RowFields, WithEffect
<1>3. EmailTypeOK'
  BY <1>1, <1>2 DEF EmailTypeOK
<1>4. RowsAgree'
  BY <1>1, <1>2 DEF RowsAgree
<1>5. AttemptsAreAlone'
  BY <1>1, <1>2, SenderFields DEF AttemptsAreAlone, Attempting, DeliveryOf
<1>6. HandoversAgree'
  BY <1>1, <1>2 DEF HandoversAgree, DeliveryOf
<1> QED BY <1>3, <1>4, <1>5, <1>6

-----------------------------------------------------------------------------
(* The steps of a worker that is not in an attempt, or gives it up            *)

LEMMA QuietKeeps ==
  ASSUME IInv, NEW w \in Workers, UNCHANGED <<clock, row, handed, unclear>>,
         IsABag(queue'), BagToSet(queue') \subseteq Messages,
         faults' \in 0..MaxFaults, harmed' \subseteq Deliveries,
         sender' \in [Workers -> SenderRecords],
         \A v \in Workers \ {w} : sender'[v] = sender[v],
         sender'[w].phase \notin {"claimed", "accepted", "refused"},
         sender'[w].attempted_at <= clock
  PROVE  IInv'
<1> USE DEF IInv
<1>1. EmailTypeOK'
  BY DEF EmailTypeOK
<1>2. RowsAgree'
  BY DEF RowsAgree
<1>3. AttemptsAreAlone'
  BY DEF AttemptsAreAlone, Attempting, DeliveryOf
<1>4. HandoversAgree'
  BY DEF HandoversAgree, DeliveryOf
<1> QED BY <1>1, <1>2, <1>3, <1>4

LEMMA ClockIsNat ==
  ASSUME IInv
  PROVE  clock \in Nat /\ 0 <= clock
BY EmailAssumption DEF IInv, EmailTypeOK

LEMMA ReceiveKeeps ==
  ASSUME IInv, NEW w \in Workers, NEW message \in BagToSet(queue), Receive(w, message)
  PROVE  IInv'
<1>1. /\ queue' = queue (-) SetToBag({message})
      /\ Working(w, "received", message, 0, FALSE, 0)
      /\ UNCHANGED <<clock, row, handed, unclear, harmed, faults>>
  BY DEF Receive
<1>2. message \in Messages /\ "received" \in SenderPhases
  BY DEF IInv, EmailTypeOK, SenderPhases
<1>3. /\ sender' \in [Workers -> SenderRecords]
      /\ sender'[w].phase = "received"
      /\ sender'[w].attempted_at = 0
      /\ \A v \in Workers \ {w} : sender'[v] = sender[v]
  BY <1>1, <1>2, WorkingEffect DEF IInv
<1>4. IsABag(queue') /\ BagToSet(queue') \subseteq Messages
  BY <1>1, <1>2, QueueEffect DEF IInv
<1>5. faults' \in 0..MaxFaults /\ harmed' \subseteq Deliveries
  BY <1>1 DEF IInv, EmailTypeOK
<1> QED BY <1>1, <1>3, <1>4, <1>5, ClockIsNat, QuietKeeps

\* The task returns without a word on its row.
LEMMA ReturnEffect ==
  ASSUME IInv, NEW w \in Workers, Return(w)
  PROVE  /\ sender' \in [Workers -> SenderRecords]
         /\ sender'[w].phase = "done"
         /\ sender'[w].attempted_at = 0
         /\ \A v \in Workers \ {w} : sender'[v] = sender[v]
<1>1. "done" \in SenderPhases /\ sender[w].message \in Messages
  BY SenderFields DEF SenderPhases, IInv
<1> QED BY <1>1, WorkingEffect, ZenonT(30) DEF Return, IInv

LEMMA LoadContextKeeps ==
  ASSUME IInv, NEW w \in Workers, LoadContext(w)
  PROVE  IInv'
<1>1. UNCHANGED <<clock, row, queue, handed, unclear, harmed, faults>>
  BY DEF LoadContext
<1>2. /\ IsABag(queue') /\ BagToSet(queue') \subseteq Messages
      /\ faults' \in 0..MaxFaults /\ harmed' \subseteq Deliveries
  BY <1>1 DEF IInv, EmailTypeOK
<1>3. CASE Return(w)
  BY <1>1, <1>2, <1>3, ReturnEffect, ClockIsNat, QuietKeeps
<1>4. CASE Working(w, "loaded", sender[w].message, clock, FALSE, 0)
  <2>1. "loaded" \in SenderPhases /\ sender[w].message \in Messages /\ clock \in Nat
    BY SenderFields, ClockIsNat DEF SenderPhases, IInv
  <2>2. /\ sender' \in [Workers -> SenderRecords]
        /\ sender'[w].phase = "loaded"
        /\ sender'[w].attempted_at = clock
        /\ \A v \in Workers \ {w} : sender'[v] = sender[v]
    BY <1>4, <2>1, WorkingEffect, ZenonT(30) DEF IInv
  <2> QED BY <1>1, <1>2, <2>1, <2>2, QuietKeeps
<1> QED BY <1>3, <1>4 DEF LoadContext
LEMMA ScheduleRetryKeeps ==
  ASSUME IInv, NEW w \in Workers, ScheduleRetry(w)
  PROVE  IInv'
<1> DEFINE d == sender[w].message.delivery
<1>1. Return(w) /\ UNCHANGED <<clock, row, handed, unclear>>
  BY DEF ScheduleRetry
<1>2. d \in Deliveries /\ clock + sender[w].delay \in Nat
  BY SenderFields, ClockIsNat DEF IInv, DeliveryOf
<1>3. /\ IsABag(queue') /\ BagToSet(queue') \subseteq Messages
      /\ faults' \in 0..MaxFaults
      /\ harmed' \subseteq Deliveries
  <2>1. [delivery |-> d, eta |-> clock + sender[w].delay] \in Messages
    BY <1>2 DEF Messages
  <2>2. CASE Publish(d, clock + sender[w].delay) /\ UNCHANGED <<faults, harmed>>
    BY <2>1, <2>2, QueueEffect DEF Publish, IInv, EmailTypeOK
  <2>3. CASE Fault("publish_fails") /\ harmed' = harmed \cup {d} /\ UNCHANGED queue
    BY <1>2, <2>3, EmailAssumption DEF Fault, IInv, EmailTypeOK
  <2> QED BY <2>2, <2>3 DEF ScheduleRetry
<1> QED BY <1>1, <1>3, ReturnEffect, ClockIsNat, QuietKeeps

LEMMA AcknowledgeKeeps ==
  ASSUME IInv, NEW w \in Workers, Acknowledge(w)
  PROVE  IInv'
<1>1. Idle(w) /\ UNCHANGED <<clock, row, queue, handed, unclear, harmed, faults>>
  BY DEF Acknowledge
<1>2. /\ IsABag(queue') /\ BagToSet(queue') \subseteq Messages
      /\ faults' \in 0..MaxFaults /\ harmed' \subseteq Deliveries
  BY <1>1 DEF IInv, EmailTypeOK
<1> QED BY <1>1, <1>2, IdleEffect, ClockIsNat, QuietKeeps DEF IInv

\* A lost process, a task that raises, and a message that is delivered twice.
LEMMA MishapKeeps ==
  ASSUME IInv, NEW w \in Workers, Mishap(w)
  PROVE  IInv'
<1>1. sender[w].message \in Messages /\ DeliveryOf(w) \in Deliveries
  BY SenderFields DEF IInv
<1>2. faults' \in 0..MaxFaults
  BY EmailAssumption DEF Mishap, WorkerLost, TaskFails, Redeliver, Fault, IInv, EmailTypeOK
<1>3. CASE WorkerLost(w)
  <2>1. /\ Idle(w)
        /\ queue' = queue (+) SetToBag({sender[w].message})
        /\ harmed' \subseteq harmed \cup {DeliveryOf(w)}
        /\ UNCHANGED <<clock, row, handed, unclear>>
    BY <1>3 DEF WorkerLost, DeliveryOf
  <2>2. harmed' \subseteq Deliveries
    BY <1>1, <2>1 DEF IInv, EmailTypeOK
  <2>3. IsABag(queue') /\ BagToSet(queue') \subseteq Messages
    BY <1>1, <2>1, QueueEffect DEF IInv
  <2> QED BY <1>2, <2>1, <2>2, <2>3, IdleEffect, ClockIsNat, QuietKeeps DEF IInv
<1>4. CASE TaskFails(w)
  <2>1. /\ Idle(w)
        /\ harmed' = harmed \cup {DeliveryOf(w)}
        /\ UNCHANGED <<clock, row, queue, handed, unclear>>
    BY <1>4 DEF TaskFails, DeliveryOf
  <2>2. /\ IsABag(queue') /\ BagToSet(queue') \subseteq Messages
        /\ harmed' \subseteq Deliveries
    BY <1>1, <2>1 DEF IInv, EmailTypeOK
  <2> QED BY <1>2, <2>1, <2>2, IdleEffect, ClockIsNat, QuietKeeps DEF IInv
<1>5. CASE Redeliver(w)
  <2>1. /\ queue' = queue (+) SetToBag({sender[w].message})
        /\ UNCHANGED <<clock, row, sender, handed, unclear, harmed>>
    BY <1>5 DEF Redeliver
  <2>2. IsABag(queue') /\ BagToSet(queue') \subseteq Messages
    BY <1>1, <2>1, QueueEffect DEF IInv
  <2>3. EmailTypeOK'
    BY <1>2, <2>1, <2>2 DEF IInv, EmailTypeOK
  <2>4. RowsAgree' /\ AttemptsAreAlone' /\ HandoversAgree'
    BY <2>1 DEF IInv, RowsAgree, AttemptsAreAlone, HandoversAgree, Attempting, DeliveryOf
  <2> QED BY <2>3, <2>4 DEF IInv
<1> QED BY <1>3, <1>4, <1>5 DEF Mishap

-----------------------------------------------------------------------------
(* An attempt                                                                 *)

\* Whoever may claim a row finds no other worker at it.
LEMMA ClaimableIsAlone ==
  ASSUME IInv, NEW w \in Workers, Claimable(DeliveryOf(w), sender[w].attempted_at)
  PROVE  /\ row[DeliveryOf(w)].attempt_count < MaxAttempts
         /\ handed[DeliveryOf(w)] = unclear[DeliveryOf(w)]
         /\ \A v \in Workers : Attempting(v) => DeliveryOf(v) # DeliveryOf(w)
<1> DEFINE d == DeliveryOf(w)
<1>1. d \in Deliveries
  BY SenderFields DEF IInv
<1>2. row[d].status \in {"pending", "retrying"}
  BY DEF Claimable
<1>3. row[d].attempt_count < MaxAttempts
  BY <1>1, <1>2, EmailAssumption DEF IInv, RowsAgree
<1>4. handed[d] = unclear[d]
  BY <1>1, <1>2 DEF IInv, HandoversAgree
<1>5. \A v \in Workers : Attempting(v) => DeliveryOf(v) # d
  BY <1>2 DEF IInv, AttemptsAreAlone
<1> QED BY <1>3, <1>4, <1>5

LEMMA ClaimKeeps ==
  ASSUME IInv, NEW w \in Workers, Claim(w)
  PROVE  IInv'
<1> USE DEF IInv
<1> DEFINE d == DeliveryOf(w)
           at == sender[w].attempted_at
<1>1. UNCHANGED <<clock, queue, handed, unclear, harmed, faults>>
  BY DEF Claim
<1>2. /\ d \in Deliveries /\ at \in Nat /\ at <= clock
      /\ sender[w].message \in Messages
  BY SenderFields DEF AttemptsAreAlone
<1>3. CASE Return(w) /\ UNCHANGED row
  <2>1. /\ IsABag(queue') /\ BagToSet(queue') \subseteq Messages
        /\ faults' \in 0..MaxFaults /\ harmed' \subseteq Deliveries
    BY <1>1 DEF EmailTypeOK
  <2> QED BY <1>1, <1>3, <2>1, ReturnEffect, ClockIsNat, QuietKeeps
<1>4. CASE /\ Claimable(d, at)
           /\ RowBecomes(d, "sending", row[d].attempt_count + 1, at, NULL)
           /\ Goes(w, "claimed", FALSE, 0)
  <2>1. /\ row[d].attempt_count < MaxAttempts
        /\ handed[d] = unclear[d]
        /\ \A v \in Workers : Attempting(v) => DeliveryOf(v) # d
    BY <1>4, ClaimableIsAlone
  <2>2. /\ row[d].attempt_count + 1 \in 0..MaxAttempts
        /\ row[d].attempt_count + 1 >= 1
    BY <1>2, <2>1, RowFields, EmailAssumption
  <2>3. "sending" \in RowStatuses /\ "claimed" \in SenderPhases
    BY DEF RowStatuses, SenderPhases
  <2> DEFINE count == row[d].attempt_count + 1
  <2> HIDE DEF count
  <2>4. /\ row' \in [Deliveries -> DeliveryRows]
        /\ row'[d].status = "sending"
        /\ row'[d].attempt_count = count
        /\ row'[d].last_attempt_at = at
        /\ \A e \in Deliveries \ {d} : row'[e] = row[e]
    <3>1. RowBecomes(d, "sending", count, at, NULL) /\ count \in 0..MaxAttempts
      BY <1>4, <2>2 DEF count
    <3> QED BY <1>2, <2>3, <3>1, RowEffect
  <2>5. /\ sender' \in [Workers -> SenderRecords]
        /\ sender'[w].phase = "claimed"
        /\ sender'[w].message = sender[w].message
        /\ sender'[w].attempted_at = at
        /\ \A v \in Workers \ {w} : sender'[v] = sender[v]
    BY <1>4, <2>3, GoesEffect
  <2>6. count >= 1 /\ at # NULL /\ DeliveryOf(w)' = d
    BY <1>2, <2>2, <2>5, EmailAssumption DEF count, DeliveryOf
  <2> HIDE DEF d, at
  <2>7. EmailTypeOK'
    BY <1>1, <2>4, <2>5 DEF EmailTypeOK
  <2>8. RowsAgree'
    BY <1>1, <1>2, <2>4, <2>6 DEF RowsAgree
  <2>9. AttemptsAreAlone'
    <3>1. \A v \in Workers \ {w} : /\ sender'[v] = sender[v]
                                   /\ DeliveryOf(v)' = DeliveryOf(v)
                                   /\ Attempting(v)' = Attempting(v)
      BY <2>5 DEF DeliveryOf, Attempting
    <3>2. \A v \in Workers \ {w} : Attempting(v)' =>
            row'[DeliveryOf(v)] = row[DeliveryOf(v)] /\ DeliveryOf(v) # d
      BY <2>1, <2>4, <3>1, SenderFields
    <3> QED BY <1>1, <1>2, <2>4, <2>5, <2>6, <3>1, <3>2 DEF AttemptsAreAlone
  <2>10. HandoversAgree'
    BY <1>1, <2>1, <2>4, <2>5, <2>6 DEF HandoversAgree, DeliveryOf
  <2> QED BY <2>7, <2>8, <2>9, <2>10
<1> QED BY <1>3, <1>4 DEF Claim, RowBecomes, DeliveryOf
\* The provider's answer, or the break of the connection.
LEMMA AnswerKeeps ==
  ASSUME IInv, NEW w \in Workers, sender[w].phase = "claimed",
         NEW phase \in {"accepted", "refused"}, NEW temporary \in BOOLEAN,
         Goes(w, phase, temporary, 0),
         UNCHANGED <<clock, row, queue, harmed, faults>>,
         handed' \in [Deliveries -> Nat], unclear' \in [Deliveries -> Nat],
         \A d \in Deliveries \ {DeliveryOf(w)} :
             handed'[d] = handed[d] /\ unclear'[d] = unclear[d],
         handed'[DeliveryOf(w)] =
             unclear'[DeliveryOf(w)] + (IF phase = "accepted" THEN 1 ELSE 0)
  PROVE  IInv'
<1> USE DEF IInv
<1> DEFINE d == DeliveryOf(w)
<1>1. phase \in SenderPhases /\ 0 \in Nat /\ d \in Deliveries
  BY SenderFields DEF SenderPhases
<1>2. /\ sender' \in [Workers -> SenderRecords]
      /\ sender'[w].phase = phase
      /\ sender'[w].message = sender[w].message
      /\ sender'[w].attempted_at = sender[w].attempted_at
      /\ \A v \in Workers \ {w} : sender'[v] = sender[v]
  BY <1>1, GoesEffect
<1>3. \A v \in Workers : DeliveryOf(v)' = DeliveryOf(v) /\ Attempting(v)' = Attempting(v)
  BY <1>2 DEF DeliveryOf, Attempting
<1>4. EmailTypeOK'
  BY <1>2 DEF EmailTypeOK
<1>5. RowsAgree'
  BY DEF RowsAgree
<1>6. AttemptsAreAlone'
  <2>1. \A v \in Workers : sender'[v].attempted_at <= clock
    BY <1>2 DEF AttemptsAreAlone
  <2> QED BY <1>3, <2>1 DEF AttemptsAreAlone
<1>7. HandoversAgree'
  <2>1. Attempting(w) /\ row[d].status \in {"sending", "gone"}
    BY DEF Attempting, AttemptsAreAlone
  <2>2. \A v \in Workers \ {w} : Attempting(v) => DeliveryOf(v) # d
    BY <2>1 DEF AttemptsAreAlone
  <2>3. handed'[d] \in {unclear'[d], unclear'[d] + 1}
    BY <1>1
  <2>4. \A e \in Deliveries :
          /\ handed'[e] \in {unclear'[e], unclear'[e] + 1}
          /\ row'[e].status = "delivered" => handed'[e] = unclear'[e] + 1
          /\ row'[e].status \in {"absent", "pending", "retrying", "failed"} =>
                 handed'[e] = unclear'[e]
    BY <2>1, <2>3 DEF HandoversAgree
  <2>5. ASSUME NEW v \in Workers
        PROVE  /\ sender'[v].phase \in {"claimed", "refused"} =>
                      handed'[DeliveryOf(v)] = unclear'[DeliveryOf(v)]
               /\ sender'[v].phase = "accepted" =>
                      handed'[DeliveryOf(v)] = unclear'[DeliveryOf(v)] + 1
    <3>1. CASE v = w
      BY <1>1, <1>2, <3>1
    <3>2. CASE v # w
      <4>1. sender'[v] = sender[v]
        BY <1>2, <3>2
      <4>2. Attempting(v) =>
              /\ handed'[DeliveryOf(v)] = handed[DeliveryOf(v)]
              /\ unclear'[DeliveryOf(v)] = unclear[DeliveryOf(v)]
        BY <2>2, <3>2, SenderFields
      <4> QED BY <4>1, <4>2 DEF HandoversAgree, Attempting
    <3> QED BY <3>1, <3>2
  <2> QED BY <1>3, <2>4, <2>5 DEF HandoversAgree
<1> QED BY <1>4, <1>5, <1>6, <1>7

LEMMA AttemptKeeps ==
  ASSUME IInv, NEW w \in Workers,
         Accept(w) \/ BreakOff(w) \/ \E temporary \in BOOLEAN : Refuse(w, temporary)
  PROVE  IInv'
<1> DEFINE d == DeliveryOf(w)
<1>1. /\ d \in Deliveries
      /\ handed \in [Deliveries -> Nat] /\ unclear \in [Deliveries -> Nat]
  BY SenderFields DEF IInv, EmailTypeOK
<1>2. sender[w].phase = "claimed" /\ UNCHANGED <<clock, row, queue, harmed, faults>>
  BY DEF Accept, BreakOff, Refuse
<1>3. handed[d] = unclear[d]
  BY <1>1, <1>2 DEF IInv, HandoversAgree
<1>4. CASE Accept(w)
  <2>1. /\ Goes(w, "accepted", FALSE, 0)
        /\ handed' = [handed EXCEPT ![d] = @ + 1]
        /\ UNCHANGED unclear
    BY <1>4 DEF Accept, DeliveryOf
  <2> HIDE DEF d
  <2>2. /\ handed' \in [Deliveries -> Nat]
        /\ handed'[d] = unclear'[d] + 1
        /\ \A e \in Deliveries \ {d} : handed'[e] = handed[e] /\ unclear'[e] = unclear[e]
    BY <1>1, <1>3, <2>1
  <2> QED BY <1>1, <1>2, <2>1, <2>2, AnswerKeeps DEF d
<1>5. CASE BreakOff(w)
  <2>1. /\ Goes(w, "refused", TRUE, 0)
        /\ handed' = [handed EXCEPT ![d] = @ + 1]
        /\ unclear' = [unclear EXCEPT ![d] = @ + 1]
    BY <1>5 DEF BreakOff, DeliveryOf
  <2> HIDE DEF d
  <2>2. /\ handed' \in [Deliveries -> Nat] /\ unclear' \in [Deliveries -> Nat]
        /\ handed'[d] = unclear'[d] + 0
        /\ \A e \in Deliveries \ {d} : handed'[e] = handed[e] /\ unclear'[e] = unclear[e]
    BY <1>1, <1>3, <2>1
  <2> QED BY <1>1, <1>2, <2>1, <2>2, AnswerKeeps DEF d
<1>6. ASSUME NEW temporary \in BOOLEAN, Refuse(w, temporary)
      PROVE  IInv'
  <2>1. Goes(w, "refused", temporary, 0) /\ UNCHANGED <<handed, unclear>>
    BY <1>6 DEF Refuse
  <2>2. handed'[d] = unclear'[d] + 0
    BY <1>1, <1>3, <2>1
  <2> QED BY <1>1, <1>2, <2>1, <2>2, AnswerKeeps
<1> QED BY <1>4, <1>5, <1>6
-----------------------------------------------------------------------------
(* The transaction after an attempt                                           *)

\* What the row may become: "delivered" after an acknowledged handover, and
\* "failed" or "retrying", no sooner than the delay, without one.
Outcome(w, status, next_retry_at) ==
    \/ status = "delivered" /\ sender[w].phase = "accepted"
    \/ status = "failed" /\ sender[w].phase = "refused"
    \/ /\ status = "retrying"
       /\ sender[w].phase = "refused"
       /\ row[DeliveryOf(w)].attempt_count < MaxAttempts
       /\ next_retry_at = clock + RetryDelay(row[DeliveryOf(w)].attempt_count)

LEMMA RecordKeeps ==
  ASSUME IInv, NEW w \in Workers, row[DeliveryOf(w)].status = "sending",
         NEW status \in RowStatuses, NEW next_retry_at \in Nat \cup {NULL},
         Outcome(w, status, next_retry_at),
         row' = With(DeliveryOf(w), status, next_retry_at),
         sender' \in [Workers -> SenderRecords],
         sender'[w].phase \notin {"claimed", "accepted", "refused"},
         sender'[w].attempted_at <= clock,
         \A v \in Workers \ {w} : sender'[v] = sender[v],
         UNCHANGED <<clock, queue, handed, unclear, harmed, faults>>
  PROVE  IInv'
<1> USE DEF IInv
<1> DEFINE d == DeliveryOf(w)
<1>1. d \in Deliveries /\ Attempting(w) /\ clock \in Nat
  BY SenderFields, ClockIsNat DEF Outcome, Attempting
<1>2. /\ row' \in [Deliveries -> DeliveryRows]
      /\ row'[d].status = status
      /\ row'[d].attempt_count = row[d].attempt_count
      /\ row'[d].last_attempt_at = row[d].last_attempt_at
      /\ row'[d].next_retry_at = next_retry_at
      /\ \A e \in Deliveries \ {d} : row'[e] = row[e]
  BY <1>1, WithEffect
<1>3. /\ row[d].attempt_count >= 1
      /\ row[d].attempt_count \in Nat \ {0}
      /\ row[d].last_attempt_at \in Nat
      /\ row[d].last_attempt_at <= clock
  BY <1>1, RowFields, EmailAssumption DEF RowsAgree
<1>4. status = "retrying" =>
        /\ row[d].attempt_count < MaxAttempts
        /\ next_retry_at # NULL
        /\ next_retry_at >= row[d].last_attempt_at + RetryDelay(row[d].attempt_count)
  <2>1. RetryDelay(row[d].attempt_count) \in Nat
    BY <1>3, RetryDelayIsNat
  <2> QED BY <1>1, <1>3, <2>1, EmailAssumption DEF Outcome
<1>5. \A v \in Workers \ {w} : /\ DeliveryOf(v)' = DeliveryOf(v)
                               /\ Attempting(v)' = Attempting(v)
                               /\ Attempting(v) => DeliveryOf(v) # d
  BY <1>1 DEF DeliveryOf, Attempting, AttemptsAreAlone
<1>6. status \in {"delivered", "failed", "retrying"}
  BY DEF Outcome
<1>7. /\ status = "delivered" => handed[d] = unclear[d] + 1
      /\ status \in {"failed", "retrying"} => handed[d] = unclear[d]
  BY <1>1 DEF Outcome, HandoversAgree
<1> HIDE DEF d
<1>8. EmailTypeOK'
  BY <1>1, <1>2, <1>4 DEF EmailTypeOK
<1>9. RowsAgree'
  <2>1. ASSUME NEW e \in Deliveries, e # d
        PROVE  row'[e] = row[e]
    BY <1>2, <2>1
  <2>2. RetryDelay(row'[d].attempt_count) = RetryDelay(row[d].attempt_count)
    BY <1>2
  <2>3. /\ row'[d].status \notin {"absent", "pending", "sending"}
        /\ row'[d].attempt_count >= 1
        /\ row'[d].last_attempt_at # NULL
        /\ row'[d].last_attempt_at <= clock
    BY <1>2, <1>3, <1>6, EmailAssumption
  <2>4. row'[d].status = "retrying" =>
          /\ row'[d].attempt_count < MaxAttempts
          /\ row'[d].next_retry_at # NULL
          /\ row'[d].next_retry_at >=
                 row'[d].last_attempt_at + RetryDelay(row'[d].attempt_count)
    BY <1>2, <1>4, <2>2
  <2> QED BY <2>1, <2>3, <2>4 DEF RowsAgree
<1>10. AttemptsAreAlone'
  <2>1. ~Attempting(w)'
    BY DEF Attempting
  <2>2. \A v \in Workers \ {w} : Attempting(v) => row'[DeliveryOf(v)] = row[DeliveryOf(v)]
    BY <1>2, <1>5, SenderFields
  <2> QED BY <1>5, <2>1, <2>2 DEF AttemptsAreAlone
<1>11. HandoversAgree'
  <2>1. HandoversAgree /\ handed' = handed /\ unclear' = unclear
    OBVIOUS
  <2> HIDE DEF IInv
  <2>2. ASSUME NEW e \in Deliveries
        PROVE  /\ handed[e] \in {unclear[e], unclear[e] + 1}
               /\ row'[e].status = "delivered" => handed[e] = unclear[e] + 1
               /\ row'[e].status \in {"absent", "pending", "retrying", "failed"} =>
                      handed[e] = unclear[e]
    <3>1. CASE e = d
      BY <1>2, <1>6, <1>7, <2>1, <3>1 DEF HandoversAgree
    <3>2. CASE e # d
      BY <1>2, <2>1, <3>2 DEF HandoversAgree
    <3> QED BY <3>1, <3>2
  <2>3. ASSUME NEW v \in Workers
        PROVE  /\ sender'[v].phase \in {"claimed", "refused"} =>
                      handed[DeliveryOf(v)'] = unclear[DeliveryOf(v)']
               /\ sender'[v].phase = "accepted" =>
                      handed[DeliveryOf(v)'] = unclear[DeliveryOf(v)'] + 1
    <3>1. CASE v = w
      BY <3>1
    <3>2. CASE v # w
      BY <1>5, <2>1, <3>2 DEF HandoversAgree
    <3> QED BY <3>1, <3>2
  <2> QED BY <2>1, <2>2, <2>3 DEF HandoversAgree
<1> QED BY <1>8, <1>9, <1>10, <1>11

LEMMA RecordDeliveredKeeps ==
  ASSUME IInv, NEW w \in Workers, RecordDelivered(w)
  PROVE  IInv'
<1>1. /\ sender[w].phase = "accepted"
      /\ Return(w)
      /\ UNCHANGED <<clock, queue, handed, unclear, harmed, faults>>
  BY DEF RecordDelivered
<1>2. /\ sender' \in [Workers -> SenderRecords]
      /\ sender'[w].phase = "done"
      /\ sender'[w].attempted_at <= clock
      /\ \A v \in Workers \ {w} : sender'[v] = sender[v]
  BY <1>1, ReturnEffect, ClockIsNat
<1>3. CASE row[DeliveryOf(w)].status = "sending"
  <2>1. row' = With(DeliveryOf(w), "delivered", NULL)
    BY <1>3 DEF RecordDelivered, DeliveryOf
  <2>2. "delivered" \in RowStatuses
    BY DEF RowStatuses
  <2>3. Outcome(w, "delivered", NULL)
    BY <1>1 DEF Outcome
  <2> QED BY <1>1, <1>2, <1>3, <2>1, <2>2, <2>3, RecordKeeps
<1>4. CASE row[DeliveryOf(w)].status # "sending"
  <2>1. row' = row
    BY <1>4 DEF RecordDelivered, DeliveryOf
  <2>2. /\ IsABag(queue') /\ BagToSet(queue') \subseteq Messages
        /\ faults' \in 0..MaxFaults /\ harmed' \subseteq Deliveries
    BY <1>1 DEF IInv, EmailTypeOK
  <2> QED BY <1>1, <1>2, <2>1, <2>2, QuietKeeps
<1> QED BY <1>3, <1>4

LEMMA RecordFailureKeeps ==
  ASSUME IInv, NEW w \in Workers, RecordFailure(w)
  PROVE  IInv'
<1> DEFINE d == DeliveryOf(w)
           delay == RetryDelay(row[d].attempt_count)
<1>1. /\ sender[w].phase = "refused"
      /\ UNCHANGED <<clock, queue, handed, unclear, harmed, faults>>
  BY DEF RecordFailure
<1>2. d \in Deliveries /\ clock \in Nat
  BY SenderFields, ClockIsNat DEF IInv
<1>3. CASE /\ row[d].status = "sending"
           /\ Retryable(w)
           /\ row' = With(d, "retrying", clock + delay)
           /\ Goes(w, "scheduling", TRUE, delay)
  <2>1. delay \in Nat
    <3>1. row[d].attempt_count \in Nat \ {0}
      BY <1>2, <1>3, RowFields, EmailAssumption DEF IInv, RowsAgree
    <3> QED BY <3>1, RetryDelayIsNat
  <2>2. clock + delay \in Nat
    BY <1>2, <2>1
  <2>3. "retrying" \in RowStatuses /\ "scheduling" \in SenderPhases
    BY DEF RowStatuses, SenderPhases
  <2>4. Outcome(w, "retrying", clock + delay)
    BY <1>1, <1>3 DEF Outcome, Retryable, DeliveryOf
  <2>5. /\ sender' \in [Workers -> SenderRecords]
        /\ sender'[w].phase = "scheduling"
        /\ sender'[w].attempted_at <= clock
        /\ \A v \in Workers \ {w} : sender'[v] = sender[v]
    BY <1>3, <2>1, <2>3, GoesEffect DEF IInv, AttemptsAreAlone
  <2> HIDE DEF delay
  <2> QED BY <1>1, <1>3, <2>2, <2>3, <2>4, <2>5, RecordKeeps
<1>4. CASE /\ row[d].status = "sending"
           /\ row' = With(d, "failed", NULL)
           /\ Return(w)
  <2>1. "failed" \in RowStatuses
    BY DEF RowStatuses
  <2>2. Outcome(w, "failed", NULL)
    BY <1>1 DEF Outcome
  <2> QED BY <1>1, <1>4, <2>1, <2>2, ReturnEffect, ClockIsNat, RecordKeeps
<1>5. CASE Return(w) /\ UNCHANGED row
  <2>1. /\ IsABag(queue') /\ BagToSet(queue') \subseteq Messages
        /\ faults' \in 0..MaxFaults /\ harmed' \subseteq Deliveries
    BY <1>1 DEF IInv, EmailTypeOK
  <2> QED BY <1>1, <1>5, <2>1, ReturnEffect, ClockIsNat, QuietKeeps
<1> QED BY <1>3, <1>4, <1>5 DEF RecordFailure, DeliveryOf

-----------------------------------------------------------------------------
(* The invariant                                                              *)

LEMMA EmailInit ==
  ASSUME Init
  PROVE  IInv
<1> USE EmailAssumption DEF Init
<1>1. \A d \in Deliveries : row[d] = NewRow("absent")
  OBVIOUS
<1>2. NewRow("absent") \in DeliveryRows
  BY DEF NewRow, DeliveryRows, RowStatuses
<1>3. EmailTypeOK
  <2>1. clock \in 0..MaxTime /\ faults \in 0..MaxFaults /\ harmed \subseteq Deliveries
    OBVIOUS
  <2>2. row \in [Deliveries -> DeliveryRows]
    BY <1>2
  <2>3. \A d \in Deliveries : row[d].status # "retrying"
    BY <1>1 DEF NewRow
  <2>4. IsABag(queue) /\ BagToSet(queue) \subseteq Messages
    BY EmptyQueue
  <2>5. sender \in [Workers -> SenderRecords]
    BY NoWorkIsWork
  <2>6. handed \in [Deliveries -> Nat] /\ unclear \in [Deliveries -> Nat]
    OBVIOUS
  <2> QED BY <2>1, <2>2, <2>3, <2>4, <2>5, <2>6 DEF EmailTypeOK
<1>4. RowsAgree
  BY <1>1 DEF RowsAgree, NewRow
<1>5. AttemptsAreAlone /\ HandoversAgree
  BY <1>1, NoWorkIsWork DEF AttemptsAreAlone, HandoversAgree, Attempting, NewRow
<1> QED BY <1>3, <1>4, <1>5 DEF IInv

LEMMA EmailStep ==
  ASSUME IInv, [Next]_vars
  PROVE  IInv'
<1>1. ASSUME NEW d \in Deliveries, StoreDelivery(d) \/ RemoveDelivery(d)
      PROVE  IInv'
  BY <1>1, StoreDeliveryKeeps, RemoveDeliveryKeeps
<1>2. CASE Tick
  BY <1>2, TickKeeps
<1>3. ASSUME NEW w \in Workers, ReceiveSome(w)
      PROVE  IInv'
  BY <1>3, ReceiveKeeps DEF ReceiveSome
<1>4. ASSUME NEW w \in Workers, SenderStep(w)
      PROVE  IInv'
  BY <1>4, LoadContextKeeps, ClaimKeeps, AttemptKeeps, RecordDeliveredKeeps,
     RecordFailureKeeps, ScheduleRetryKeeps, AcknowledgeKeeps DEF SenderStep
<1>5. ASSUME NEW w \in Workers, Mishap(w)
      PROVE  IInv'
  BY <1>5, MishapKeeps
<1>6. CASE UNCHANGED vars
  BY <1>6 DEF vars, IInv, EmailTypeOK, RowsAgree, AttemptsAreAlone, HandoversAgree,
     Attempting, DeliveryOf
<1> QED BY <1>1, <1>2, <1>3, <1>4, <1>5, <1>6 DEF Next

LEMMA EmailInvariant == Spec => []IInv
<1>1. Init => IInv
  BY EmailInit
<1>2. IInv /\ [Next]_vars => IInv'
  BY EmailStep
<1> QED BY <1>1, <1>2, PTL DEF Spec
-----------------------------------------------------------------------------
(* The theorems                                                               *)

\* Rows, messages and workers keep their types: no attempt is counted beyond
\* MAX_EMAIL_ATTEMPTS, and a retry that is due never leaves the numbers.
THEOREM EmailTypes == Spec => []EmailTypeOK
<1>1. IInv => EmailTypeOK
  BY DEF IInv
<1> QED BY <1>1, EmailInvariant, PTL

\* Per delivery the provider acknowledges one handover at most, and the row says
\* so, whatever is redelivered, lost or killed (the conditional UPDATE of claim.py).
THEOREM OneHandoverIsAcknowledged == Spec => []OneAcknowledgedHandover
<1>1. IInv => OneAcknowledgedHandover
  <2> SUFFICES ASSUME IInv, NEW d \in Deliveries
               PROVE  /\ handed[d] - unclear[d] \in {0, 1}
                      /\ row[d].status = "delivered" => handed[d] = unclear[d] + 1
                      /\ row[d].status \in {"pending", "retrying", "failed"} =>
                             handed[d] = unclear[d]
    BY DEF OneAcknowledgedHandover
  <2>1. handed[d] \in Nat /\ unclear[d] \in Nat
    BY DEF IInv, EmailTypeOK
  <2> QED BY <2>1 DEF IInv, HandoversAgree
<1> QED BY <1>1, EmailInvariant, PTL

\* Only a claim turns a row to "sending".
LEMMA OnlyClaims ==
  ASSUME IInv, [Next]_vars
  PROVE  \/ UNCHANGED row
         \/ \E d \in Deliveries : StoreDelivery(d) \/ RemoveDelivery(d)
         \/ \E w \in Workers : Claim(w) \/ RecordDelivered(w) \/ RecordFailure(w)
BY DEF Next, vars, Tick, ReceiveSome, Receive, SenderStep, LoadContext, Accept, Refuse,
   BreakOff, ScheduleRetry, Acknowledge, Mishap, WorkerLost, TaskFails, Redeliver

\* A retry starts no sooner than the delay of its attempt after the attempt before,
\* whichever message brings the worker and however early it comes.
THEOREM RetriesWait == Spec => RetriesBackOff
<1>1. ASSUME IInv, [Next]_vars, NEW d \in Deliveries,
             row[d].status = "retrying", row'[d].status = "sending"
      PROVE  row'[d].last_attempt_at >=
                 row[d].last_attempt_at + RetryDelay(row[d].attempt_count)
  <2>1. row \in [Deliveries -> DeliveryRows]
    BY <1>1 DEF IInv, EmailTypeOK
  <2>2. PICK w \in Workers : Claim(w)
    <3>1. ASSUME NEW e \in Deliveries, StoreDelivery(e)
          PROVE  FALSE
      BY <1>1, <2>1, <3>1 DEF StoreDelivery, NewRow
    <3>2. ASSUME NEW e \in Deliveries, NEW status \in RowStatuses \ {"sending"},
                 NEW at \in Nat \cup {NULL}, row' = With(e, status, at)
          PROVE  FALSE
      <4>1. row'[e].status = status /\ \A o \in Deliveries \ {e} : row'[o] = row[o]
        BY <1>1, <3>2, WithEffect DEF IInv
      <4> QED BY <1>1, <4>1
    <3>3. ASSUME NEW e \in Deliveries, RemoveDelivery(e)
          PROVE  FALSE
      BY <1>1, <3>2, <3>3, RowFields DEF RemoveDelivery, RowStatuses, IInv
    <3>4. ASSUME NEW w \in Workers, RecordDelivered(w)
          PROVE  FALSE
      <4>1. row' = row \/ row' = With(DeliveryOf(w), "delivered", NULL)
        BY <3>4 DEF RecordDelivered, DeliveryOf
      <4> QED BY <1>1, <3>2, <4>1, SenderFields DEF RowStatuses, IInv
    <3>5. ASSUME NEW w \in Workers, RecordFailure(w)
          PROVE  FALSE
      <4> DEFINE o == DeliveryOf(w)
                 at == clock + RetryDelay(row[o].attempt_count)
      <4>1. \/ row' = row
            \/ row[o].status = "sending" /\ row' = With(o, "retrying", at)
            \/ row' = With(o, "failed", NULL)
        BY <3>5 DEF RecordFailure, DeliveryOf
      <4>2. o \in Deliveries /\ clock \in Nat
        BY <1>1, SenderFields, ClockIsNat DEF IInv
      <4>3. row[o].status = "sending" => at \in Nat
        <5> SUFFICES ASSUME row[o].status = "sending"
                     PROVE  at \in Nat
          OBVIOUS
        <5>1. row[o].attempt_count \in Nat \ {0}
          BY <1>1, <4>2, RowFields, EmailAssumption DEF IInv, RowsAgree
        <5> QED BY <4>2, <5>1, RetryDelayIsNat
      <4> HIDE DEF at, o
      <4> QED BY <1>1, <3>2, <4>1, <4>2, <4>3 DEF RowStatuses
    <3> QED BY <1>1, <3>1, <3>3, <3>4, <3>5, OnlyClaims
  <2> DEFINE e == DeliveryOf(w)
             at == sender[w].attempted_at
             new == [status |-> "sending", attempt_count |-> row[e].attempt_count + 1,
                     last_attempt_at |-> at, next_retry_at |-> NULL]
  <2>3. Claimable(e, at) /\ row' = [row EXCEPT ![e] = new]
    BY <1>1, <2>2 DEF Claim, DeliveryOf
  <2>4. new.last_attempt_at = at
    OBVIOUS
  <2> HIDE DEF new
  <2>5. d = e /\ row'[d].last_attempt_at = at
    BY <1>1, <2>1, <2>3, <2>4
  <2>6. row[d].next_retry_at <= at /\ row[d].next_retry_at # NULL
    BY <1>1, <2>3, <2>5 DEF Claimable, Due, IInv, RowsAgree
  <2>7. row[d].next_retry_at >= row[d].last_attempt_at + RetryDelay(row[d].attempt_count)
    BY <1>1 DEF IInv, RowsAgree
  <2>8. /\ row[d].next_retry_at \in Nat /\ at \in Nat
        /\ row[d].last_attempt_at \in Nat
        /\ RetryDelay(row[d].attempt_count) \in Nat
    <3>1. row[d].attempt_count \in Nat \ {0} /\ row[d].last_attempt_at # NULL
      BY <1>1, RowFields, EmailAssumption DEF IInv, RowsAgree
    <3> QED BY <1>1, <2>6, <3>1, RetryDelayIsNat, RowFields, SenderFields DEF IInv
  <2> QED BY <2>5, <2>6, <2>7, <2>8
<1>2. IInv /\ [Next]_vars =>
        \A d \in Deliveries :
            row[d].status = "retrying" /\ row'[d].status = "sending" =>
                row'[d].last_attempt_at >=
                    row[d].last_attempt_at + RetryDelay(row[d].attempt_count)
  BY <1>1
<1> QED BY <1>2, EmailInvariant, PTL DEF RetriesBackOff, Spec
-----------------------------------------------------------------------------
(* The lifecycle of a delivery                                                *)

Statuses == [d \in Deliveries |-> row[d].status]
Attempts == [d \in Deliveries |-> row[d].attempt_count]

\* What the update of one row is to the lifecycle.
LEMMA AbstractUpdate ==
  ASSUME NEW d \in Deliveries, NEW status, NEW attempt_count,
         row'[d].status = status, row'[d].attempt_count = attempt_count,
         \A e \in Deliveries \ {d} : row'[e] = row[e]
  PROVE  /\ Statuses' = [Statuses EXCEPT ![d] = status]
         /\ Attempts' = [Attempts EXCEPT ![d] = attempt_count]
         /\ attempt_count = row[d].attempt_count => Attempts' = Attempts
BY DEF Statuses, Attempts

\* An update by With is a transition when the lifecycle allows it.
LEMMA WithTransits ==
  ASSUME IInv, NEW d \in Deliveries, NEW status \in {"delivered", "retrying", "failed"},
         NEW next_retry_at \in Nat \cup {NULL}, row' = With(d, status, next_retry_at),
         row[d].status = "sending",
         status = "retrying" => row[d].attempt_count < MaxAttempts
  PROVE  Lifecycle!Transit(d, status)
<1>1. status \in RowStatuses /\ EmailTypeOK
  BY DEF RowStatuses, IInv
<1>2. /\ row'[d].status = status
      /\ row'[d].attempt_count = row[d].attempt_count
      /\ \A e \in Deliveries \ {d} : row'[e] = row[e]
  BY <1>1, WithEffect
<1>3. Statuses' = [Statuses EXCEPT ![d] = status] /\ Attempts' = Attempts
  BY <1>2, AbstractUpdate
<1>4. status \in Lifecycle!AllowedTransitions["sending"] /\ "sending" \in Lifecycle!DeliveryStatuses
  BY DEF Lifecycle!AllowedTransitions, Lifecycle!DeliveryStatuses
<1> QED BY <1>3, <1>4 DEF Lifecycle!Transit, Statuses, Attempts

\* A claim is the transition to "sending", which counts an attempt.
LEMMA ClaimTransits ==
  ASSUME IInv, NEW w \in Workers, Claim(w), row' # row
  PROVE  Lifecycle!Transit(DeliveryOf(w), "sending")
<1> DEFINE d == DeliveryOf(w)
           at == sender[w].attempted_at
           count == row[d].attempt_count + 1
<1>1. d \in Deliveries /\ at \in Nat
  BY SenderFields DEF IInv
<1>2. /\ Claimable(d, at)
      /\ RowBecomes(d, "sending", count, at, NULL)
  BY DEF Claim, RowBecomes, DeliveryOf
<1>3. row[d].attempt_count < MaxAttempts /\ count \in 0..MaxAttempts
  BY <1>1, <1>2, ClaimableIsAlone, RowFields, EmailAssumption DEF IInv
<1>4. row[d].status \in {"pending", "retrying"}
  BY <1>2 DEF Claimable
<1> HIDE DEF count
<1>5. /\ row'[d].status = "sending"
      /\ row'[d].attempt_count = count
      /\ \A e \in Deliveries \ {d} : row'[e] = row[e]
  BY <1>1, <1>2, <1>3, RowEffect DEF IInv, RowStatuses
<1>6. /\ Statuses' = [Statuses EXCEPT ![d] = "sending"]
      /\ Attempts' = [Attempts EXCEPT ![d] = count]
  BY <1>1, <1>5, AbstractUpdate
<1>7. /\ row[d].status \in Lifecycle!DeliveryStatuses
      /\ "sending" \in Lifecycle!AllowedTransitions[row[d].status]
  BY <1>4 DEF Lifecycle!AllowedTransitions, Lifecycle!DeliveryStatuses
<1>8. Statuses[d] = row[d].status /\ Attempts[d] = row[d].attempt_count
  BY <1>1 DEF Statuses, Attempts
<1>9. Attempts' = [Attempts EXCEPT ![d] = @ + 1]
  BY <1>6, <1>8 DEF count
<1> HIDE DEF d
<1>10. Lifecycle!Transit(d, "sending")
  BY <1>1, <1>3, <1>6, <1>7, <1>8, <1>9 DEF Lifecycle!Transit, Statuses, Attempts
<1> QED BY <1>10 DEF d

LEMMA StepTransits ==
  ASSUME IInv, [Next]_vars
  PROVE  Lifecycle!LifecycleNext \/ UNCHANGED <<Statuses, Attempts>>
<1>1. CASE UNCHANGED row
  BY <1>1 DEF Statuses, Attempts
<1>2. ASSUME NEW d \in Deliveries, StoreDelivery(d)
      PROVE  Lifecycle!LifecycleNext
  <2>1. row[d].status = "absent" /\ row' = [row EXCEPT ![d] = NewRow("pending")]
    BY <1>2 DEF StoreDelivery
  <2>2. RowBecomes(d, "pending", 0, NULL, NULL)
    BY <2>1 DEF NewRow, RowBecomes
  <2>3. row[d].attempt_count = 0
    BY <2>1 DEF IInv, RowsAgree
  <2>4. /\ row'[d].status = "pending"
        /\ row'[d].attempt_count = 0
        /\ \A e \in Deliveries \ {d} : row'[e] = row[e]
    <3>1. "pending" \in RowStatuses /\ 0 \in 0..MaxAttempts
      BY EmailAssumption DEF RowStatuses
    <3> QED BY <2>2, <3>1, RowEffect DEF IInv
  <2>5. Statuses' = [Statuses EXCEPT ![d] = "pending"] /\ Attempts' = Attempts
    BY <2>3, <2>4, AbstractUpdate
  <2>6. Lifecycle!Create(d)
    BY <2>1, <2>5 DEF Lifecycle!Create, Statuses, Attempts
  <2> QED BY <2>6 DEF Lifecycle!LifecycleNext
<1>3. ASSUME NEW d \in Deliveries, RemoveDelivery(d)
      PROVE  Lifecycle!LifecycleNext
  <2>1. /\ row' = With(d, "gone", row[d].next_retry_at)
        /\ row[d].status \notin {"absent", "gone"}
    BY <1>3 DEF RemoveDelivery, Stored
  <2>2. row[d].status \in Lifecycle!DeliveryStatuses
    BY <2>1, RowFields DEF IInv, RowStatuses, Lifecycle!DeliveryStatuses
  <2>3. /\ row'[d].status = "gone"
        /\ row'[d].attempt_count = row[d].attempt_count
        /\ \A e \in Deliveries \ {d} : row'[e] = row[e]
    BY <2>1, RowFields, WithEffect DEF IInv, RowStatuses
  <2>4. Statuses' = [Statuses EXCEPT ![d] = "gone"] /\ Attempts' = Attempts
    BY <2>3, AbstractUpdate
  <2>5. Lifecycle!Remove(d)
    BY <2>2, <2>4 DEF Lifecycle!Remove, Statuses, Attempts
  <2> QED BY <2>5 DEF Lifecycle!LifecycleNext
<1>4. ASSUME NEW w \in Workers, Claim(w), row' # row
      PROVE  Lifecycle!LifecycleNext
  BY <1>4, ClaimTransits, SenderFields
     DEF IInv, Lifecycle!LifecycleNext, Lifecycle!DeliveryStatuses
<1>5. ASSUME NEW w \in Workers, RecordDelivered(w), row' # row
      PROVE  Lifecycle!LifecycleNext
  <2>1. /\ row[DeliveryOf(w)].status = "sending"
        /\ row' = With(DeliveryOf(w), "delivered", NULL)
    BY <1>5 DEF RecordDelivered, DeliveryOf
  <2>2. Lifecycle!Transit(DeliveryOf(w), "delivered")
    BY <2>1, WithTransits, SenderFields DEF IInv
  <2> QED BY <2>2, SenderFields DEF IInv, Lifecycle!LifecycleNext, Lifecycle!DeliveryStatuses
<1>6. ASSUME NEW w \in Workers, RecordFailure(w), row' # row
      PROVE  Lifecycle!LifecycleNext
  <2> DEFINE d == DeliveryOf(w)
             at == clock + RetryDelay(row[d].attempt_count)
  <2>1. /\ row[d].status = "sending"
        /\ \/ /\ row[d].attempt_count < MaxAttempts
              /\ row' = With(d, "retrying", at)
           \/ row' = With(d, "failed", NULL)
    BY <1>6 DEF RecordFailure, Retryable, DeliveryOf
  <2>2. d \in Deliveries /\ clock \in Nat
    BY SenderFields, ClockIsNat DEF IInv
  <2>3. at \in Nat
    <3>1. row[d].attempt_count \in Nat \ {0}
      BY <2>1, <2>2, RowFields, EmailAssumption DEF IInv, RowsAgree
    <3> QED BY <2>2, <3>1, RetryDelayIsNat
  <2> HIDE DEF at, d
  <2>4. Lifecycle!Transit(d, "retrying") \/ Lifecycle!Transit(d, "failed")
    BY <2>1, <2>2, <2>3, WithTransits
  <2> QED BY <2>2, <2>4 DEF Lifecycle!LifecycleNext, Lifecycle!DeliveryStatuses
<1> QED BY <1>1, <1>2, <1>3, <1>4, <1>5, <1>6, OnlyClaims

\* Email delivery implements the lifecycle of delivery_state.py: no fault of worker,
\* broker or provider takes a row through a transition that is not allowed there.
THEOREM EmailFollowsLifecycle == Spec => FollowsLifecycle
<1>1. Init => Lifecycle!LifecycleInit
  BY DEF Init, NewRow, Lifecycle!LifecycleInit
<1>2. IInv /\ [Next]_vars => [Lifecycle!LifecycleNext]_Lifecycle!lifecycleVars
  BY StepTransits DEF Lifecycle!lifecycleVars, Statuses, Attempts
<1> QED
  BY <1>1, <1>2, EmailInvariant, PTL DEF Spec, FollowsLifecycle, Lifecycle!LifecycleSpec
=============================================================================
