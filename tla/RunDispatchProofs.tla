------------------------- MODULE RunDispatchProofs -------------------------
(***************************************************************************)
(* The dispatch of runs for any number of monitors, scheduler processes    *)
(* and workers, any clock and any number of faults.                        *)
(*                                                                         *)
(* What the runs check is not inductive.  That a commit of enqueued_at     *)
(* finds its run on its way needs what the transaction before it sent;     *)
(* that no worker consumes the message in between needs the lock on the    *)
(* run; that a batch names slots inside the clock's range needs the locks  *)
(* on the monitors, which keep next_check_at where the SELECT saw it; and  *)
(* one claim per run needs that a worker executes only a running run, and  *)
(* no two workers the same one.                                            *)
(***************************************************************************)
EXTENDS RunDispatch, QueueLemmas, TLAPS

\* A locked monitor is still due, and no two cycles have locked the same one.
BatchesAreDue ==
    \A p \in Dispatchers :
        /\ dispatcher[p].batch # {} => dispatcher[p].phase = "scheduling"
        /\ \A m \in dispatcher[p].batch : Due(m, dispatcher[p].cutoff)
        /\ \A q \in Dispatchers \ {p} :
               dispatcher[p].batch \cap dispatcher[q].batch = {}

\* A locked run is pending, and no two cycles have locked the same one.
HeldArePending ==
    \A p \in Dispatchers :
        /\ dispatcher[p].run = NULL <=> dispatcher[p].phase \notin {"sending", "sent"}
        /\ dispatcher[p].run # NULL =>
               /\ dispatcher[p].run \in Pending
               /\ \A q \in Dispatchers \ {p} : dispatcher[q].run # dispatcher[p].run

\* A run is claimed when it leaves "queued" for "running", and one worker has it.
ExecutingAreRunning ==
    /\ \A r \in Runs : run[r] \in {"absent", "queued"} => claims[r] = 0
    /\ \A w \in Workers :
        /\ worker[w].phase # "idle" => worker[w].run # NULL
        /\ worker[w].phase = "executing" =>
               /\ run[worker[w].run] = "running"
               /\ \A v \in Workers \ {w} :
                      worker[v].phase = "executing" => worker[v].run # worker[w].run

\* Where the message of a run is.
OnItsWay(r) ==
    \/ r \in BagToSet(queue)
    \/ \E w \in Workers : worker[w].phase = "received" /\ worker[w].run = r
    \/ r \in lost

SentAreOnTheirWay ==
    /\ \A r \in enqueued :
           run[r] # "absent" /\ (run[r] = "queued" => OnItsWay(r))
    /\ \A p \in Dispatchers :
           dispatcher[p].phase = "sent" => OnItsWay(dispatcher[p].run)

IInv ==
    /\ DispatchTypeOK
    /\ BatchesAreDue
    /\ HeldArePending
    /\ ExecutingAreRunning
    /\ SentAreOnTheirWay

-----------------------------------------------------------------------------
(* What a step does to the record of its process.                             *)

\* NULL is no run, and a slot of a monitor is one.
LEMMA RunsAreNotNull ==
  /\ NULL \notin Runs
  /\ \A m \in Monitors, s \in Slots : <<m, s>> \in Runs
  /\ \A r \in Runs : r[1] \in Monitors /\ r[2] \in Slots
BY DispatchAssumption DEF Runs, Slots

\* Process p alone changes, to the given fields.
Becomes(p, phase, cutoff, batch, r) ==
    dispatcher' = [dispatcher EXCEPT ![p] =
        [phase |-> phase, cutoff |-> cutoff, batch |-> batch, run |-> r]]

LEMMA DispatcherForms ==
  ASSUME NEW p \in Dispatchers
  PROVE  /\ EndCycle(p) => Becomes(p, "idle", 0, {}, NULL)
         /\ Enqueuing(p) => Becomes(p, "enqueuing", 0, {}, NULL)
         /\ StartCycle(p) => Becomes(p, "started", now, {}, NULL)
         /\ SelectDue(p) =>
               Becomes(p, "scheduling", dispatcher[p].cutoff,
                       {m \in Monitors \ LockedMonitors :
                            Due(m, dispatcher[p].cutoff)}, NULL)
         /\ SelectRun(p) =>
               \/ Becomes(p, "idle", 0, {}, NULL)
               \/ \E r \in Pending \ LockedRuns : Becomes(p, "sending", 0, {}, r)
         /\ Holds(p, "sent", dispatcher[p].run) =>
               Becomes(p, "sent", 0, {}, dispatcher[p].run)
<1>1. EndCycle(p) => Becomes(p, "idle", 0, {}, NULL)
  BY DEF EndCycle, Becomes, Resting
<1>2. Enqueuing(p) => Becomes(p, "enqueuing", 0, {}, NULL)
  BY DEF Enqueuing, Becomes, Resting
<1>3. StartCycle(p) => Becomes(p, "started", now, {}, NULL)
  BY DEF StartCycle, Becomes, Resting
<1>4. SelectDue(p) =>
        Becomes(p, "scheduling", dispatcher[p].cutoff,
                {m \in Monitors \ LockedMonitors : Due(m, dispatcher[p].cutoff)}, NULL)
  BY DEF SelectDue, Becomes, Resting
<1>5. SelectRun(p) =>
        \/ Becomes(p, "idle", 0, {}, NULL)
        \/ \E r \in Pending \ LockedRuns : Becomes(p, "sending", 0, {}, r)
  <2> SUFFICES ASSUME SelectRun(p), ~Becomes(p, "idle", 0, {}, NULL)
               PROVE  \E r \in Pending \ LockedRuns : Becomes(p, "sending", 0, {}, r)
    OBVIOUS
  <2>1. EndCycle(p) \/ \E r \in Pending \ LockedRuns : Holds(p, "sending", r)
    BY Zenon DEF SelectRun
  <2> QED BY <1>1, <2>1 DEF Becomes, Holds
<1>6. Holds(p, "sent", dispatcher[p].run) =>
               Becomes(p, "sent", 0, {}, dispatcher[p].run)
  BY DEF Holds, Becomes
<1> QED BY <1>1, <1>2, <1>3, <1>4, <1>5, <1>6

\* The record of process p after a step, and those of the others.
LEMMA BecomesEffect ==
  ASSUME DispatchTypeOK, NEW p \in Dispatchers, NEW phase \in DispatcherPhases,
         NEW cutoff \in Slots, NEW batch \in SUBSET Monitors, NEW r \in Runs \cup {NULL},
         Becomes(p, phase, cutoff, batch, r)
  PROVE  /\ dispatcher' \in [Dispatchers -> DispatcherRecords]
         /\ dispatcher'[p].phase = phase
         /\ dispatcher'[p].cutoff = cutoff
         /\ dispatcher'[p].batch = batch
         /\ dispatcher'[p].run = r
         /\ \A q \in Dispatchers \ {p} : dispatcher'[q] = dispatcher[q]
<1> DEFINE new == [phase |-> phase, cutoff |-> cutoff, batch |-> batch, run |-> r]
<1>1. new \in DispatcherRecords
  BY DEF DispatcherRecords
<1>2. /\ new.phase = phase
      /\ new.cutoff = cutoff
      /\ new.batch = batch
      /\ new.run = r
  OBVIOUS
<1>3. /\ dispatcher \in [Dispatchers -> DispatcherRecords]
      /\ dispatcher' = [dispatcher EXCEPT ![p] = new]
  BY DEF DispatchTypeOK, Becomes
<1> HIDE DEF new
<1>4. /\ dispatcher' \in [Dispatchers -> DispatcherRecords]
      /\ dispatcher'[p] = new
      /\ \A q \in Dispatchers \ {p} : dispatcher'[q] = dispatcher[q]
  BY <1>1, <1>3
<1> QED BY <1>2, <1>4

-----------------------------------------------------------------------------
(* What the steps of the workers and of the queue do to their records.        *)

LEMMA WorkerEffect ==
  ASSUME DispatchTypeOK, NEW w \in Workers,
         NEW phase \in {"idle", "received", "executing"}, NEW r \in Runs \cup {NULL},
         worker' = [worker EXCEPT ![w] = [phase |-> phase, run |-> r]]
  PROVE  /\ worker' \in [Workers -> WorkerRecords]
         /\ worker'[w].phase = phase
         /\ worker'[w].run = r
         /\ \A v \in Workers \ {w} : worker'[v] = worker[v]
<1> DEFINE new == [phase |-> phase, run |-> r]
<1>1. new \in WorkerRecords /\ new.phase = phase /\ new.run = r
  BY DEF WorkerRecords
<1>2. worker \in [Workers -> WorkerRecords] /\ worker' = [worker EXCEPT ![w] = new]
  BY DEF DispatchTypeOK
<1> HIDE DEF new
<1>3. /\ worker' \in [Workers -> WorkerRecords]
      /\ worker'[w] = new
      /\ \A v \in Workers \ {w} : worker'[v] = worker[v]
  BY <1>1, <1>2
<1> QED BY <1>1, <1>3
-----------------------------------------------------------------------------
(* The steps, by what they change.                                            *)

\* A cycle that gives up its locks, or starts: the other conjuncts follow when
\* no other cycle's lock is broken.
LEMMA RestingKeeps ==
  ASSUME IInv, NEW p \in Dispatchers, NEW phase \in {"idle", "started", "enqueuing"},
         NEW cutoff \in Slots, Becomes(p, phase, cutoff, {}, NULL)
  PROVE  /\ dispatcher' \in [Dispatchers -> DispatcherRecords]
         /\ (\A m \in Monitors \ dispatcher[p].batch : nextCheck'[m] = nextCheck[m])
               => BatchesAreDue'
         /\ (\A r \in Pending : r # dispatcher[p].run => r \in Pending')
               => HeldArePending'
         /\ \A q \in Dispatchers : dispatcher'[q].phase = "sent" =>
               dispatcher[q].phase = "sent" /\ dispatcher'[q].run = dispatcher[q].run
<1> USE DEF IInv
<1>1. /\ dispatcher' \in [Dispatchers -> DispatcherRecords]
      /\ dispatcher'[p].phase = phase
      /\ dispatcher'[p].batch = {}
      /\ dispatcher'[p].run = NULL
      /\ \A q \in Dispatchers \ {p} : dispatcher'[q] = dispatcher[q]
  BY BecomesEffect DEF DispatcherPhases
<1>2. \A q \in Dispatchers : dispatcher[q].batch \subseteq Monitors
  BY DEF DispatchTypeOK, DispatcherRecords
<1>3. ASSUME \A m \in Monitors \ dispatcher[p].batch : nextCheck'[m] = nextCheck[m]
      PROVE  BatchesAreDue'
  BY <1>1, <1>2, <1>3 DEF BatchesAreDue, Due, Active
<1>4. ASSUME \A r \in Pending : r # dispatcher[p].run => r \in Pending'
      PROVE  HeldArePending'
  BY <1>1, <1>4 DEF HeldArePending
<1>5. \A q \in Dispatchers : dispatcher'[q].phase = "sent" =>
        dispatcher[q].phase = "sent" /\ dispatcher'[q].run = dispatcher[q].run
  BY <1>1
<1> QED BY <1>1, <1>3, <1>4, <1>5

\* A message or a worker's run that does not change stays on its way.
LEMMA OnItsWayStays ==
  ASSUME UNCHANGED <<queue, worker, lost>>
  PROVE  \A r : OnItsWay(r) => OnItsWay(r)'
BY DEF OnItsWay

LEMMA TickKeeps ==
  ASSUME IInv, Tick
  PROVE  IInv'
<1> USE DEF IInv, Tick
<1>1. DispatchTypeOK'
  BY DispatchAssumption DEF DispatchTypeOK, Slots
<1>2. BatchesAreDue' /\ HeldArePending' /\ ExecutingAreRunning' /\ SentAreOnTheirWay'
  BY DEF BatchesAreDue, Due, Active, HeldArePending, Pending, ExecutingAreRunning,
         SentAreOnTheirWay, OnItsWay
<1> QED BY <1>1, <1>2

\* The requests wait for the locks, so that a batch stays due.
LEMMA RequestsKeep ==
  ASSUME IInv, NEW m \in Monitors, PauseMonitor(m) \/ ResumeMonitor(m)
  PROVE  IInv'
<1> USE DEF IInv
<1>1. /\ UNCHANGED <<now, run, claims, enqueued, queue, dispatcher, worker, faults, lost>>
      /\ m \notin LockedMonitors
      /\ \E c \in 0..(MaxTime + 1) \cup {NULL} : nextCheck' = [nextCheck EXCEPT ![m] = c]
  <2>1. CASE PauseMonitor(m)
    BY <2>1 DEF PauseMonitor
  <2>2. CASE ResumeMonitor(m)
    <3>1. PICK read \in Slots : nextCheck' = [nextCheck EXCEPT ![m] = read + 1]
      BY <2>2 DEF ResumeMonitor
    <3>2. read + 1 \in 0..(MaxTime + 1)
      BY DispatchAssumption DEF Slots
    <3> QED BY <2>2, <3>1, <3>2 DEF ResumeMonitor
  <2> QED BY <2>1, <2>2
<1>2. DispatchTypeOK'
  BY <1>1 DEF DispatchTypeOK
<1>3. BatchesAreDue'
  BY <1>1 DEF BatchesAreDue, Due, Active, LockedMonitors, DispatchTypeOK, DispatcherRecords
<1>4. HeldArePending' /\ ExecutingAreRunning' /\ SentAreOnTheirWay'
  BY <1>1 DEF HeldArePending, Pending, ExecutingAreRunning, SentAreOnTheirWay, OnItsWay
<1> QED BY <1>2, <1>3, <1>4

LEMMA StartCycleKeeps ==
  ASSUME IInv, NEW p \in Dispatchers, StartCycle(p)
  PROVE  IInv'
<1> USE DEF IInv
<1>1. UNCHANGED <<now, nextCheck, run, claims, enqueued, queue, worker, faults, lost>>
  BY DEF StartCycle
<1>2. Becomes(p, "started", now, {}, NULL) /\ now \in Slots
  BY DispatcherForms DEF DispatchTypeOK
<1>3. /\ dispatcher' \in [Dispatchers -> DispatcherRecords]
      /\ BatchesAreDue'
      /\ HeldArePending'
      /\ \A q \in Dispatchers : dispatcher'[q].phase = "sent" =>
            dispatcher[q].phase = "sent" /\ dispatcher'[q].run = dispatcher[q].run
  BY <1>1, <1>2, RestingKeeps DEF Pending
<1>4. DispatchTypeOK'
  BY <1>1, <1>3 DEF DispatchTypeOK
<1>5. ExecutingAreRunning' /\ SentAreOnTheirWay'
  BY <1>1, <1>3 DEF ExecutingAreRunning, SentAreOnTheirWay, OnItsWay
<1> QED BY <1>3, <1>4, <1>5

\* SKIP LOCKED keeps the batches apart.
LEMMA SelectDueKeeps ==
  ASSUME IInv, NEW p \in Dispatchers, SelectDue(p)
  PROVE  IInv'
<1> DEFINE cutoff == dispatcher[p].cutoff
           batch == {m \in Monitors \ LockedMonitors : Due(m, cutoff)}
<1> USE DEF IInv
<1>1. /\ UNCHANGED <<now, nextCheck, run, claims, enqueued, queue, worker, faults, lost>>
      /\ dispatcher[p].phase = "started"
  BY DEF SelectDue
<1>2. Becomes(p, "scheduling", cutoff, batch, NULL)
  BY DispatcherForms
<1>3. cutoff \in Slots /\ batch \in SUBSET Monitors /\ "scheduling" \in DispatcherPhases
  BY DEF DispatchTypeOK, DispatcherRecords, DispatcherPhases
<1>4. /\ dispatcher' \in [Dispatchers -> DispatcherRecords]
      /\ dispatcher'[p].phase = "scheduling"
      /\ dispatcher'[p].cutoff = cutoff
      /\ dispatcher'[p].batch = batch
      /\ dispatcher'[p].run = NULL
      /\ \A q \in Dispatchers \ {p} : dispatcher'[q] = dispatcher[q]
  BY <1>2, <1>3, BecomesEffect
<1>5. \A m \in batch : /\ Due(m, cutoff)
                       /\ \A q \in Dispatchers : m \notin dispatcher[q].batch
  BY DEF LockedMonitors
<1> HIDE DEF batch, cutoff
<1>6. DispatchTypeOK'
  BY <1>1, <1>4 DEF DispatchTypeOK
<1>7. BatchesAreDue'
  <2>1. ASSUME NEW q \in Dispatchers, q # p
        PROVE  /\ dispatcher'[q].batch # {} => dispatcher'[q].phase = "scheduling"
               /\ \A m \in dispatcher'[q].batch : Due(m, dispatcher[q].cutoff)
               /\ \A o \in Dispatchers \ {q} :
                      dispatcher'[q].batch \cap dispatcher'[o].batch = {}
    BY <1>4, <1>5, <2>1 DEF BatchesAreDue
  <2>2. \A o \in Dispatchers \ {p} : batch \cap dispatcher'[o].batch = {}
    BY <1>4, <1>5
  <2> QED BY <1>1, <1>4, <1>5, <2>1, <2>2 DEF BatchesAreDue, Due, Active
<1>8. HeldArePending'
  BY <1>1, <1>4 DEF HeldArePending, Pending
<1>9. ExecutingAreRunning' /\ SentAreOnTheirWay'
  BY <1>1, <1>4 DEF ExecutingAreRunning, SentAreOnTheirWay, OnItsWay
<1> QED BY <1>6, <1>7, <1>8, <1>9
\* One slot of each locked monitor gets its run, which no other cycle has locked.
LEMMA CreateRunsKeeps ==
  ASSUME IInv, NEW p \in Dispatchers, CreateRuns(p)
  PROVE  IInv'
<1> DEFINE batch == dispatcher[p].batch
           slots == {<<m, nextCheck[m]>> : m \in batch}
<1> USE DEF IInv
<1>1. /\ UNCHANGED <<now, claims, enqueued, queue, worker, faults, lost>>
      /\ dispatcher[p].phase = "scheduling"
      /\ run' = [r \in Runs |->
                   IF r \in slots /\ run[r] = "absent" THEN "queued" ELSE run[r]]
      /\ nextCheck' = [m \in Monitors |->
                         IF m \in batch THEN nextCheck[m] + 1 ELSE nextCheck[m]]
  BY DEF CreateRuns
<1>2. Becomes(p, "enqueuing", 0, {}, NULL)
  <2>1. Enqueuing(p)
    BY DEF CreateRuns
  <2> QED BY <2>1, DispatcherForms
<1>3. 0 \in Slots
  BY DispatchAssumption DEF Slots
<1>4. batch \subseteq Monitors
  BY DEF DispatchTypeOK, DispatcherRecords
<1> HIDE DEF slots
<1>5. \A r \in Runs : /\ run'[r] \in {"absent", "queued", "running", "settled"}
                      /\ run'[r] = run[r] \/ (run[r] = "absent" /\ run'[r] = "queued")
  BY <1>1 DEF DispatchTypeOK
<1>6. \A r \in Pending : r \in Pending'
  BY <1>1, <1>5 DEF Pending
<1>7. \A m \in Monitors \ batch : nextCheck'[m] = nextCheck[m]
  BY <1>1
<1>8. /\ dispatcher' \in [Dispatchers -> DispatcherRecords]
      /\ BatchesAreDue'
      /\ HeldArePending'
      /\ \A q \in Dispatchers : dispatcher'[q].phase = "sent" =>
            dispatcher[q].phase = "sent" /\ dispatcher'[q].run = dispatcher[q].run
  BY <1>2, <1>3, <1>6, <1>7, RestingKeeps
<1>9. nextCheck' \in [Monitors -> 0..(MaxTime + 1) \cup {NULL}]
  <2>1. ASSUME NEW m \in batch
        PROVE  nextCheck[m] + 1 \in 0..(MaxTime + 1)
    <3>1. /\ nextCheck[m] \in 0..(MaxTime + 1)
          /\ dispatcher[p].cutoff \in 0..MaxTime
          /\ nextCheck[m] <= dispatcher[p].cutoff
      BY <1>4 DEF BatchesAreDue, Due, Active, DispatchTypeOK, DispatcherRecords, Slots
    <3> QED BY <3>1, DispatchAssumption
  <2>2. nextCheck \in [Monitors -> 0..(MaxTime + 1) \cup {NULL}]
    BY DEF DispatchTypeOK
  <2> QED BY <1>1, <2>1, <2>2
<1>10. run' \in [Runs -> {"absent", "queued", "running", "settled"}]
  BY <1>1, <1>5
<1>11. DispatchTypeOK'
  BY <1>1, <1>8, <1>9, <1>10 DEF DispatchTypeOK
<1>12. ExecutingAreRunning'
  <2>1. \A w \in Workers : worker[w].run \in Runs \cup {NULL}
    BY DEF DispatchTypeOK, WorkerRecords
  <2> QED BY <1>1, <1>5, <2>1 DEF ExecutingAreRunning
<1>13. SentAreOnTheirWay'
  <2>1. \A r \in enqueued : run'[r] = run[r]
    BY <1>5 DEF DispatchTypeOK, SentAreOnTheirWay
  <2> QED BY <1>1, <1>8, <2>1, OnItsWayStays DEF SentAreOnTheirWay
<1> QED BY <1>8, <1>11, <1>12, <1>13
\* A cycle, or its process, gives up: its locks are released.
LEMMA GivingUpKeeps ==
  ASSUME IInv, NEW p \in Dispatchers, NEW phase \in {"idle", "enqueuing"},
         Becomes(p, phase, 0, {}, NULL), Fault,
         UNCHANGED <<now, nextCheck, run, claims, enqueued, queue, worker, lost>>
  PROVE  IInv'
<1> USE DEF IInv
<1>1. 0 \in Slots
  BY DispatchAssumption DEF Slots
<1>2. /\ dispatcher' \in [Dispatchers -> DispatcherRecords]
      /\ BatchesAreDue'
      /\ HeldArePending'
      /\ \A q \in Dispatchers : dispatcher'[q].phase = "sent" =>
            dispatcher[q].phase = "sent" /\ dispatcher'[q].run = dispatcher[q].run
  BY <1>1, RestingKeeps DEF Pending
<1>3. faults' \in 0..MaxFaults
  BY DispatchAssumption DEF Fault, DispatchTypeOK
<1>4. DispatchTypeOK'
  BY <1>2, <1>3 DEF DispatchTypeOK
<1>5. ExecutingAreRunning' /\ SentAreOnTheirWay'
  BY <1>2 DEF ExecutingAreRunning, SentAreOnTheirWay, OnItsWay
<1> QED BY <1>2, <1>4, <1>5

LEMMA CreateRunsFailsKeeps ==
  ASSUME IInv, NEW p \in Dispatchers, CreateRunsFails(p)
  PROVE  IInv'
<1>1. /\ Enqueuing(p)
      /\ Fault
      /\ UNCHANGED <<now, nextCheck, run, claims, enqueued, queue, worker, lost>>
  BY DEF CreateRunsFails
<1> QED BY <1>1, DispatcherForms, GivingUpKeeps

LEMMA DispatcherDiesKeeps ==
  ASSUME IInv, NEW p \in Dispatchers, DispatcherDies(p)
  PROVE  IInv'
<1>1. /\ EndCycle(p)
      /\ Fault
      /\ UNCHANGED <<now, nextCheck, run, claims, enqueued, queue, worker, lost>>
  BY DEF DispatcherDies
<1> QED BY <1>1, DispatcherForms, GivingUpKeeps

\* The locks keep the runs that cycles send apart.
LEMMA SelectRunKeeps ==
  ASSUME IInv, NEW p \in Dispatchers, SelectRun(p)
  PROVE  IInv'
<1> USE DEF IInv
<1>1. /\ UNCHANGED <<now, nextCheck, run, claims, enqueued, queue, worker, faults, lost>>
      /\ dispatcher[p].phase = "enqueuing"
  BY DEF SelectRun
<1>2. 0 \in Slots
  BY DispatchAssumption DEF Slots
<1>3. CASE Becomes(p, "idle", 0, {}, NULL)
  <2>1. /\ dispatcher' \in [Dispatchers -> DispatcherRecords]
        /\ BatchesAreDue'
        /\ HeldArePending'
        /\ \A q \in Dispatchers : dispatcher'[q].phase = "sent" =>
              dispatcher[q].phase = "sent" /\ dispatcher'[q].run = dispatcher[q].run
    BY <1>1, <1>2, <1>3, RestingKeeps DEF Pending
  <2>2. DispatchTypeOK'
    BY <1>1, <2>1 DEF DispatchTypeOK
  <2>3. ExecutingAreRunning' /\ SentAreOnTheirWay'
    BY <1>1, <2>1 DEF ExecutingAreRunning, SentAreOnTheirWay, OnItsWay
  <2> QED BY <2>1, <2>2, <2>3
<1>4. ASSUME NEW r \in Pending \ LockedRuns, Becomes(p, "sending", 0, {}, r)
      PROVE  IInv'
  <2>1. r \in Runs /\ r # NULL
    BY RunsAreNotNull DEF Pending
  <2>2. "sending" \in DispatcherPhases /\ {} \in SUBSET Monitors
    BY DEF DispatcherPhases
  <2>3. /\ dispatcher' \in [Dispatchers -> DispatcherRecords]
        /\ dispatcher'[p].phase = "sending"
        /\ dispatcher'[p].batch = {}
        /\ dispatcher'[p].run = r
        /\ \A q \in Dispatchers \ {p} : dispatcher'[q] = dispatcher[q]
    BY <1>2, <1>4, <2>1, <2>2, BecomesEffect
  <2>4. \A q \in Dispatchers : dispatcher[q].run # r
    BY <1>4, <2>1 DEF LockedRuns
  <2>5. DispatchTypeOK'
    BY <1>1, <2>3 DEF DispatchTypeOK
  <2>6. BatchesAreDue'
    BY <1>1, <2>3 DEF BatchesAreDue, Due, Active
  <2>7. HeldArePending'
    BY <1>1, <1>4, <2>1, <2>3, <2>4 DEF HeldArePending, Pending
  <2>8. ExecutingAreRunning' /\ SentAreOnTheirWay'
    BY <1>1, <2>3 DEF ExecutingAreRunning, SentAreOnTheirWay, OnItsWay
  <2> QED BY <2>5, <2>6, <2>7, <2>8
<1> QED BY <1>3, <1>4, DispatcherForms

\* The message of the locked run is in the queue, or the cycle ends.
LEMMA SendRunKeeps ==
  ASSUME IInv, NEW p \in Dispatchers, SendRun(p)
  PROVE  IInv'
<1> USE DEF IInv
<1>1. /\ dispatcher[p].phase = "sending"
      /\ UNCHANGED <<now, nextCheck, run, claims, enqueued, worker, lost>>
  BY DEF SendRun
<1> DEFINE r == dispatcher[p].run
<1>2. CASE Fault /\ EndCycle(p) /\ UNCHANGED queue
  BY <1>1, <1>2, DispatcherForms, GivingUpKeeps
<1>3. CASE /\ queue' = queue (+) SetToBag({r})
           /\ Holds(p, "sent", r)
           /\ UNCHANGED faults
  <2>1. r \in Runs /\ r # NULL /\ r \in Pending
    BY <1>1, RunsAreNotNull DEF HeldArePending, Pending
  <2>2. Becomes(p, "sent", 0, {}, r)
    BY <1>3, DispatcherForms
  <2>3. 0 \in Slots /\ "sent" \in DispatcherPhases /\ {} \in SUBSET Monitors
    BY DispatchAssumption DEF Slots, DispatcherPhases
  <2>4. IsABag(queue') /\ BagToSet(queue') = BagToSet(queue) \cup {r}
    BY <1>3, AddMessage DEF DispatchTypeOK
  <2>5. /\ dispatcher' \in [Dispatchers -> DispatcherRecords]
        /\ dispatcher'[p].phase = "sent"
        /\ dispatcher'[p].batch = {}
        /\ dispatcher'[p].run = r
        /\ \A q \in Dispatchers \ {p} : dispatcher'[q] = dispatcher[q]
    BY <2>1, <2>2, <2>3, BecomesEffect
  <2>6. DispatchTypeOK'
    BY <1>1, <1>3, <2>1, <2>4, <2>5 DEF DispatchTypeOK
  <2>7. BatchesAreDue'
    BY <1>1, <2>5 DEF BatchesAreDue, Due, Active
  <2>8. HeldArePending'
    BY <1>1, <2>1, <2>5 DEF HeldArePending, Pending
  <2>9. ExecutingAreRunning'
    BY <1>1 DEF ExecutingAreRunning
  <2>10. \A o : o = r \/ OnItsWay(o) => OnItsWay(o)'
    BY <1>1, <2>4 DEF OnItsWay
  <2>11. SentAreOnTheirWay'
    BY <1>1, <2>5, <2>10 DEF SentAreOnTheirWay
  <2> QED BY <2>6, <2>7, <2>8, <2>9, <2>11
<1> QED BY <1>2, <1>3 DEF SendRun
\* The run's message was sent before this commit.
LEMMA MarkEnqueuedKeeps ==
  ASSUME IInv, NEW p \in Dispatchers, MarkEnqueued(p)
  PROVE  IInv'
<1> USE DEF IInv
<1> DEFINE r == dispatcher[p].run
<1>1. /\ dispatcher[p].phase = "sent"
      /\ UNCHANGED <<now, nextCheck, run, claims, queue, worker, lost>>
  BY DEF MarkEnqueued
<1>2. CASE Fault /\ EndCycle(p) /\ UNCHANGED enqueued
  BY <1>1, <1>2, DispatcherForms, GivingUpKeeps
<1>3. CASE enqueued' = enqueued \cup {r} /\ Enqueuing(p) /\ UNCHANGED faults
  <2>1. r \in Pending /\ r \in Runs /\ run[r] = "queued" /\ OnItsWay(r)
    BY <1>1 DEF HeldArePending, SentAreOnTheirWay, Pending
  <2>2. 0 \in Slots
    BY DispatchAssumption DEF Slots
  <2>3. \A q \in Pending : q # r => q \in Pending'
    BY <1>1, <1>3 DEF Pending
  <2>4. /\ dispatcher' \in [Dispatchers -> DispatcherRecords]
        /\ BatchesAreDue'
        /\ HeldArePending'
        /\ \A q \in Dispatchers : dispatcher'[q].phase = "sent" =>
              dispatcher[q].phase = "sent" /\ dispatcher'[q].run = dispatcher[q].run
    BY <1>1, <1>3, <2>2, <2>3, DispatcherForms, RestingKeeps
  <2>5. DispatchTypeOK'
    BY <1>1, <1>3, <2>1, <2>4 DEF DispatchTypeOK
  <2>6. ExecutingAreRunning'
    BY <1>1 DEF ExecutingAreRunning
  <2>7. SentAreOnTheirWay'
    BY <1>1, <1>3, <2>1, <2>4, OnItsWayStays DEF SentAreOnTheirWay
  <2> QED BY <2>4, <2>5, <2>6, <2>7
<1> QED BY <1>2, <1>3 DEF MarkEnqueued

\* The message moves from the queue to the worker's hand.
LEMMA ReceiveRunKeeps ==
  ASSUME IInv, NEW w \in Workers, NEW r \in BagToSet(queue), ReceiveRun(w, r)
  PROVE  IInv'
<1> USE DEF IInv
<1>1. /\ worker[w].phase = "idle"
      /\ queue' = queue (-) SetToBag({r})
      /\ worker' = [worker EXCEPT ![w] = [phase |-> "received", run |-> r]]
      /\ UNCHANGED <<now, nextCheck, run, claims, enqueued, dispatcher, faults, lost>>
  BY DEF ReceiveRun
<1>2. r \in Runs /\ r # NULL
  BY RunsAreNotNull DEF DispatchTypeOK
<1>3. /\ IsABag(queue')
      /\ BagToSet(queue') \subseteq BagToSet(queue)
      /\ \A o \in BagToSet(queue) : o # r => o \in BagToSet(queue')
  BY <1>1, TakeMessage DEF DispatchTypeOK
<1>4. /\ worker' \in [Workers -> WorkerRecords]
      /\ worker'[w].phase = "received"
      /\ worker'[w].run = r
      /\ \A v \in Workers \ {w} : worker'[v] = worker[v]
  BY <1>1, <1>2, WorkerEffect
<1>5. DispatchTypeOK'
  BY <1>1, <1>3, <1>4 DEF DispatchTypeOK
<1>6. BatchesAreDue' /\ HeldArePending'
  BY <1>1 DEF BatchesAreDue, Due, Active, HeldArePending, Pending
<1>7. ExecutingAreRunning'
  BY <1>1, <1>2, <1>4 DEF ExecutingAreRunning
<1>8. \A o : OnItsWay(o) => OnItsWay(o)'
  BY <1>1, <1>3, <1>4 DEF OnItsWay
<1>9. SentAreOnTheirWay'
  BY <1>1, <1>8 DEF SentAreOnTheirWay
<1> QED BY <1>5, <1>6, <1>7, <1>9

\* A worker is done with run r, whose status is no longer "queued" or whose
\* message is lost.
LEMMA FreeingKeeps ==
  ASSUME IInv, NEW w \in Workers, worker[w].phase # "idle",
         worker' = [worker EXCEPT ![w] = Free],
         lost \subseteq lost', lost' \subseteq Runs, faults' \in 0..MaxFaults,
         UNCHANGED <<now, nextCheck, enqueued, queue, dispatcher, claims>>,
         \/ UNCHANGED run
         \/ /\ worker[w].run \notin LockedRuns
            /\ run[worker[w].run] \in {"queued", "running"}
            /\ run' = [run EXCEPT ![worker[w].run] = "settled"]
            /\ \A v \in Workers \ {w} :
                   worker[v].phase = "executing" => worker[v].run # worker[w].run,
         \/ run'[worker[w].run] # "queued"
         \/ worker[w].phase # "received"
         \/ worker[w].run \in lost'
  PROVE  IInv'
<1> USE DEF IInv
<1> DEFINE r == worker[w].run
<1>1. r \in Runs
  BY DEF ExecutingAreRunning, DispatchTypeOK, WorkerRecords
<1>2. /\ worker' \in [Workers -> WorkerRecords]
      /\ worker'[w].phase = "idle"
      /\ \A v \in Workers \ {w} : worker'[v] = worker[v]
  BY WorkerEffect DEF Free
<1>3. /\ run' \in [Runs -> {"absent", "queued", "running", "settled"}]
      /\ \A o \in Runs : o # r => run'[o] = run[o]
      /\ \A o \in Runs : run'[o] \in {"absent", "queued"} => run'[o] = run[o]
      /\ \A o \in Runs : run'[o] = "absent" <=> run[o] = "absent"
  BY <1>1 DEF DispatchTypeOK
<1>4. DispatchTypeOK'
  BY <1>2, <1>3 DEF DispatchTypeOK
<1>5. BatchesAreDue'
  BY DEF BatchesAreDue, Due, Active
<1>6. HeldArePending'
  <2>1. \A p \in Dispatchers : dispatcher[p].run # NULL => run'[dispatcher[p].run] = "queued"
    BY <1>1, <1>3 DEF HeldArePending, Pending, LockedRuns
  <2> QED BY <2>1 DEF HeldArePending, Pending
<1>7. ExecutingAreRunning'
  BY <1>1, <1>2, <1>3 DEF ExecutingAreRunning, DispatchTypeOK, WorkerRecords
<1>8. \A o \in Runs : run'[o] = "queued" /\ OnItsWay(o) => OnItsWay(o)'
  BY <1>2 DEF OnItsWay
<1>9. SentAreOnTheirWay'
  <2>1. \A o \in enqueued : o \in Runs
    BY DEF DispatchTypeOK
  <2>2. \A p \in Dispatchers : dispatcher'[p].phase = "sent" =>
          dispatcher'[p].run \in Runs /\ run'[dispatcher'[p].run] = "queued"
    BY <1>6 DEF HeldArePending, Pending
  <2> QED BY <1>3, <1>8, <2>1, <2>2 DEF SentAreOnTheirWay
<1> QED BY <1>4, <1>5, <1>6, <1>7, <1>9
LEMMA WorkersHaveRuns ==
  ASSUME IInv, NEW w \in Workers, worker[w].phase # "idle"
  PROVE  worker[w].run \in Runs
BY DEF IInv, ExecutingAreRunning, DispatchTypeOK, WorkerRecords

\* A claim waits for the lock of the run, so that no cycle is sending it.
LEMMA ClaimRunKeeps ==
  ASSUME IInv, NEW w \in Workers, ClaimRun(w)
  PROVE  IInv'
<1> DEFINE r == worker[w].run
<1>1. /\ worker[w].phase = "received"
      /\ r \notin LockedRuns
      /\ UNCHANGED <<now, nextCheck, enqueued, queue, dispatcher, faults, lost>>
  BY DEF ClaimRun
<1>2. r \in Runs /\ lost \subseteq Runs /\ faults \in 0..MaxFaults
  BY <1>1, WorkersHaveRuns DEF IInv, DispatchTypeOK
<1>3. CASE /\ Claimable(r)
           /\ run' = [run EXCEPT ![r] = "settled"]
           /\ worker' = [worker EXCEPT ![w] = Free]
           /\ UNCHANGED claims
  <2>1. \A v \in Workers \ {w} : worker[v].phase = "executing" => worker[v].run # r
    BY <1>3 DEF IInv, ExecutingAreRunning, Claimable
  <2>2. run'[r] # "queued"
    BY <1>2, <1>3 DEF IInv, DispatchTypeOK
  <2> QED BY <1>1, <1>2, <1>3, <2>1, <2>2, FreeingKeeps DEF Claimable
<1>4. CASE /\ ~Claimable(r)
           /\ worker' = [worker EXCEPT ![w] = Free]
           /\ UNCHANGED <<run, claims>>
  BY <1>1, <1>2, <1>4, FreeingKeeps DEF Claimable
<1>5. CASE /\ Claimable(r)
           /\ run' = [run EXCEPT ![r] = "running"]
           /\ claims' = [claims EXCEPT ![r] = @ + 1]
           /\ worker' = [worker EXCEPT ![w] = [phase |-> "executing", run |-> r]]
  <2> USE DEF IInv
  <2>1. run[r] = "queued" /\ claims[r] = 0
    BY <1>2, <1>5 DEF Claimable, ExecutingAreRunning
  <2>2. /\ worker' \in [Workers -> WorkerRecords]
        /\ worker'[w].phase = "executing"
        /\ worker'[w].run = r
        /\ \A v \in Workers \ {w} : worker'[v] = worker[v]
    BY <1>2, <1>5, WorkerEffect
  <2>3. /\ run' \in [Runs -> {"absent", "queued", "running", "settled"}]
        /\ run'[r] = "running"
        /\ \A o \in Runs : o # r => run'[o] = run[o]
    BY <1>2, <1>5 DEF DispatchTypeOK
  <2>4. /\ claims' \in [Runs -> 0..1]
        /\ \A o \in Runs : o # r => claims'[o] = claims[o]
    BY <1>2, <1>5, <2>1 DEF DispatchTypeOK
  <2> HIDE DEF r
  <2>5. DispatchTypeOK'
    BY <1>1, <2>2, <2>3, <2>4 DEF DispatchTypeOK
  <2>6. BatchesAreDue'
    BY <1>1 DEF BatchesAreDue, Due, Active
  <2>7. HeldArePending'
    BY <1>1, <1>2, <2>3 DEF HeldArePending, Pending, LockedRuns
  <2>8. ExecutingAreRunning'
    <3>1. \A v \in Workers : worker[v].phase = "executing" => worker[v].run # r
      BY <2>1 DEF ExecutingAreRunning
    <3>2. \A v \in Workers : worker[v].phase = "executing" => worker[v].run \in Runs
      BY WorkersHaveRuns
    <3>3. r # NULL
      BY <1>2, RunsAreNotNull
    <3> QED BY <2>2, <2>3, <2>4, <3>1, <3>2, <3>3 DEF ExecutingAreRunning
  <2>9. \A o \in Runs : o # r /\ OnItsWay(o) => OnItsWay(o)'
    <3>1. worker[w].run = r
      BY DEF r
    <3> QED BY <1>1, <2>2, <3>1 DEF OnItsWay
  <2>10. SentAreOnTheirWay'
    <3>1. \A o \in enqueued : o \in Runs
      BY DEF DispatchTypeOK
    <3>2. \A p \in Dispatchers : dispatcher'[p].phase = "sent" =>
            dispatcher'[p].run \in Runs /\ dispatcher'[p].run # r
      BY <1>1, <2>3, <2>7 DEF HeldArePending, Pending
    <3> QED BY <1>1, <2>3, <2>9, <3>1, <3>2 DEF SentAreOnTheirWay
  <2> QED BY <2>5, <2>6, <2>7, <2>8, <2>10
<1> QED BY <1>3, <1>4, <1>5 DEF ClaimRun

LEMMA FinishRunKeeps ==
  ASSUME IInv, NEW w \in Workers, FinishRun(w)
  PROVE  IInv'
<1> DEFINE r == worker[w].run
<1>1. /\ worker[w].phase = "executing"
      /\ run' = [run EXCEPT ![r] = "settled"]
      /\ worker' = [worker EXCEPT ![w] = Free]
      /\ UNCHANGED <<now, nextCheck, claims, enqueued, queue, dispatcher, faults, lost>>
  BY DEF FinishRun
<1>2. /\ run[r] = "running"
      /\ \A v \in Workers \ {w} : worker[v].phase = "executing" => worker[v].run # r
  BY <1>1 DEF IInv, ExecutingAreRunning
<1>3. r \notin LockedRuns
  BY <1>2 DEF IInv, HeldArePending, Pending, LockedRuns
<1>4. lost \subseteq Runs /\ faults \in 0..MaxFaults
  BY DEF IInv, DispatchTypeOK
<1> QED BY <1>1, <1>2, <1>3, <1>4, FreeingKeeps

LEMMA WorkerFailsKeeps ==
  ASSUME IInv, NEW w \in Workers, WorkerFails(w)
  PROVE  IInv'
<1>1. /\ worker[w].phase # "idle"
      /\ worker' = [worker EXCEPT ![w] = Free]
      /\ lost' = lost \cup {worker[w].run}
      /\ UNCHANGED <<now, nextCheck, run, claims, enqueued, queue, dispatcher>>
  BY DEF WorkerFails
<1>2. faults' \in 0..MaxFaults
  BY DispatchAssumption DEF WorkerFails, Fault, IInv, DispatchTypeOK
<1>3. worker[w].run \in Runs /\ lost \subseteq Runs
  BY <1>1, WorkersHaveRuns DEF IInv, DispatchTypeOK
<1> QED BY <1>1, <1>2, <1>3, FreeingKeeps

LEMMA BrokerLosesKeeps ==
  ASSUME IInv, NEW r \in BagToSet(queue), BrokerLoses(r)
  PROVE  IInv'
<1> USE DEF IInv
<1>1. /\ queue' = queue (-) SetToBag({r})
      /\ lost' = lost \cup {r}
      /\ UNCHANGED <<now, nextCheck, run, claims, enqueued, dispatcher, worker>>
  BY DEF BrokerLoses
<1>2. faults' \in 0..MaxFaults
  BY DispatchAssumption DEF BrokerLoses, Fault, DispatchTypeOK
<1>3. /\ IsABag(queue')
      /\ BagToSet(queue') \subseteq BagToSet(queue)
      /\ \A o \in BagToSet(queue) : o # r => o \in BagToSet(queue')
  BY <1>1, TakeMessage DEF DispatchTypeOK
<1>4. DispatchTypeOK'
  BY <1>1, <1>2, <1>3 DEF DispatchTypeOK
<1>5. BatchesAreDue' /\ HeldArePending' /\ ExecutingAreRunning'
  BY <1>1 DEF BatchesAreDue, Due, Active, HeldArePending, Pending, ExecutingAreRunning
<1>6. \A o : OnItsWay(o) => OnItsWay(o)'
  BY <1>1, <1>3 DEF OnItsWay
<1>7. SentAreOnTheirWay'
  BY <1>1, <1>6 DEF SentAreOnTheirWay
<1> QED BY <1>4, <1>5, <1>7

-----------------------------------------------------------------------------
(* The invariant                                                              *)

LEMMA DispatchInit ==
  ASSUME Init
  PROVE  IInv
<1> USE DispatchAssumption DEF Init, Resting, Free
<1>1. DispatchTypeOK
  <2>1. 0 \in Slots /\ 0 \in 0..(MaxTime + 1) /\ 0 \in 0..MaxFaults
    BY DEF Slots
  <2>2. Resting \in DispatcherRecords
    BY <2>1 DEF DispatcherRecords, DispatcherPhases
  <2>3. Free \in WorkerRecords
    BY DEF WorkerRecords
  <2> QED BY <2>1, <2>2, <2>3, EmptyQueue DEF DispatchTypeOK
<1>2. BatchesAreDue /\ HeldArePending /\ ExecutingAreRunning /\ SentAreOnTheirWay
  BY DEF BatchesAreDue, HeldArePending, ExecutingAreRunning, SentAreOnTheirWay
<1> QED BY <1>1, <1>2 DEF IInv

LEMMA DispatchStep ==
  ASSUME IInv, [Next]_vars
  PROVE  IInv'
<1>1. CASE Tick
  BY <1>1, TickKeeps
<1>2. ASSUME NEW m \in Monitors, PauseMonitor(m) \/ ResumeMonitor(m)
      PROVE  IInv'
  BY <1>2, RequestsKeep
<1>3. ASSUME NEW p \in Dispatchers, DispatcherStep(p) \/ DispatcherDies(p)
      PROVE  IInv'
  BY <1>3, StartCycleKeeps, SelectDueKeeps, CreateRunsKeeps, CreateRunsFailsKeeps,
     SelectRunKeeps, SendRunKeeps, MarkEnqueuedKeeps, DispatcherDiesKeeps
     DEF DispatcherStep
<1>4. ASSUME NEW w \in Workers, ReceiveSome(w) \/ WorkerStep(w) \/ WorkerFails(w)
      PROVE  IInv'
  BY <1>4, ReceiveRunKeeps, ClaimRunKeeps, FinishRunKeeps, WorkerFailsKeeps
     DEF ReceiveSome, WorkerStep
<1>5. ASSUME NEW r \in BagToSet(queue), BrokerLoses(r)
      PROVE  IInv'
  BY <1>5, BrokerLosesKeeps
<1>6. CASE UNCHANGED vars
  <2>1. /\ UNCHANGED <<now, nextCheck, run, claims, enqueued>>
        /\ UNCHANGED <<queue, dispatcher, worker, faults, lost>>
    BY <1>6 DEF vars
  <2> QED BY <2>1 DEF IInv, DispatchTypeOK, BatchesAreDue, Due, Active, HeldArePending,
        Pending, ExecutingAreRunning, SentAreOnTheirWay, OnItsWay
<1> QED BY <1>1, <1>2, <1>3, <1>4, <1>5, <1>6 DEF Next

LEMMA DispatchInvariant == Safety => []IInv
<1>1. Init => IInv
  BY DispatchInit
<1>2. IInv /\ [Next]_vars => IInv'
  BY DispatchStep
<1> QED BY <1>1, <1>2, PTL DEF Safety
-----------------------------------------------------------------------------
(* The theorems                                                               *)

\* Every variable keeps its type: no run is claimed more than once, and no
\* schedule leaves the slots (scheduler.py, worker.py).
THEOREM DispatchTypes == Safety => []DispatchTypeOK
<1>1. IInv => DispatchTypeOK
  BY DEF IInv
<1> QED BY <1>1, DispatchInvariant, PTL

\* A run with enqueued_at set that is still queued has a message with the broker
\* or a worker, or lost one: enqueued_at is committed after the message is sent.
THEOREM EnqueuedRunsAreOnTheirWay == Safety => []QueuedIsOnItsWay
<1>1. IInv => QueuedIsOnItsWay
  BY DEF IInv, SentAreOnTheirWay, OnItsWay, QueuedIsOnItsWay, BagIn, BagToSet
<1> QED BY <1>1, DispatchInvariant, PTL

\* However many cycles overlap, they work on different monitors and on different
\* runs (SKIP LOCKED in scheduler.py).
THEOREM CyclesKeepApart == Safety => []CyclesDoNotMeet
<1>1. IInv => CyclesDoNotMeet
  BY DEF IInv, BatchesAreDue, HeldArePending, CyclesDoNotMeet
<1> QED BY <1>1, DispatchInvariant, PTL

\* A cycle moves a schedule by one slot, in the commit that leaves the run of
\* that slot behind.
THEOREM CyclesSkipNoSlot == Safety => NoSlotSkipped
<1> DEFINE Moved(m) == /\ nextCheck'[m] = nextCheck[m] + 1
                       /\ run'[<<m, nextCheck[m]>>] # "absent"
           NoSkip == dispatcher' # dispatcher =>
                         \A m \in Monitors : nextCheck'[m] # nextCheck[m] => Moved(m)
<1>1. ASSUME IInv, [Next]_vars
      PROVE  NoSkip
  <2> SUFFICES ASSUME dispatcher' # dispatcher, NEW m \in Monitors,
                      nextCheck'[m] # nextCheck[m]
               PROVE  Moved(m)
    OBVIOUS
  <2>1. PICK p \in Dispatchers : DispatcherStep(p) \/ DispatcherDies(p)
    BY <1>1 DEF Next, vars, Tick, PauseMonitor, ResumeMonitor, ReceiveSome, ReceiveRun,
       WorkerStep, ClaimRun, FinishRun, WorkerFails, BrokerLoses
  <2>2. CreateRuns(p)
    BY <2>1 DEF DispatcherStep, DispatcherDies, StartCycle, SelectDue, CreateRunsFails,
       SelectRun, SendRun, MarkEnqueued
  <2>3. m \in dispatcher[p].batch /\ nextCheck'[m] = nextCheck[m] + 1
    BY <2>2 DEF CreateRuns
  <2>4. nextCheck[m] \in Slots
    BY <1>1, <2>3, DispatchAssumption
       DEF IInv, BatchesAreDue, Due, Active, DispatchTypeOK, DispatcherRecords, Slots
  <2>5. <<m, nextCheck[m]>> \in Runs
    BY <2>4 DEF Runs
  <2>6. run'[<<m, nextCheck[m]>>] # "absent"
    BY <2>2, <2>3, <2>5 DEF CreateRuns
  <2> QED BY <2>3, <2>6
<1> QED BY <1>1, DispatchInvariant, PTL DEF NoSlotSkipped, Safety

\* Whatever is sent twice, locked, lost or restarted, a run follows its lifecycle:
\* it is created once, claimed at most once, and settled only after that or before
\* a claim.
LEMMA StepFollows ==
  ASSUME IInv, [Next]_vars
  PROVE  [\/ Lifecycle!Create
          \/ \E r \in Runs : Lifecycle!Claim(r) \/ Lifecycle!Settle(r)]_<<run, claims>>
<1> DEFINE Lives == \/ Lifecycle!Create
                    \/ \E r \in Runs : Lifecycle!Claim(r) \/ Lifecycle!Settle(r)
                    \/ UNCHANGED <<run, claims>>
<1> SUFFICES Lives
  OBVIOUS
<1>1. ASSUME NEW p \in Dispatchers, CreateRuns(p)
      PROVE  Lives
  <2> DEFINE slots == {<<m, nextCheck[m]>> : m \in dispatcher[p].batch}
             created == {r \in Runs : r \in slots /\ run[r] = "absent"}
  <2>1. /\ run' = [r \in Runs |->
                     IF r \in slots /\ run[r] = "absent" THEN "queued" ELSE run[r]]
        /\ UNCHANGED claims
    BY <1>1 DEF CreateRuns
  <2> HIDE DEF slots
  <2>2. run' = [r \in Runs |-> IF r \in created THEN "queued" ELSE run[r]]
    BY <2>1
  <2>3. created \in SUBSET {r \in Runs : run[r] = "absent"}
    OBVIOUS
  <2> HIDE DEF created
  <2>4. CASE created = {}
    <3>1. run \in [Runs -> {"absent", "queued", "running", "settled"}]
      BY <1>1 DEF IInv, DispatchTypeOK
    <3>2. run' = run
      BY <2>2, <2>4, <3>1
    <3> QED BY <2>1, <3>2
  <2>5. CASE created # {}
    <3>1. Lifecycle!Create
      BY <2>1, <2>2, <2>3, <2>5 DEF Lifecycle!Create
    <3> QED BY <3>1
  <2> QED BY <2>4, <2>5
<1>2. ASSUME NEW w \in Workers, ClaimRun(w)
      PROVE  Lives
  <2>1. worker[w].run \in Runs
    BY <1>2, WorkersHaveRuns DEF ClaimRun
  <2> QED BY <1>2, <2>1 DEF ClaimRun, Claimable, Lifecycle!Claim, Lifecycle!Settle,
            Lifecycle!Move
<1>3. ASSUME NEW w \in Workers, FinishRun(w)
      PROVE  Lives
  <2>1. worker[w].run \in Runs /\ run[worker[w].run] = "running"
    BY <1>3, WorkersHaveRuns DEF FinishRun, IInv, ExecutingAreRunning
  <2> QED BY <1>3, <2>1 DEF FinishRun, Lifecycle!Settle, Lifecycle!Move
<1>4. \/ UNCHANGED <<run, claims>>
      \/ \E p \in Dispatchers : CreateRuns(p)
      \/ \E w \in Workers : ClaimRun(w) \/ FinishRun(w)
  BY DEF Next, vars, Tick, PauseMonitor, ResumeMonitor, DispatcherStep, StartCycle,
     SelectDue, CreateRunsFails, SelectRun, SendRun, MarkEnqueued, DispatcherDies,
     ReceiveSome, ReceiveRun, WorkerStep, WorkerFails, BrokerLoses
<1> QED BY <1>1, <1>2, <1>3, <1>4

\* The dispatch implements the lifecycle of RunLifecycle.
THEOREM DispatchFollowsLifecycle == Safety => FollowsLifecycle
<1>1. Init => Lifecycle!LifecycleInit
  BY DEF Init, Lifecycle!LifecycleInit
<1>2. IInv /\ [Next]_vars =>
        [\/ Lifecycle!Create
         \/ \E r \in Runs : Lifecycle!Claim(r) \/ Lifecycle!Settle(r)]_Lifecycle!runVars
  BY StepFollows DEF Lifecycle!runVars
<1> QED
  BY <1>1, <1>2, DispatchInvariant, PTL DEF Safety, FollowsLifecycle, Lifecycle!LifecycleSpec
=============================================================================
