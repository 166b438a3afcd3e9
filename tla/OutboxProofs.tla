---------------------------- MODULE OutboxProofs ----------------------------
(***************************************************************************)
(* Proofs about Outbox, for any jobs, rows, dispatchers and bounds: what   *)
(* counts as published was confirmed by the broker, a claim that was not   *)
(* reclaimed is recorded, and a published row stays so.                    *)
(***************************************************************************)
EXTENDS Outbox, TLAPS

-----------------------------------------------------------------------------
(* Records.                                                                *)

LEMMA RowFields ==
  ASSUME NEW r \in EventRow
  PROVE  /\ r.status \in {"absent", "published", "pending", "publishing", "failed"}
         /\ r.job \in Job \cup {None} /\ r.attempts \in 0..MaxAttempts
         /\ r.token \in Dispatcher \cup {None}
BY DEF EventRow, Backlogged

LEMMA BatchFields ==
  ASSUME NEW b \in Batch
  PROVE  /\ b.at \in {"idle", "publishing", "settling"}
         /\ b.held \subseteq Event /\ b.sent \subseteq Event
         /\ b.failed \subseteq Event /\ b.lost \subseteq Event
BY DEF Batch

LEMMA Constants ==
  /\ MaxAttempts \in Nat /\ MaxAttempts # 0 /\ MaxDeliveries \in Nat /\ MaxCopies \in Nat
  /\ None \notin Dispatcher
BY ConstantsAssumption

LEMMA QueueGrows ==
  ASSUME TypeOK, NEW j, NEW n \in 0..MaxDeliveries, phaseQueue[j][n] < MaxCopies
  PROVE  [phaseQueue EXCEPT ![j][n] = @ + 1] \in [Job -> [0..MaxDeliveries -> 0..MaxCopies]]
<1>1. CASE j \in Job
  <2>1. phaseQueue[j] \in [0..MaxDeliveries -> 0..MaxCopies]
    BY <1>1 DEF TypeOK
  <2>2. phaseQueue[j][n] + 1 \in 0..MaxCopies
    BY <2>1, Constants
  <2>3. [phaseQueue[j] EXCEPT ![n] = @ + 1] \in [0..MaxDeliveries -> 0..MaxCopies]
    BY <2>1, <2>2
  <2> QED BY <1>1, <2>3 DEF TypeOK
<1>2. CASE j \notin Job
  <2>1. [phaseQueue EXCEPT ![j][n] = @ + 1] = phaseQueue
    BY <1>2 DEF TypeOK
  <2> QED BY <2>1 DEF TypeOK
<1> QED BY <1>1, <1>2

LEMMA IdleBatch ==
  /\ IdleDispatcher \in Batch
  /\ IdleDispatcher.held = {} /\ IdleDispatcher.sent = {} /\ IdleDispatcher.lost = {}
BY DEF IdleDispatcher, Batch

LEMMA NewRow ==
  ASSUME NEW j \in Job
  PROVE  /\ [NoEvent EXCEPT !.status = "pending", !.job = j] \in EventRow
         /\ [NoEvent EXCEPT !.status = "pending", !.job = j].status = "pending"
         /\ [NoEvent EXCEPT !.status = "pending", !.job = j].attempts = 0
<1> DEFINE r == [NoEvent EXCEPT !.status = "pending", !.job = j]
<1>1. NoEvent \in EventRow
  BY Constants DEF NoEvent, EventRow, Backlogged
<1>2. r \in EventRow
  BY <1>1 DEF EventRow, Backlogged
<1>3. r.status = "pending" /\ r.attempts = 0
  BY DEF NoEvent
<1> QED BY <1>2, <1>3

LEMMA FailedRow ==
  ASSUME NEW r \in EventRow, r.attempts < MaxAttempts
  PROVE  /\ AfterFailure(r) \in EventRow
         /\ AfterFailure(r).status \in {"pending", "failed"}
         /\ AfterFailure(r).status = "pending" => AfterFailure(r).attempts < MaxAttempts
<1>1. r.attempts + 1 \in 0..MaxAttempts
  BY RowFields, Constants
<1>2. AfterFailure(r) \in EventRow
  BY <1>1 DEF AfterFailure, EventRow, Backlogged
<1>3. AfterFailure(r).status = IF r.attempts + 1 >= MaxAttempts THEN "failed" ELSE "pending"
  BY DEF AfterFailure, EventRow
<1>4. AfterFailure(r).attempts = r.attempts + 1
  BY DEF AfterFailure, EventRow
<1> QED BY <1>1, <1>2, <1>3, <1>4, Constants

LEMMA InitHolds == Init => OutboxInv
<1> SUFFICES ASSUME Init PROVE OutboxInv
  OBVIOUS
<1>1. TypeOK
  BY IdleBatch, ConstantsAssumption
    DEF Init, TypeOK, JobRow, EventRow, NoEvent, Backlogged, HandOver, IdleBridge
<1>2. \A d \in Dispatcher : BatchInv(d)
  BY IdleBatch DEF Init, BatchInv
<1>3. PublishedMeansConfirmed /\ \A e \in Event : RowInv(e)
  BY DEF Init, NoEvent, PublishedMeansConfirmed, RowInv
<1>4. bridge.at = "idle"
  BY DEF Init, IdleBridge
<1> QED BY <1>1, <1>2, <1>3, <1>4 DEF OutboxInv

-----------------------------------------------------------------------------
(* A new row takes the place of one that no batch holds.                   *)

LEMMA BatchStays ==
  ASSUME NEW d \in Dispatcher, BatchInv(d), dispatcher'[d] = dispatcher[d],
         \A e \in dispatcher[d].held : Owns(d, e) => event'[e] = event[e],
         \A e \in dispatcher[d].held : confirmed[e] => confirmed'[e]
  PROVE  BatchInv(d)'
<1>1. dispatcher'[d].sent \subseteq dispatcher'[d].held \ dispatcher'[d].failed
  BY DEF BatchInv
<1>2. \A e \in dispatcher'[d].sent : confirmed'[e]
  BY DEF BatchInv
<1>3. \A e \in dispatcher'[d].held \ dispatcher'[d].lost : Owns(d, e)'
  BY DEF BatchInv, Owns
<1> QED BY <1>1, <1>2, <1>3 DEF BatchInv

LEMMA EnqueueKeeps ==
  ASSUME OutboxInv, NEW j \in Job, NEW e \in Event, Enqueue(e, j),
         dispatcher' = dispatcher, bridge' = bridge, TypeOK'
  PROVE  OutboxInv'
<1>1. /\ event'[e].status = "pending" /\ event'[e].attempts = 0
      /\ \A f \in Event \ {e} : event'[f] = event[f] /\ confirmed'[f] = confirmed[f]
  BY NewRow DEF Enqueue, OutboxInv, TypeOK
<1>2. \A d \in Dispatcher : e \notin dispatcher[d].held
  BY DEF Enqueue, Reusable, Held
<1>3. \A d \in Dispatcher : BatchInv(d)'
  <2> SUFFICES ASSUME NEW d \in Dispatcher PROVE BatchInv(d)'
    OBVIOUS
  <2>1. BatchInv(d) /\ dispatcher[d].held \subseteq Event
    BY BatchFields DEF OutboxInv, TypeOK
  <2> QED BY <1>1, <1>2, <2>1, BatchStays
<1>4. PublishedMeansConfirmed' /\ \A f \in Event : RowInv(f)'
  BY <1>1, Constants DEF OutboxInv, PublishedMeansConfirmed, RowInv
<1> QED BY <1>3, <1>4 DEF OutboxInv

LEMMA AcceptKeeps ==
  ASSUME OutboxInv, NEW j \in Job, Accept(j)
  PROVE  OutboxInv'
<1>1. PICK e \in Event : Enqueue(e, j)
  BY DEF Accept
<1>2. TypeOK'
  <2>1. event' \in [Event -> EventRow] /\ confirmed' \in [Event -> BOOLEAN]
    BY <1>1, NewRow DEF Enqueue, OutboxInv, TypeOK
  <2>2. job' \in [Job -> JobRow]
    BY DEF Accept, OutboxInv, TypeOK, JobRow
  <2> QED BY <2>1, <2>2 DEF Accept, OutboxInv, TypeOK
<1> QED BY <1>1, <1>2, EnqueueKeeps DEF Accept

LEMMA ScheduleKeeps ==
  ASSUME OutboxInv, NEW j \in Job, Schedule(j)
  PROVE  OutboxInv'
<1>1. PICK e \in Event : Enqueue(e, j)
  BY DEF Schedule
<1>2. TypeOK'
  <2>1. event' \in [Event -> EventRow] /\ confirmed' \in [Event -> BOOLEAN]
    BY <1>1, NewRow DEF Enqueue, OutboxInv, TypeOK
  <2>2. job' \in [Job -> JobRow]
    BY DEF Schedule, OutboxInv, TypeOK, JobRow
  <2> QED BY <2>1, <2>2 DEF Schedule, OutboxInv, TypeOK
<1> QED BY <1>1, <1>2, EnqueueKeeps DEF Schedule

\* The rows and the batches do not see the rest.
LEMMA ElsewhereKeeps ==
  ASSUME OutboxInv, UNCHANGED <<event, dispatcher, confirmed>>, TypeOK',
         bridge'.at # "idle" => bridge'.job \in Job
  PROVE  OutboxInv'
BY DEF OutboxInv, PublishedMeansConfirmed, RowInv, BatchInv, Owns

LEMMA JobKeeps ==
  ASSUME OutboxInv, NEW j \in Job,
         WakeupLapses(j) \/ WorkerTakes(j) \/ WorkerFinishes(j) \/ WorkerDies(j)
           \/ RecoverExpired(j) \/ SettledUnleased(j)
  PROVE  OutboxInv'
<1>0. TypeOK /\ UNCHANGED <<event, dispatcher, confirmed, bridge, phaseQueue>>
  BY DEF OutboxInv, WakeupLapses, WorkerTakes, WorkerFinishes, WorkerDies, RecoverExpired, SettledUnleased
<1>1. job' \in [Job -> JobRow]
  <2>1. CASE WakeupLapses(j) \/ SettledUnleased(j)
    <3>1. job \in [Job -> JobRow] /\ job[j] \in JobRow
      BY <1>0 DEF TypeOK
    <3>2. [job[j] EXCEPT !.dispatched = FALSE] \in JobRow /\ [job[j] EXCEPT !.status = "final"] \in JobRow
      BY <3>1 DEF JobRow
    <3> QED BY <2>1, <3>1, <3>2 DEF WakeupLapses, SettledUnleased
  <2>2. CASE WorkerTakes(j) \/ WorkerDies(j)
    <3>1. job \in [Job -> JobRow] /\ job[j] \in JobRow
      BY <1>0 DEF TypeOK
    <3>2. /\ [job[j] EXCEPT !.lease = "live", !.dispatched = FALSE] \in JobRow
          /\ [job[j] EXCEPT !.lease = "abandoned"] \in JobRow
      BY <3>1 DEF JobRow
    <3>3. \/ job' = job
          \/ job' = [job EXCEPT ![j].lease = "live", ![j].dispatched = FALSE]
          \/ job' = [job EXCEPT ![j].lease = "abandoned"]
      BY <2>2 DEF WorkerTakes, WorkerDies
    <3>4. CASE job' = [job EXCEPT ![j].lease = "live", ![j].dispatched = FALSE]
      BY <3>1, <3>4 DEF JobRow
    <3> QED BY <3>1, <3>2, <3>3, <3>4
  <2>3. CASE WorkerFinishes(j)
    BY <1>0, <2>3 DEF WorkerFinishes, TypeOK, JobRow
  <2>4. CASE RecoverExpired(j)
    <3>1. job[j].status \in {"absent", "active", "unknown", "final"}
      BY <1>0 DEF TypeOK, JobRow
    <3> QED BY <1>0, <2>4, <3>1 DEF RecoverExpired, TypeOK, JobRow
  <2> QED BY <2>1, <2>2, <2>3, <2>4
<1>2. tasks' \in [Job -> 0..MaxCopies]
  <2>1. tasks \in [Job -> 0..MaxCopies] /\ tasks[j] \in 0..MaxCopies
    BY <1>0 DEF TypeOK
  <2>2. CASE WorkerTakes(j)
    BY <2>1, <2>2, Constants DEF WorkerTakes
  <2>3. CASE WorkerDies(j)
    BY <2>1, <2>3, Constants DEF WorkerDies
  <2>4. CASE tasks' = tasks
    BY <2>1, <2>4
  <2> QED BY <2>2, <2>3, <2>4 DEF WakeupLapses, WorkerTakes, WorkerFinishes, WorkerDies,
     RecoverExpired, SettledUnleased
<1>3. TypeOK'
  BY <1>0, <1>1, <1>2 DEF TypeOK
<1> QED BY <1>0, <1>3, ElsewhereKeeps DEF OutboxInv

LEMMA BridgeKeeps ==
  ASSUME OutboxInv, BridgeStep
  PROVE  OutboxInv'
<1>0. TypeOK /\ UNCHANGED <<event, dispatcher, confirmed, job>>
  BY DEF OutboxInv, BridgeStep, BridgeReads, BridgeSends, BridgeAcks, BridgeFails
<1>1. bridge' \in HandOver /\ (bridge'.at # "idle" => bridge'.job \in Job)
  <2>1. CASE BridgeReads
    BY <1>0, <2>1, ConstantsAssumption DEF BridgeReads, HandOver, IdleBridge, TypeOK
  <2>2. CASE BridgeSends
    BY <1>0, <2>2 DEF BridgeSends, HandOver, TypeOK, OutboxInv
  <2>3. CASE BridgeAcks \/ BridgeFails
    BY <2>3, ConstantsAssumption DEF BridgeAcks, BridgeFails, HandOver, IdleBridge
  <2> QED BY <2>1, <2>2, <2>3 DEF BridgeStep
<1>2. phaseQueue' \in [Job -> [0..MaxDeliveries -> 0..MaxCopies]]
  <2>1. CASE BridgeReads
    BY <1>0, <2>1, ConstantsAssumption DEF BridgeReads, Takes, TypeOK
  <2>2. CASE BridgeSends \/ BridgeAcks
    BY <1>0, <2>2 DEF BridgeSends, BridgeAcks, TypeOK
  <2>3. CASE BridgeFails
    <3>1. bridge.job \in Job /\ bridge.deliveries \in 0..MaxDeliveries
      BY <1>0, <2>3 DEF BridgeFails, OutboxInv, TypeOK, HandOver
    <3>2. CASE bridge.deliveries < MaxDeliveries
      <4>1. /\ phaseQueue[bridge.job][bridge.deliveries + 1] < MaxCopies
            /\ phaseQueue' = [phaseQueue EXCEPT ![bridge.job][bridge.deliveries + 1] = @ + 1]
            /\ bridge.deliveries + 1 \in 0..MaxDeliveries
        BY <2>3, <3>1, <3>2, Constants DEF BridgeFails
      <4> QED BY <1>0, <4>1, QueueGrows
    <3>3. CASE ~(bridge.deliveries < MaxDeliveries)
      BY <1>0, <2>3, <3>3 DEF BridgeFails, TypeOK
    <3> QED BY <3>2, <3>3
  <2> QED BY <2>1, <2>2, <2>3 DEF BridgeStep
<1>3. tasks' \in [Job -> 0..MaxCopies]
  BY <1>0, ConstantsAssumption DEF TypeOK, BridgeStep, BridgeReads, BridgeSends, BridgeAcks, BridgeFails
<1>4. TypeOK'
  BY <1>0, <1>1, <1>2, <1>3 DEF TypeOK
<1> QED BY <1>0, <1>1, <1>4, ElsewhereKeeps

-----------------------------------------------------------------------------
(* The dispatcher.                                                         *)

LEMMA ClaimKeeps ==
  ASSUME OutboxInv, NEW d \in Dispatcher, ClaimBatch(d)
  PROVE  OutboxInv'
<1>1. PICK batch \in SUBSET {e \in Event : event[e].status = "pending"} :
        /\ event' = [e \in Event |-> IF e \in batch
                      THEN [event[e] EXCEPT !.status = "publishing", !.token = d] ELSE event[e]]
        /\ dispatcher' = [dispatcher EXCEPT ![d] = [IdleDispatcher EXCEPT
                           !.at = "publishing", !.held = batch]]
  BY DEF ClaimBatch
<1>2. /\ [IdleDispatcher EXCEPT !.at = "publishing", !.held = batch] \in Batch
      /\ dispatcher'[d].held = batch /\ dispatcher'[d].sent = {} /\ dispatcher'[d].lost = {}
      /\ \A o \in Dispatcher \ {d} : dispatcher'[o] = dispatcher[o]
  BY <1>1 DEF IdleDispatcher, Batch, OutboxInv, TypeOK
<1>3. \A e \in Event :
        /\ event'[e] \in EventRow /\ event'[e].attempts = event[e].attempts
        /\ e \in batch => event[e].status = "pending" /\ event'[e].status = "publishing" /\ event'[e].token = d
        /\ e \notin batch => event'[e] = event[e]
  BY <1>1 DEF OutboxInv, TypeOK, EventRow, Backlogged
<1>4. TypeOK' /\ confirmed' = confirmed /\ bridge' = bridge
  BY <1>1, <1>2, <1>3 DEF ClaimBatch, OutboxInv, TypeOK
<1>5. ASSUME NEW o \in Dispatcher PROVE BatchInv(o)'
  <2>1. CASE o = d
    BY <1>2, <1>3, <2>1 DEF BatchInv, Owns
  <2>2. CASE o # d
    <3>1. BatchInv(o) /\ dispatcher[o].held \subseteq Event /\ dispatcher'[o] = dispatcher[o]
      BY <1>2, <2>2, BatchFields DEF OutboxInv, TypeOK
    <3>2. \A e \in dispatcher[o].held : Owns(o, e) => event'[e] = event[e]
      BY <1>3, <3>1 DEF Owns
    <3> QED BY <1>4, <3>1, <3>2, BatchStays
  <2> QED BY <2>1, <2>2
<1>6. PublishedMeansConfirmed' /\ \A e \in Event : RowInv(e)'
  BY <1>3, <1>4 DEF OutboxInv, PublishedMeansConfirmed, RowInv
<1> QED BY <1>4, <1>5, <1>6 DEF OutboxInv

LEMMA ConfirmKeeps ==
  ASSUME OutboxInv, NEW d \in Dispatcher, PublishConfirmed(d)
  PROVE  OutboxInv'
<1>1. PICK e \in Unsent(d) :
        /\ Arrives(event[e].job)
        /\ dispatcher' = [dispatcher EXCEPT ![d].sent = @ \cup {e}]
        /\ confirmed' = [confirmed EXCEPT ![e] = TRUE]
  BY DEF PublishConfirmed
<1>2. e \in Event /\ e \in dispatcher[d].held \ dispatcher[d].failed
  BY DEF Unsent, OutboxInv, TypeOK, Batch
<1>3. /\ dispatcher'[d] \in Batch /\ dispatcher'[d].sent = dispatcher[d].sent \cup {e}
      /\ dispatcher'[d].held = dispatcher[d].held /\ dispatcher'[d].lost = dispatcher[d].lost
      /\ dispatcher'[d].failed = dispatcher[d].failed
      /\ \A o \in Dispatcher \ {d} : dispatcher'[o] = dispatcher[o]
  BY <1>1, <1>2 DEF OutboxInv, TypeOK, Batch
<1>4. confirmed'[e] /\ \A f \in Event : confirmed[f] => confirmed'[f]
  BY <1>1, <1>2 DEF OutboxInv, TypeOK
<1>5. TypeOK' /\ event' = event /\ bridge' = bridge
  <2>1. phaseQueue' \in [Job -> [0..MaxDeliveries -> 0..MaxCopies]]
    BY <1>1, QueueGrows, Constants DEF Arrives, OutboxInv
  <2>2. dispatcher' \in [Dispatcher -> Batch] /\ confirmed' \in [Event -> BOOLEAN]
    BY <1>1, <1>2, <1>3 DEF OutboxInv, TypeOK
  <2> QED BY <2>1, <2>2 DEF PublishConfirmed, OutboxInv, TypeOK
<1>6. ASSUME NEW o \in Dispatcher PROVE BatchInv(o)'
  <2>1. BatchInv(o) /\ dispatcher[o].held \subseteq Event
    BY BatchFields DEF OutboxInv, TypeOK
  <2>2. CASE o = d
    BY <1>2, <1>3, <1>4, <1>5, <2>1, <2>2 DEF BatchInv, Owns
  <2>3. CASE o # d
    BY <1>3, <1>4, <1>5, <2>1, <2>3, BatchStays
  <2> QED BY <2>2, <2>3
<1> QED BY <1>4, <1>5, <1>6 DEF OutboxInv, PublishedMeansConfirmed, RowInv

\* What was sent, held and lost stays.
LEMMA FailKeeps ==
  ASSUME OutboxInv, NEW d \in Dispatcher, PublishFails(d) \/ ConnectionEnds(d)
  PROVE  OutboxInv'
<1>1. /\ dispatcher'[d] \in Batch /\ dispatcher'[d].sent = dispatcher[d].sent
      /\ dispatcher'[d].held = dispatcher[d].held /\ dispatcher'[d].lost = dispatcher[d].lost
      /\ dispatcher'[d].failed \cap dispatcher[d].sent = {}
      /\ \A o \in Dispatcher \ {d} : dispatcher'[o] = dispatcher[o]
  <2>1. dispatcher[d] \in Batch /\ dispatcher \in [Dispatcher -> Batch] /\ BatchInv(d)
    BY DEF OutboxInv, TypeOK
  <2>2. PICK more \in SUBSET Unsent(d) :
          \E at \in {"publishing", "settling"} :
            dispatcher' = [dispatcher EXCEPT ![d].at = at, ![d].failed = @ \cup more]
    <3>1. CASE ConnectionEnds(d)
      BY <3>1 DEF ConnectionEnds
    <3>2. CASE PublishFails(d)
      <4>1. PICK e \in Unsent(d) : dispatcher' = [dispatcher EXCEPT ![d].failed = @ \cup {e}]
        BY <3>2 DEF PublishFails
      <4>2. dispatcher[d].at = "publishing"
        BY <3>2 DEF PublishFails
      <4>3. dispatcher' = [dispatcher EXCEPT ![d].at = "publishing", ![d].failed = @ \cup {e}]
        BY <2>1, <4>1, <4>2 DEF Batch
      <4> QED BY <4>1, <4>3
    <3> QED BY <3>1, <3>2
  <2>3. PICK at \in {"publishing", "settling"} :
          dispatcher' = [dispatcher EXCEPT ![d].at = at, ![d].failed = @ \cup more]
    BY <2>2
  <2>4. /\ dispatcher'[d] = [dispatcher[d] EXCEPT !.at = at, !.failed = @ \cup more]
        /\ \A o \in Dispatcher \ {d} : dispatcher'[o] = dispatcher[o]
    BY <2>1, <2>3
  <2>5. more \subseteq Event /\ more \cap dispatcher[d].sent = {}
    BY <2>1, BatchFields DEF Unsent
  <2>6. dispatcher'[d] \in Batch
    BY <2>1, <2>4, <2>5 DEF Batch
  <2>7. /\ dispatcher'[d].sent = dispatcher[d].sent /\ dispatcher'[d].held = dispatcher[d].held
        /\ dispatcher'[d].lost = dispatcher[d].lost
        /\ dispatcher'[d].failed = dispatcher[d].failed \cup more
    BY <2>1, <2>4 DEF Batch
  <2> QED BY <2>1, <2>4, <2>5, <2>6, <2>7 DEF BatchInv
<1>2. phaseQueue' \in [Job -> [0..MaxDeliveries -> 0..MaxCopies]]
  <2>1. phaseQueue \in [Job -> [0..MaxDeliveries -> 0..MaxCopies]] /\ 0 \in 0..MaxDeliveries /\ TypeOK
    BY Constants DEF OutboxInv, TypeOK
  <2>2. phaseQueue' = phaseQueue \/ \E e \in Unsent(d) : Arrives(event[e].job)
    BY DEF PublishFails, ConnectionEnds
  <2>3. ASSUME NEW j, Arrives(j) PROVE phaseQueue' \in [Job -> [0..MaxDeliveries -> 0..MaxCopies]]
    BY <2>1, <2>3, QueueGrows DEF Arrives
  <2> QED BY <2>1, <2>2, <2>3
<1>3. dispatcher' \in [Dispatcher -> Batch]
  BY <1>1 DEF PublishFails, ConnectionEnds, OutboxInv, TypeOK
<1>4. TypeOK' /\ UNCHANGED <<event, bridge, confirmed>>
  BY <1>2, <1>3 DEF PublishFails, ConnectionEnds, OutboxInv, TypeOK
<1>5. \A o \in Dispatcher : BatchInv(o)'
  BY <1>1, <1>4 DEF OutboxInv, BatchInv, Owns
<1> QED BY <1>4, <1>5 DEF OutboxInv, PublishedMeansConfirmed, RowInv

\* The row as Settle leaves it.
LEMMA SettledRow ==
  ASSUME OutboxInv, NEW d \in Dispatcher, Settle(d), NEW e \in Event
  PROVE  /\ event'[e] \in EventRow
         /\ ~Owns(d, e) => event'[e] = event[e]
         /\ e \in dispatcher[d].sent /\ Owns(d, e) => event'[e].status = "published"
         /\ event'[e].status = "published" => event[e].status = "published" \/ e \in dispatcher[d].sent
         /\ event'[e].status \in {"pending", "publishing"} => event'[e].attempts < MaxAttempts
<1>1. /\ event[e] \in EventRow /\ (Owns(d, e) => event[e].attempts < MaxAttempts)
      /\ (event[e].status \in {"pending", "publishing"} => event[e].attempts < MaxAttempts)
  BY DEF OutboxInv, TypeOK, RowInv, Owns
<1>2. event'[e] = CASE e \in dispatcher[d].sent /\ Owns(d, e) -> [event[e] EXCEPT !.status = "published"]
                    [] e \in dispatcher[d].failed /\ Owns(d, e) -> AfterFailure(event[e])
                    [] OTHER -> event[e]
  BY DEF Settle
<1>3. CASE e \in dispatcher[d].sent /\ Owns(d, e)
  <2>1. e \notin dispatcher[d].failed
    BY <1>3 DEF OutboxInv, BatchInv
  <2>2. event'[e] = [event[e] EXCEPT !.status = "published"]
    BY <1>2, <1>3, <2>1
  <2> QED BY <1>1, <1>3, <2>2 DEF EventRow, Backlogged
<1>4. CASE e \notin dispatcher[d].sent /\ e \in dispatcher[d].failed /\ Owns(d, e)
  <2>1. event'[e] = AfterFailure(event[e])
    BY <1>2, <1>4
  <2> QED BY <1>1, <1>4, <2>1, FailedRow
<1>5. CASE (e \notin dispatcher[d].sent /\ e \notin dispatcher[d].failed) \/ ~Owns(d, e)
  <2>1. event'[e] = event[e]
    BY <1>2, <1>5
  <2> QED BY <1>1, <1>5, <2>1
<1> QED BY <1>3, <1>4, <1>5

LEMMA SettleKeeps ==
  ASSUME OutboxInv, NEW d \in Dispatcher, Settle(d)
  PROVE  OutboxInv'
<1>1. /\ dispatcher'[d] = IdleDispatcher
      /\ \A o \in Dispatcher \ {d} : dispatcher'[o] = dispatcher[o]
      /\ dispatcher' \in [Dispatcher -> Batch]
  BY IdleBatch DEF Settle, OutboxInv, TypeOK
<1>2. event' \in [Event -> EventRow]
  BY SettledRow DEF Settle
<1>3. TypeOK' /\ UNCHANGED <<bridge, confirmed>>
  BY <1>1, <1>2 DEF Settle, OutboxInv, TypeOK
<1>4. ASSUME NEW o \in Dispatcher PROVE BatchInv(o)'
  <2>1. CASE o = d
    BY <1>1, <2>1, IdleBatch DEF BatchInv
  <2>2. CASE o # d
    <3>1. BatchInv(o) /\ dispatcher[o].held \subseteq Event /\ dispatcher'[o] = dispatcher[o]
      BY <1>1, <2>2, BatchFields DEF OutboxInv, TypeOK
    <3>2. \A e \in dispatcher[o].held : Owns(o, e) => event'[e] = event[e]
      BY <2>2, <3>1, SettledRow DEF Owns
    <3> QED BY <1>3, <3>1, <3>2, BatchStays
  <2> QED BY <2>1, <2>2
<1>5. PublishedMeansConfirmed'
  BY <1>3, SettledRow DEF OutboxInv, PublishedMeansConfirmed, BatchInv
<1>6. \A e \in Event : RowInv(e)'
  BY SettledRow DEF RowInv
<1> QED BY <1>3, <1>4, <1>5, <1>6 DEF OutboxInv

LEMMA DiesKeeps ==
  ASSUME OutboxInv, NEW d \in Dispatcher, DispatcherDies(d)
  PROVE  OutboxInv'
<1>1. /\ dispatcher'[d] = IdleDispatcher
      /\ \A o \in Dispatcher \ {d} : dispatcher'[o] = dispatcher[o]
      /\ dispatcher' \in [Dispatcher -> Batch]
  BY IdleBatch DEF DispatcherDies, OutboxInv, TypeOK
<1>2. TypeOK' /\ UNCHANGED <<event, bridge, confirmed>>
  BY <1>1 DEF DispatcherDies, OutboxInv, TypeOK
<1>3. ASSUME NEW o \in Dispatcher PROVE BatchInv(o)'
  BY <1>1, <1>2, IdleBatch DEF OutboxInv, BatchInv, Owns
<1> QED BY <1>2, <1>3 DEF OutboxInv, PublishedMeansConfirmed, RowInv

LEMMA ReclaimKeeps ==
  ASSUME OutboxInv, NEW d \in Dispatcher, NEW e \in Event, Reclaim(d, e)
  PROVE  OutboxInv'
<1>1. /\ event'[e] \in EventRow /\ event'[e].status = "pending" /\ event'[e].attempts = event[e].attempts
      /\ event[e].status = "publishing"
      /\ \A f \in Event \ {e} : event'[f] = event[f]
  BY DEF Reclaim, Stale, OutboxInv, TypeOK, EventRow, Backlogged
<1>2. ASSUME NEW o \in Dispatcher
      PROVE  /\ dispatcher'[o] \in Batch
             /\ dispatcher'[o].held = dispatcher[o].held /\ dispatcher'[o].sent = dispatcher[o].sent
             /\ dispatcher'[o].failed = dispatcher[o].failed
             /\ dispatcher'[o].lost = IF e \in dispatcher[o].held THEN dispatcher[o].lost \cup {e} ELSE dispatcher[o].lost
  <2>1. dispatcher'[o] = IF e \in dispatcher[o].held THEN [dispatcher[o] EXCEPT !.lost = @ \cup {e}] ELSE dispatcher[o]
    BY DEF Reclaim
  <2>2. dispatcher[o] \in Batch
    BY DEF OutboxInv, TypeOK
  <2> QED BY <2>1, <2>2 DEF Batch
<1>3. TypeOK' /\ UNCHANGED <<bridge, confirmed>>
  <2>1. event' \in [Event -> EventRow] /\ dispatcher' \in [Dispatcher -> Batch]
    BY <1>1, <1>2 DEF Reclaim, OutboxInv, TypeOK
  <2> QED BY <2>1 DEF Reclaim, OutboxInv, TypeOK
<1>4. ASSUME NEW o \in Dispatcher PROVE BatchInv(o)'
  <2>1. BatchInv(o) /\ dispatcher[o].held \subseteq Event
    BY BatchFields DEF OutboxInv, TypeOK
  <2>2. \A f \in dispatcher'[o].held \ dispatcher'[o].lost :
          f \in dispatcher[o].held \ dispatcher[o].lost /\ f # e
    BY <1>2
  <2>3. \A f \in dispatcher'[o].held \ dispatcher'[o].lost : Owns(o, f)'
    BY <1>1, <2>1, <2>2 DEF BatchInv, Owns
  <2>4. \A f \in dispatcher'[o].sent : confirmed'[f]
    BY <1>2, <1>3, <2>1 DEF BatchInv
  <2>5. dispatcher'[o].sent \subseteq dispatcher'[o].held \ dispatcher'[o].failed
    BY <1>2, <2>1 DEF BatchInv
  <2> QED BY <2>3, <2>4, <2>5 DEF BatchInv
<1>5. PublishedMeansConfirmed' /\ \A f \in Event : RowInv(f)'
  BY <1>1, <1>3 DEF OutboxInv, PublishedMeansConfirmed, RowInv
<1> QED BY <1>3, <1>4, <1>5 DEF OutboxInv

\* A row that failed for good is nobody's, so the operator may start it again.
LEMMA RequeueKeeps ==
  ASSUME OutboxInv, NEW e \in Event, Requeue(e)
  PROVE  OutboxInv'
<1>1. /\ event'[e] \in EventRow /\ event'[e].status = "pending" /\ event'[e].attempts = 0
      /\ event[e].status = "failed"
      /\ \A f \in Event \ {e} : event'[f] = event[f]
  <2>1. event[e] \in EventRow
    BY DEF OutboxInv, TypeOK
  <2>2. [event[e] EXCEPT !.status = "pending", !.attempts = 0, !.token = None] \in EventRow
    <3>1. 0 \in 0..MaxAttempts
      BY Constants
    <3> QED BY <2>1, <3>1 DEF EventRow, Backlogged
  <2>3. event'[e] = [event[e] EXCEPT !.status = "pending", !.attempts = 0, !.token = None]
    BY <2>1 DEF Requeue, OutboxInv, TypeOK, EventRow
  <2> QED BY <2>1, <2>2, <2>3 DEF Requeue, OutboxInv, TypeOK, EventRow
<1>2. TypeOK' /\ UNCHANGED <<dispatcher, bridge, confirmed>>
  <2>1. event' \in [Event -> EventRow]
    BY <1>1 DEF Requeue, OutboxInv, TypeOK
  <2> QED BY <2>1 DEF Requeue, OutboxInv, TypeOK
<1>3. ASSUME NEW d \in Dispatcher PROVE BatchInv(d)'
  <2>1. BatchInv(d) /\ dispatcher[d].held \subseteq Event
    BY BatchFields DEF OutboxInv, TypeOK
  <2>2. \A f \in dispatcher[d].held : Owns(d, f) => event'[f] = event[f]
    BY <1>1, <2>1 DEF Owns
  <2> QED BY <1>2, <2>1, <2>2, BatchStays
<1>4. PublishedMeansConfirmed' /\ \A f \in Event : RowInv(f)'
  BY <1>1, <1>2, Constants DEF OutboxInv, PublishedMeansConfirmed, RowInv
<1> QED BY <1>2, <1>3, <1>4 DEF OutboxInv

LEMMA NextHolds == OutboxInv /\ [Next]_vars => OutboxInv'
<1> SUFFICES ASSUME OutboxInv, [Next]_vars PROVE OutboxInv'
  OBVIOUS
<1>1. CASE UNCHANGED vars
  <2>1. TypeOK'
    BY <1>1 DEF vars, OutboxInv, TypeOK
  <2> QED BY <1>1, <2>1, ElsewhereKeeps DEF vars, OutboxInv
<1>2. ASSUME NEW d \in Dispatcher, DispatcherStep(d) PROVE OutboxInv'
  BY <1>2, ClaimKeeps, ConfirmKeeps, FailKeeps, SettleKeeps, DiesKeeps, ReclaimKeeps DEF DispatcherStep
<1>3. ASSUME NEW j \in Job, JobStep(j) PROVE OutboxInv'
  BY <1>3, AcceptKeeps, ScheduleKeeps, JobKeeps DEF JobStep
<1> QED BY <1>1, <1>2, <1>3, BridgeKeeps, RequeueKeeps DEF Next

-----------------------------------------------------------------------------
(* Theorems.                                                               *)

\* The inductive invariant: types, and batches whose rows are still their own unless
\* they were reclaimed (reclaim_stale_publishing, _settle).
THEOREM OutboxInvariance == Spec => []OutboxInv
BY InitHolds, NextHolds, PTL DEF Spec

\* What counts as published was confirmed by the broker (mark_published).
THEOREM ConfirmedPublications == Spec => []PublishedMeansConfirmed
<1>1. OutboxInv => PublishedMeansConfirmed
  BY DEF OutboxInv
<1> QED BY <1>1, OutboxInvariance, PTL

\* What a dispatcher published under a claim of its own is recorded (_settle).
THEOREM ClaimsAreRecorded == Spec => KeptClaimIsRecorded
<1> DEFINE A == \A d \in Dispatcher :
       Settle(d) => \A e \in dispatcher[d].sent \ dispatcher[d].lost : event'[e].status = "published"
<1>1. OutboxInv /\ [Next]_vars => [A]_vars
  <2> SUFFICES ASSUME OutboxInv, NEW d \in Dispatcher, Settle(d),
                      NEW e \in dispatcher[d].sent \ dispatcher[d].lost
               PROVE  event'[e].status = "published"
    OBVIOUS
  <2>1. e \in Event /\ Owns(d, e)
    BY BatchFields DEF OutboxInv, TypeOK, BatchInv
  <2> QED BY <2>1, SettledRow
<1> QED BY <1>1, OutboxInvariance, PTL DEF Spec, KeptClaimIsRecorded
=============================================================================
