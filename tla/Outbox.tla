------------------------------- MODULE Outbox -------------------------------
(***************************************************************************)
(* How a job that is due reaches a worker: the outbox rows that acceptance *)
(* and the scheduler write, the dispatchers that publish them, the phase   *)
(* queue, the bridge that hands a message over to Celery, and the worker   *)
(* that claims the job.  Every hand-over may be repeated or lost.          *)
(*                                                                         *)
(* Only the events that wake jobs are modelled ("execution.due").  A row's *)
(* claim_token is the dispatcher that claimed it last: a dispatcher holds  *)
(* one batch at a time, so this is as unique as the code's random token.   *)
(* Backoffs and timers may run out in any later step.                      *)
(***************************************************************************)
EXTENDS Integers, FiniteSets

CONSTANTS
  Job,           \* rows of the jobs table
  Event,         \* rows of the outbox; a row nobody needs any more is reused
  Dispatcher,    \* dispatcher processes
  None,          \* no token, no job
  MaxAttempts,   \* ProviderPolicy.outbox_max_attempts
  Capacity,      \* ProviderPolicy.outbox_capacity
  MaxDeliveries, \* redeliveries of a queued message that bridge_once requeues (3)
  MaxCopies      \* bound of the model: copies of a wakeup in a queue

ASSUME ConstantsAssumption ==
  /\ None \notin Dispatcher \cup Job
  /\ MaxAttempts \in Nat \ {0}
  /\ {Capacity, MaxDeliveries, MaxCopies} \subseteq Nat

ASSUME FiniteRows == IsFiniteSet(Event)

VARIABLES
  job,         \* job[j]: what the scan and the claim look at
  event,       \* event[e]: the outbox row
  dispatcher,  \* dispatcher[d]: the batch a dispatcher holds, and how it fared
  phaseQueue,  \* phaseQueue[j][n]: wakeups of j delivered n times before
  bridge,      \* the message the bridge is working on
  tasks,       \* tasks[j]: Celery messages for j
  confirmed    \* history: the row's message was confirmed by the broker

vars == <<job, event, dispatcher, phaseQueue, bridge, tasks, confirmed>>

Backlogged == {"pending", "publishing", "failed"}

NoEvent == [status |-> "absent", job |-> None, attempts |-> 0, token |-> None]
IdleDispatcher == [at |-> "idle", held |-> {}, sent |-> {}, failed |-> {}, lost |-> {}]
IdleBridge == [at |-> "idle", job |-> None, deliveries |-> 0]

\* status: "active" is queued or running, "unknown" is unknown and being reconciled;
\* dispatched: dispatched_until lies ahead.
JobRow == [status : {"absent", "active", "unknown", "final"},
           lease : {"none", "live", "abandoned"}, dispatched : BOOLEAN]
EventRow == [status : {"absent", "published"} \cup Backlogged, job : Job \cup {None},
             attempts : 0..MaxAttempts, token : Dispatcher \cup {None}]
Batch == [at : {"idle", "publishing", "settling"}, held : SUBSET Event, sent : SUBSET Event,
          failed : SUBSET Event, lost : SUBSET Event]   \* lost, a history: reclaimed from it
HandOver == [at : {"idle", "read", "sent"}, job : Job \cup {None}, deliveries : 0..MaxDeliveries]

TypeOK ==
  /\ job \in [Job -> JobRow]
  /\ event \in [Event -> EventRow]
  /\ dispatcher \in [Dispatcher -> Batch]
  /\ phaseQueue \in [Job -> [0..MaxDeliveries -> 0..MaxCopies]]
  /\ bridge \in HandOver
  /\ tasks \in [Job -> 0..MaxCopies]
  /\ confirmed \in [Event -> BOOLEAN]

-----------------------------------------------------------------------------
(* Writers of the outbox.                                                  *)

Backlog == Cardinality({e \in Event : event[e].status \in Backlogged})

Held(e) == \E d \in Dispatcher : e \in dispatcher[d].held

\* A row that is free in the model: never used, or settled and out of use.
Reusable(e) == event[e].status \notin {"pending", "publishing"} /\ ~Held(e)

Enqueue(e, j) ==
  /\ Reusable(e)
  /\ event' = [event EXCEPT ![e] = [NoEvent EXCEPT !.status = "pending", !.job = j]]
  /\ confirmed' = [confirmed EXCEPT ![e] = FALSE]

\* Acceptance counts the backlog under a global lock.
Accept(j) ==
  /\ job[j].status = "absent"
  /\ Backlog + 1 <= Capacity
  /\ \E e \in Event : Enqueue(e, j)
  /\ job' = [job EXCEPT ![j].status = "active"]
  /\ UNCHANGED <<dispatcher, phaseQueue, bridge, tasks>>

Due(j) == job[j].status \in {"active", "unknown"} /\ job[j].lease = "none"

\* Fault: a job is dispatched only once.
NeverLapses(j) == FALSE

\* dispatched_until of a wakeup that may have been lost runs out.
Lapses(j) == job[j].dispatched

WakeupLapses(j) ==
  /\ Lapses(j)
  /\ job' = [job EXCEPT ![j].dispatched = FALSE]
  /\ UNCHANGED <<event, dispatcher, phaseQueue, bridge, tasks, confirmed>>

\* schedule_once: every due job that has no wakeup under way.
Schedule(j) ==
  /\ Due(j)
  /\ ~job[j].dispatched
  /\ \E e \in Event : Enqueue(e, j)
  /\ job' = [job EXCEPT ![j].dispatched = TRUE]
  /\ UNCHANGED <<dispatcher, phaseQueue, bridge, tasks>>

-----------------------------------------------------------------------------
(* OutboxDispatcher.dispatch_once: claim, publish outside of any           *)
(* transaction, settle.                                                    *)

ClaimBatch(d) ==
  /\ dispatcher[d].at = "idle"
  /\ \E batch \in SUBSET {e \in Event : event[e].status = "pending"} :
       /\ batch # {}
       /\ event' = [e \in Event |-> IF e \in batch
                      THEN [event[e] EXCEPT !.status = "publishing", !.token = d]
                      ELSE event[e]]
       /\ dispatcher' = [dispatcher EXCEPT ![d] = [IdleDispatcher EXCEPT
                           !.at = "publishing", !.held = batch]]
  /\ UNCHANGED <<job, phaseQueue, bridge, tasks, confirmed>>

Unsent(d) == dispatcher[d].held \ (dispatcher[d].sent \cup dispatcher[d].failed)

Arrives(j) ==
  /\ phaseQueue[j][0] < MaxCopies
  /\ phaseQueue' = [phaseQueue EXCEPT ![j][0] = @ + 1]

PublishConfirmed(d) ==
  /\ dispatcher[d].at = "publishing"
  /\ \E e \in Unsent(d) :
       /\ Arrives(event[e].job)
       /\ dispatcher' = [dispatcher EXCEPT ![d].sent = @ \cup {e}]
       /\ confirmed' = [confirmed EXCEPT ![e] = TRUE]
  /\ UNCHANGED <<job, event, bridge, tasks>>

\* Unroutable, refused, or the confirmation is lost after the message got in.
PublishFails(d) ==
  /\ dispatcher[d].at = "publishing"
  /\ \E e \in Unsent(d) :
       /\ Arrives(event[e].job) \/ UNCHANGED phaseQueue
       /\ dispatcher' = [dispatcher EXCEPT ![d].failed = @ \cup {e}]
  /\ UNCHANGED <<job, event, bridge, tasks, confirmed>>

\* Fault: what was not published by the end of the connection counts as published.
ConnectionEndsOptimistic(d) ==
  /\ dispatcher[d].at = "publishing"
  /\ dispatcher' = [dispatcher EXCEPT ![d].at = "settling", ![d].sent = @ \cup Unsent(d)]
  /\ UNCHANGED <<job, event, phaseQueue, bridge, tasks, confirmed>>

\* Every event was tried, or the connection broke and the rest has failed.
ConnectionEnds(d) ==
  /\ dispatcher[d].at = "publishing"
  /\ dispatcher' = [dispatcher EXCEPT ![d].at = "settling", ![d].failed = @ \cup Unsent(d)]
  /\ UNCHANGED <<job, event, phaseQueue, bridge, tasks, confirmed>>

\* Fault: the token is not compared.
OwnsByStatus(d, e) == event[e].status = "publishing"

\* _settle: the claim is still this dispatcher's.
Owns(d, e) == event[e].status = "publishing" /\ event[e].token = d

\* Fault: the attempts are not limited.
AfterFailureForever(row) == [row EXCEPT !.attempts = @ + 1, !.status = "pending"]

AfterFailure(row) ==
  [row EXCEPT !.attempts = @ + 1,
              !.status = IF row.attempts + 1 >= MaxAttempts THEN "failed" ELSE "pending"]

Settle(d) ==
  /\ dispatcher[d].at = "settling"
  /\ event' = [e \in Event |->
       CASE e \in dispatcher[d].sent /\ Owns(d, e) -> [event[e] EXCEPT !.status = "published"]
         [] e \in dispatcher[d].failed /\ Owns(d, e) -> AfterFailure(event[e])
         [] OTHER -> event[e]]
  /\ dispatcher' = [dispatcher EXCEPT ![d] = IdleDispatcher]
  /\ UNCHANGED <<job, phaseQueue, bridge, tasks, confirmed>>

DispatcherDies(d) ==
  /\ dispatcher[d].at # "idle"
  /\ dispatcher' = [dispatcher EXCEPT ![d] = IdleDispatcher]
  /\ UNCHANGED <<job, event, phaseQueue, bridge, tasks, confirmed>>

\* Fault: rows that were published are put back as well.
StaleOrPublished(e) == event[e].status \in {"publishing", "published"}

\* Fault: the rows of a dispatcher that died stay with it.
NeverStale(e) == FALSE

Stale(e) == event[e].status = "publishing"

\* reclaim_stale_publishing, which a dispatcher runs before its next batch: the
\* row's own dispatcher is slow or dead.
Reclaim(d, e) ==
  /\ dispatcher[d].at = "idle"
  /\ Stale(e)
  /\ event' = [event EXCEPT ![e].status = "pending"]
  /\ dispatcher' = [o \in Dispatcher |-> IF e \in dispatcher[o].held
                      THEN [dispatcher[o] EXCEPT !.lost = @ \cup {e}] ELSE dispatcher[o]]
  /\ UNCHANGED <<job, phaseQueue, bridge, tasks, confirmed>>

\* The operator's dead-letter tool, which refuses the jobs that have a verdict.
Requeue(e) ==
  /\ event[e].status = "failed"
  /\ job[event[e].job].status = "active"
  /\ event' = [event EXCEPT ![e].status = "pending", ![e].attempts = 0, ![e].token = None]
  /\ UNCHANGED <<job, dispatcher, phaseQueue, bridge, tasks, confirmed>>

-----------------------------------------------------------------------------
(* bridge_once: read the job, hand over to Celery, acknowledge.            *)

Takes(j, n) == phaseQueue[j][n] > 0 /\ phaseQueue' = [phaseQueue EXCEPT ![j][n] = @ - 1]

BridgeReads ==
  /\ bridge.at = "idle"
  /\ \E j \in Job, n \in 0..MaxDeliveries :
       /\ Takes(j, n)
       /\ bridge' = IF job[j].status \in {"active", "unknown"}
                      THEN [at |-> "read", job |-> j, deliveries |-> n]
                      ELSE IdleBridge
  /\ UNCHANGED <<job, event, dispatcher, tasks, confirmed>>

BridgeSends ==
  /\ bridge.at = "read"
  /\ tasks[bridge.job] < MaxCopies
  /\ tasks' = [tasks EXCEPT ![bridge.job] = @ + 1]
  /\ bridge' = [bridge EXCEPT !.at = "sent"]
  /\ UNCHANGED <<job, event, dispatcher, phaseQueue, confirmed>>

BridgeAcks ==
  /\ bridge.at = "sent"
  /\ bridge' = IdleBridge
  /\ UNCHANGED <<job, event, dispatcher, phaseQueue, tasks, confirmed>>

\* reject_failed: back into the queue, or to the dead letters after a while.
BridgeFails ==
  /\ bridge.at # "idle"
  /\ IF bridge.deliveries < MaxDeliveries
       THEN /\ phaseQueue[bridge.job][bridge.deliveries + 1] < MaxCopies
            /\ phaseQueue' = [phaseQueue EXCEPT ![bridge.job][bridge.deliveries + 1] = @ + 1]
       ELSE UNCHANGED phaseQueue
  /\ bridge' = IdleBridge
  /\ UNCHANGED <<job, event, dispatcher, tasks, confirmed>>

-----------------------------------------------------------------------------
(* The Celery task and the job, as far as wakeups are concerned.           *)

\* ExecutionStore.claim: only a due job is claimed, any other wakeup is dropped.
WorkerTakes(j) ==
  /\ tasks[j] > 0
  /\ tasks' = [tasks EXCEPT ![j] = @ - 1]
  /\ job' = IF Due(j) THEN [job EXCEPT ![j].lease = "live", ![j].dispatched = FALSE] ELSE job
  /\ UNCHANGED <<event, dispatcher, phaseQueue, bridge, confirmed>>

WorkerFinishes(j) ==
  /\ job[j].lease = "live"
  /\ \E status \in {"active", "unknown", "final"} :
       job' = [job EXCEPT ![j].status = status, ![j].lease = "none"]
  /\ UNCHANGED <<event, dispatcher, phaseQueue, bridge, tasks, confirmed>>

\* The worker is lost: the broker delivers its message again, the lease stays.
WorkerDies(j) ==
  /\ job[j].lease = "live"
  /\ tasks[j] < MaxCopies
  /\ tasks' = [tasks EXCEPT ![j] = @ + 1]
  /\ job' = [job EXCEPT ![j].lease = "abandoned"]
  /\ UNCHANGED <<event, dispatcher, phaseQueue, bridge, confirmed>>

RecoverExpired(j) ==
  /\ job[j].lease = "abandoned"
  /\ \E status \in {job[j].status, "unknown", "final"} :
       job' = [job EXCEPT ![j].status = status, ![j].lease = "none"]
  /\ UNCHANGED <<event, dispatcher, phaseQueue, bridge, tasks, confirmed>>

\* expire_due and request_cancel settle a job that nobody leases.
SettledUnleased(j) ==
  /\ Due(j)
  /\ job' = [job EXCEPT ![j].status = "final"]
  /\ UNCHANGED <<event, dispatcher, phaseQueue, bridge, tasks, confirmed>>

-----------------------------------------------------------------------------
Init ==
  /\ job = [j \in Job |-> [status |-> "absent", lease |-> "none", dispatched |-> FALSE]]
  /\ event = [e \in Event |-> NoEvent]
  /\ dispatcher = [d \in Dispatcher |-> IdleDispatcher]
  /\ phaseQueue = [j \in Job |-> [n \in 0..MaxDeliveries |-> 0]]
  /\ bridge = IdleBridge
  /\ tasks = [j \in Job |-> 0]
  /\ confirmed = [e \in Event |-> FALSE]

DispatcherStep(d) ==
  \/ ClaimBatch(d) \/ PublishConfirmed(d) \/ PublishFails(d) \/ ConnectionEnds(d)
  \/ Settle(d) \/ DispatcherDies(d)
  \/ \E e \in Event : Reclaim(d, e)

BridgeStep == BridgeReads \/ BridgeSends \/ BridgeAcks \/ BridgeFails

JobStep(j) ==
  \/ Accept(j) \/ Schedule(j) \/ WakeupLapses(j) \/ WorkerTakes(j) \/ WorkerFinishes(j)
  \/ WorkerDies(j) \/ RecoverExpired(j) \/ SettledUnleased(j)

Next ==
  \/ \E d \in Dispatcher : DispatcherStep(d)
  \/ \E e \in Event : Requeue(e)
  \/ BridgeStep
  \/ \E j \in Job : JobStep(j)

Spec == Init /\ [][Next]_vars

\* What a dispatcher does to the row e.
Serves(d, e, A) == A /\ (e \in dispatcher[d].held \/ e \in dispatcher'[d].held)

\* The daemons run in a loop (WF).  The broker, the network and the processes
\* that use them do not fail every time they try (SF), and the dispatcher's
\* batches, oldest first, get to every row.
Fairness ==
  /\ \A j \in Job : /\ WF_vars(Schedule(j))
                    /\ WF_vars(WakeupLapses(j))
                    /\ WF_vars(RecoverExpired(j))
                    /\ WF_vars(WorkerFinishes(j) \/ WorkerDies(j))
                    /\ SF_vars(WorkerTakes(j))
  /\ \A d \in Dispatcher, e \in Event : /\ SF_vars(Reclaim(d, e))
                                         /\ SF_vars(Serves(d, e, ClaimBatch(d)))
                                         /\ SF_vars(Serves(d, e, PublishConfirmed(d)))
                                         /\ SF_vars(Serves(d, e, ConnectionEnds(d)))
                                         /\ SF_vars(Serves(d, e, Settle(d)))
  /\ SF_vars(BridgeReads) /\ SF_vars(BridgeSends) /\ WF_vars(BridgeAcks)

FairSpec == Spec /\ Fairness

-----------------------------------------------------------------------------
(* Properties.                                                             *)

\* An event counts as published only once the broker confirmed its message
\* (mark_published), although slow dispatchers settle rows of others.
PublishedMeansConfirmed ==
  \A e \in Event : event[e].status = "published" => confirmed[e]

\* Types, and what a dispatcher's batch says of the rows: a row that was not taken from it
\* is still its own, and what it believes to be published was confirmed.
RowInv(e) == event[e].status \in {"pending", "publishing"} => event[e].attempts < MaxAttempts

BatchInv(d) ==
  /\ dispatcher[d].sent \subseteq dispatcher[d].held \ dispatcher[d].failed
  /\ \A e \in dispatcher[d].sent : confirmed[e]
  /\ \A e \in dispatcher[d].held \ dispatcher[d].lost : Owns(d, e)

OutboxInv ==
  /\ TypeOK
  /\ PublishedMeansConfirmed
  /\ \A e \in Event : RowInv(e)
  /\ \A d \in Dispatcher : BatchInv(d)
  /\ bridge.at # "idle" => bridge.job \in Job

\* A dispatcher that published an event, and whose claim was not reclaimed
\* meanwhile, gets it recorded: a slower one that still believes to hold the
\* event does not take the claim away from it (_settle, claim_token).
KeptClaimIsRecorded ==
  [][\A d \in Dispatcher :
       Settle(d) => \A e \in dispatcher[d].sent \ dispatcher[d].lost :
                      event'[e].status = "published"]_vars

\* A job that is due is claimed or settled in the end, although any single
\* wakeup may be lost on its way ("A visibility deadline repairs a lost
\* wakeup").
EveryDueJobIsWoken == \A j \in Job : Due(j) ~> ~Due(j)

\* No event stays between the states for ever, whatever dies.
EveryEventSettles ==
  \A e \in Event : event[e].status \in {"pending", "publishing"}
                     ~> event[e].status \in {"published", "failed"}
=============================================================================
