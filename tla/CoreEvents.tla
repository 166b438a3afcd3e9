----------------------------- MODULE CoreEvents -----------------------------
(***************************************************************************)
(* The events of one run of the core engine, from their notification to    *)
(* their effects: the receiver that writes receipts, the processors that   *)
(* claim the run's next event and execute its handler, dead letters, the   *)
(* quarantine of events whose bookkeeping is damaged, the watchdog, and    *)
(* the operator's replays.  Runs share nothing but the processors.         *)
(*                                                                         *)
(* Transactions that hold the run's row are one step.  Where the code acts *)
(* on what an earlier statement or transaction read, the steps are apart:  *)
(* the candidate of a claim, the checks of accept, and the transactions    *)
(* that follow a handler that was rolled back.                             *)
(*                                                                         *)
(* An event is its run_sequence.  A claim token is the processor's name:   *)
(* it works on one claim at a time and forgets it when it dies.  Backoffs  *)
(* may be over in any later step.                                          *)
(***************************************************************************)
EXTENDS Integers, Sequences

CONSTANTS
  Processor,      \* concurrent Processor.once coroutines
  Version,        \* versions of the handler that get deployed
  None,           \* no version, no token
  MaxAttempts,    \* EventSettings.max_attempts
  MaxEvents,      \* bound of the model: events of the run
  MaxGeneration,  \* bound of the model: replays of an event
  Losable         \* events whose receipt may get lost, once each

ASSUME ConstantsAssumption ==
  /\ None \notin Version \cup Processor
  /\ MaxAttempts \in Nat \ {0}
  /\ MaxEvents \in Nat
  /\ MaxGeneration \in Nat
  /\ Losable \subseteq 1..MaxEvents

VARIABLES
  tail,        \* core_runs.event_cursor: events 1..tail are committed
  inbox,       \* the event the receiver has checked and not yet inserted, or 0
  receipt,     \* receipt[e]: the row of core_event_receipts
  completed,   \* completed_sequence of the run
  blocked,     \* blocked_event_id of the run, or 0
  quarantine,  \* quarantine[e]: its record, if it has one
  attempts,    \* attempts[e]: tokens of its running attempts
  replays,     \* replays[e]: its audited replays have generations 1..replays[e]
  handler,     \* the deployed handler version
  processor,   \* processor[p]: what it works on and how far it got
  applied,     \* history: the events whose handler's effects are committed
  failures,    \* history: failures[e] of its generation
  lost         \* history: events whose receipt got lost, or was missed by a replay

vars == <<tail, inbox, receipt, completed, blocked, quarantine, attempts, replays,
          handler, processor, applied, failures, lost>>

Event == 1..MaxEvents
Waiting == {"pending", "retry", "waiting_handler"}

NoReceipt == [status |-> "absent", attempts |-> 0, generation |-> 0,
              version |-> None, token |-> None, expired |-> FALSE]
Received == [NoReceipt EXCEPT !.status = "pending"]
Idle == [at |-> "idle", event |-> 0]

Row == [status : Waiting \cup {"absent", "running", "processed", "dead"},
        attempts : 0..MaxAttempts, generation : 0..MaxGeneration,
        version : Version \cup {None}, token : Processor \cup {None}, expired : BOOLEAN]

Position == [at : {"idle", "picked", "claimed", "failing", "alarming", "deferring"},
             event : 0..MaxEvents]

TypeOK ==
  /\ tail \in 0..MaxEvents
  /\ inbox \in 0..MaxEvents
  /\ receipt \in [Event -> Row]
  /\ completed \in 0..MaxEvents
  /\ blocked \in 0..MaxEvents
  /\ quarantine \in [Event -> {"none", "open", "resolved"}]
  /\ attempts \in [Event -> SUBSET Processor]
  /\ replays \in [Event -> 0..MaxGeneration]
  /\ handler \in Version \cup {None}
  /\ processor \in [Processor -> Position]
  /\ applied \in Seq(Event)
  /\ failures \in [Event -> 0..MaxAttempts]
  /\ lost \subseteq Event

-----------------------------------------------------------------------------
(* Receipts and the run's cursor.                                          *)

\* The retained proofs of completion agree: a cursor past the event, or a
\* succeeded attempt, which commits with the cursor.
Completed(e) == e <= completed

IsNext(e) == e = completed + 1

Missing(e) == receipt[e].status = "absent"

Put(e, row) == receipt' = [receipt EXCEPT ![e] = row]
Stays == UNCHANGED <<tail, inbox, replays, handler, lost>>
Goes(p, at) == processor' = [processor EXCEPT ![p].at = at]
Finishes(p) == processor' = [processor EXCEPT ![p] = Idle]

Quarantines(e) ==
  /\ quarantine' = [quarantine EXCEPT ![e] = "open"]
  /\ attempts' = [attempts EXCEPT ![e] = {}]
  /\ UNCHANGED <<receipt, completed, blocked, applied, failures>>

\* Fault: the last attempt of the budget is not the last one.
DeadTooLate(row) == row.attempts > MaxAttempts

IsDead(row) == row.attempts >= MaxAttempts

Failed(row) == [row EXCEPT !.token = None, !.expired = FALSE,
                           !.status = IF IsDead(row) THEN "dead" ELSE "retry"]

\* _failure: the running attempt ends, the receipt backs off or becomes a dead
\* letter that blocks the run.
Fails(e) ==
  /\ Put(e, Failed(receipt[e]))
  /\ blocked' = IF IsDead(receipt[e]) THEN e ELSE blocked
  /\ attempts' = [attempts EXCEPT ![e] = @ \ {receipt[e].token}]
  /\ failures' = [failures EXCEPT ![e] = @ + 1]
  /\ UNCHANGED <<completed, quarantine, applied>>

-----------------------------------------------------------------------------
(* Committed events and their notifications, which come at least once.     *)

Emit ==
  /\ tail < MaxEvents
  /\ tail' = tail + 1
  /\ UNCHANGED <<inbox, receipt, completed, blocked, quarantine, attempts, replays,
                 handler, processor, applied, failures, lost>>

\* accept: an event that is quarantined or completed is only acknowledged.
AcceptReads(e) ==
  /\ inbox = 0
  /\ e <= tail
  /\ quarantine[e] # "open"
  /\ ~Completed(e)
  /\ inbox' = e
  /\ UNCHANGED <<tail, receipt, completed, blocked, quarantine, attempts, replays,
                 handler, processor, applied, failures, lost>>

AcceptInserts(e) ==
  /\ inbox = e
  /\ inbox' = 0
  /\ IF Missing(e)
       THEN Put(e, Received) /\ failures' = [failures EXCEPT ![e] = 0]
       ELSE UNCHANGED <<receipt, failures>>
  /\ UNCHANGED <<tail, completed, blocked, quarantine, attempts, replays, handler,
                 processor, applied, lost>>

\* The receiver dies or its transaction fails; the message is delivered again.
AcceptFails ==
  /\ inbox # 0
  /\ inbox' = 0
  /\ UNCHANGED <<tail, receipt, completed, blocked, quarantine, attempts, replays,
                 handler, processor, applied, failures, lost>>

-----------------------------------------------------------------------------
(* Processor.claim: a candidate from a snapshot, checked again under the   *)
(* run's lock.                                                             *)

\* Fault: a claim whose lease is over is not taken up again.
DueUnclaimed(row) == row.status \in Waiting

Due(row) == row.status \in Waiting \/ (row.status = "running" /\ row.expired)

Pick(p, e) ==
  /\ processor[p].at = "idle"
  /\ IsNext(e)
  /\ blocked = 0
  /\ quarantine[e] # "open"
  /\ Due(receipt[e])
  /\ processor' = [processor EXCEPT ![p] = [at |-> "picked", event |-> e]]
  /\ Stays
  /\ UNCHANGED <<receipt, completed, blocked, quarantine, attempts, applied, failures>>

\* Fault: the candidate is trusted to be uncompleted.
AnyCandidate(p, e) == processor[p] = [at |-> "picked", event |-> e]

Candidate(p, e) == processor[p] = [at |-> "picked", event |-> e] /\ ~Completed(e)

\* A lock is busy, or the candidate is completed, blocked or claimed meanwhile.
LetsGo(p) ==
  /\ processor[p].at = "picked"
  /\ Finishes(p)
  /\ Stays
  /\ UNCHANGED <<receipt, completed, blocked, quarantine, attempts, applied, failures>>

ClaimQuarantines(p, e) ==
  /\ Candidate(p, e)
  /\ Missing(e)
  /\ Quarantines(e)
  /\ Finishes(p)
  /\ Stays

Abandon(p, e) ==
  /\ Candidate(p, e)
  /\ blocked = 0
  /\ receipt[e].status = "running" /\ receipt[e].expired
  /\ Fails(e)
  /\ Finishes(p)
  /\ Stays

\* Fault: the candidate is trusted to be unclaimed.
SnapshotTrusted(p, e) == Candidate(p, e) /\ ~Missing(e)

Claimable(p, e) == Candidate(p, e) /\ blocked = 0 /\ receipt[e].status \in Waiting

\* A receipt keeps the version of its first claim.
Handles(row) == handler # None /\ row.version \in {None, handler}

AwaitHandler(p, e) ==
  /\ Claimable(p, e)
  /\ ~Handles(receipt[e])
  /\ Put(e, [receipt[e] EXCEPT !.status = "waiting_handler"])
  /\ Finishes(p)
  /\ Stays
  /\ UNCHANGED <<completed, blocked, quarantine, attempts, applied, failures>>

Claim(p, e) ==
  /\ Claimable(p, e)
  /\ Handles(receipt[e])
  /\ Put(e, [receipt[e] EXCEPT !.status = "running", !.version = handler, !.token = p,
                               !.attempts = @ + 1])
  /\ attempts' = [attempts EXCEPT ![e] = @ \cup {p}]
  /\ Goes(p, "claimed")
  /\ Stays
  /\ UNCHANGED <<completed, blocked, quarantine, applied, failures>>

-----------------------------------------------------------------------------
(* Processor.execute: the handler's effects commit with the receipt and    *)
(* the cursor, or are rolled back and the failure is recorded afterwards.  *)

\* Fault: a claim is recognised by the receipt's status alone.
RunningReceipt(p, e) == receipt[e].status = "running"

OwnReceipt(p, e) == receipt[e].status = "running" /\ receipt[e].token = p

Loads(p, e) == ~Completed(e) /\ quarantine[e] # "open" /\ OwnReceipt(p, e)

Working(p, e) == processor[p].at \in {"claimed", "failing"} /\ processor[p].event = e

\* The handler may emit an event of the run.
Apply(p, e) ==
  /\ processor[p] = [at |-> "claimed", event |-> e]
  /\ Loads(p, e)
  /\ handler = receipt[e].version
  /\ Put(e, [receipt[e] EXCEPT !.status = "processed", !.token = None, !.expired = FALSE])
  /\ completed' = e
  /\ attempts' = [attempts EXCEPT ![e] = @ \ {p}]
  /\ applied' = Append(applied, e)
  /\ \E emitted \in 0..1 : tail + emitted <= MaxEvents /\ tail' = tail + emitted
  /\ Finishes(p)
  /\ UNCHANGED <<inbox, blocked, quarantine, replays, handler, failures, lost>>

\* The handler raises, takes too long, or was replaced after the claim.
HandlerFails(p, e) ==
  /\ processor[p] = [at |-> "claimed", event |-> e]
  /\ Loads(p, e)
  /\ Goes(p, "failing")
  /\ Stays
  /\ UNCHANGED <<receipt, completed, blocked, quarantine, attempts, applied, failures>>

RecordFailure(p, e) ==
  /\ processor[p] = [at |-> "failing", event |-> e]
  /\ Loads(p, e)
  /\ Fails(e)
  /\ Finishes(p)
  /\ Stays

\* Done already, quarantined, or claimed by somebody else since.
Stale(p, e) ==
  /\ Working(p, e)
  /\ Completed(e) \/ quarantine[e] = "open" \/ (~Missing(e) /\ ~OwnReceipt(p, e))
  /\ Finishes(p)
  /\ Stays
  /\ UNCHANGED <<receipt, completed, blocked, quarantine, attempts, applied, failures>>

\* IntegrityFailure rolls back; the quarantine is a transaction of its own.
MissesReceipt(p, e) ==
  /\ Working(p, e)
  /\ ~Completed(e) /\ quarantine[e] # "open" /\ Missing(e)
  /\ Goes(p, "alarming")
  /\ Stays
  /\ UNCHANGED <<receipt, completed, blocked, quarantine, attempts, applied, failures>>

RaisesAlarm(p, e) ==
  /\ processor[p] = [at |-> "alarming", event |-> e]
  /\ Quarantines(e)
  /\ Finishes(p)
  /\ Stays

\* A row is locked by another transaction for longer than lock_timeout_ms.
LockBusy(p, e) ==
  /\ Working(p, e)
  /\ Goes(p, "deferring")
  /\ Stays
  /\ UNCHANGED <<receipt, completed, blocked, quarantine, attempts, applied, failures>>

\* Fault: contention uses up an attempt.
DeferredAtCost(row) == [row EXCEPT !.status = "pending", !.token = None, !.expired = FALSE]

Deferred(row) == [row EXCEPT !.status = "pending", !.attempts = @ - 1, !.token = None,
                             !.expired = FALSE]

\* defer gives the claim back at no cost.
Defer(p, e) ==
  /\ processor[p] = [at |-> "deferring", event |-> e]
  /\ OwnReceipt(p, e)
  /\ Put(e, Deferred(receipt[e]))
  /\ attempts' = [attempts EXCEPT ![e] = @ \ {p}]
  /\ Finishes(p)
  /\ Stays
  /\ UNCHANGED <<completed, blocked, quarantine, applied, failures>>

DeferQuarantines(p, e) ==
  /\ processor[p] = [at |-> "deferring", event |-> e]
  /\ Missing(e) /\ ~Completed(e)
  /\ Quarantines(e)
  /\ Finishes(p)
  /\ Stays

\* The claim is gone, or the locks stay busy and the lease has to repair it.
DeferGivesUp(p) ==
  /\ processor[p].at = "deferring"
  /\ Finishes(p)
  /\ Stays
  /\ UNCHANGED <<receipt, completed, blocked, quarantine, attempts, applied, failures>>

Dies(p) ==
  /\ processor[p].at # "idle"
  /\ Finishes(p)
  /\ Stays
  /\ UNCHANGED <<receipt, completed, blocked, quarantine, attempts, applied, failures>>

-----------------------------------------------------------------------------
(* Time, deployment, retention, the watchdog and the operator.             *)

LeaseExpires(e) ==
  /\ receipt[e].status = "running" /\ ~receipt[e].expired
  /\ Put(e, [receipt[e] EXCEPT !.expired = TRUE])
  /\ Stays
  /\ UNCHANGED <<completed, blocked, quarantine, attempts, processor, applied, failures>>

Deploy(version) ==
  /\ handler # version
  /\ handler' = version
  /\ UNCHANGED <<tail, inbox, receipt, completed, blocked, quarantine, attempts, replays,
                 processor, applied, failures, lost>>

\* Receipts of processed events may be cleaned up.
CleanReceipt(e) ==
  /\ receipt[e].status = "processed"
  /\ Put(e, NoReceipt)
  /\ Stays
  /\ UNCHANGED <<completed, blocked, quarantine, attempts, processor, applied, failures>>

\* Damage: the row of an event that is not processed disappears.
LoseReceipt(e) ==
  /\ e \in Losable \ lost
  /\ receipt[e].status \notin {"absent", "processed"}
  /\ Put(e, NoReceipt)
  /\ lost' = lost \cup {e}
  /\ UNCHANGED <<tail, inbox, completed, blocked, quarantine, attempts, replays, handler,
                 processor, applied, failures>>

\* An attempt that is running and has no receipt.
Watchdog(e) ==
  /\ attempts[e] # {}
  /\ Missing(e) /\ ~Completed(e) /\ quarantine[e] # "open"
  /\ Quarantines(e)
  /\ Stays
  /\ UNCHANGED processor

Restarted(row, generation) ==
  [NoReceipt EXCEPT !.status = "pending", !.generation = generation]

Replays(e, generation) ==
  /\ generation <= MaxGeneration
  /\ Put(e, Restarted(receipt[e], generation))
  /\ replays' = [replays EXCEPT ![e] = generation]
  /\ blocked' = 0
  /\ failures' = [failures EXCEPT ![e] = 0]
  /\ UNCHANGED <<tail, inbox, completed, attempts, handler, processor, applied, lost>>

\* The audit's generation is unique for an event.
Unaudited(e, generation) == generation > replays[e]

\* The command picks replay for an event that never had a quarantine record.
MayReplay(e) ==
  /\ quarantine[e] = "none"
  /\ receipt[e].status = "dead" /\ blocked = e
  /\ Unaudited(e, receipt[e].generation + 1)

Replay(e) ==
  /\ MayReplay(e)
  /\ Replays(e, receipt[e].generation + 1)
  /\ UNCHANGED quarantine

ReplayQuarantines(e) ==
  /\ quarantine[e] = "none"
  /\ e <= tail /\ Missing(e) /\ ~Completed(e)
  /\ completed > 0 \/ \E other \in Event : ~Missing(other)  \* the cursor exists
  /\ Quarantines(e)
  /\ lost' = lost \cup {e}
  /\ UNCHANGED <<tail, inbox, replays, handler, processor>>

\* Otherwise replay_quarantine: the damaged event at the head starts over.
RestartGeneration(e) ==
  IF Missing(e) THEN replays[e] + 1 ELSE receipt[e].generation + 1

MayReplayQuarantine(e) ==
  /\ quarantine[e] = "open"
  /\ IsNext(e)
  /\ Unaudited(e, RestartGeneration(e))

ReplayQuarantine(e) ==
  /\ MayReplayQuarantine(e)
  /\ Replays(e, RestartGeneration(e))
  /\ quarantine' = [quarantine EXCEPT ![e] = "resolved"]

-----------------------------------------------------------------------------
Init ==
  /\ tail = 0 /\ inbox = 0 /\ completed = 0 /\ blocked = 0
  /\ receipt = [e \in Event |-> NoReceipt]
  /\ quarantine = [e \in Event |-> "none"]
  /\ attempts = [e \in Event |-> {}]
  /\ replays = [e \in Event |-> 0]
  /\ handler \in Version \cup {None}
  /\ processor = [p \in Processor |-> Idle]
  /\ applied = <<>>
  /\ failures = [e \in Event |-> 0]
  /\ lost = {}

Claims(p, e) ==
  \/ Pick(p, e) \/ ClaimQuarantines(p, e) \/ Abandon(p, e) \/ AwaitHandler(p, e)
  \/ Claim(p, e)

Executes(p, e) ==
  \/ Apply(p, e) \/ HandlerFails(p, e) \/ RecordFailure(p, e) \/ Stale(p, e)
  \/ MissesReceipt(p, e) \/ RaisesAlarm(p, e) \/ LockBusy(p, e) \/ Defer(p, e)
  \/ DeferQuarantines(p, e)

Operates(e) ==
  Watchdog(e) \/ Replay(e) \/ ReplayQuarantines(e) \/ ReplayQuarantine(e)

Next ==
  \/ Emit
  \/ \E e \in Event : AcceptReads(e) \/ AcceptInserts(e)
  \/ AcceptFails
  \/ \E p \in Processor :
       \/ \E e \in Event : Claims(p, e) \/ Executes(p, e)
       \/ LetsGo(p) \/ DeferGivesUp(p) \/ Dies(p)
  \/ \E e \in Event : LeaseExpires(e) \/ CleanReceipt(e) \/ LoseReceipt(e) \/ Operates(e)
  \/ \E version \in Version \cup {None} : Deploy(version)

Spec == Init /\ [][Next]_vars

(***************************************************************************)
(* Processors poll, leases run out, and the publisher notifies again while *)
(* an event has no receipt.  Rows are not locked for ever, coroutines do   *)
(* not die for ever, and the receiver does not fail for ever.  Nothing is  *)
(* asked of the operator, the watchdog, deployments or the retention.      *)
(***************************************************************************)
Fairness ==
  /\ \A e \in Event :
       /\ SF_vars(Missing(e) /\ AcceptReads(e))
       /\ SF_vars(AcceptInserts(e))
  /\ WF_vars(\E e \in Event : LeaseExpires(e))
  /\ SF_vars(\E p \in Processor, e \in Event :
       Abandon(p, e) \/ AwaitHandler(p, e) \/ Claim(p, e))
  /\ SF_vars(\E p \in Processor, e \in Event : Apply(p, e) \/ RecordFailure(p, e))
  /\ \A p \in Processor :
       WF_vars(LetsGo(p) \/ DeferGivesUp(p)
               \/ \E e \in Event : Claims(p, e) \/ Executes(p, e))

FairSpec == Spec /\ Fairness

-----------------------------------------------------------------------------
(* Properties.                                                             *)

\* The effects of a run's events are committed in the order of the events and
\* once each, however claims, leases, deaths, damage and replays interleave
\* (execute commits the handler's writes with the cursor, under the run's lock).
EffectsInOrder ==
  /\ Len(applied) = completed
  /\ \A i \in 1..Len(applied) : applied[i] = i

\* A dead letter stops its run: nothing of the run completes until an audited
\* replay of that very event, not even by a processor that had the event as its
\* candidate, or had claimed it, before it died (_failure, claim, replay).
DeadLetterHoldsTheRun ==
  [][blocked # 0 =>
       /\ completed' = completed
       /\ blocked' # blocked => replays'[blocked] > replays[blocked]]_vars

\* An event has used as many attempts as it has failures, in its generation, plus
\* the attempt that is running: contention and replays cost nothing, and a dead
\* letter had max_attempts failures (claim, defer, _failure, replay).
AttemptsAccounted ==
  \A e \in Event : receipt[e].status \notin {"absent", "processed"} =>
    /\ receipt[e].attempts = failures[e] + IF receipt[e].status = "running" THEN 1 ELSE 0
    /\ receipt[e].status = "dead" => failures[e] = MaxAttempts

\* Unless its receipt was damaged, the only attempt of an event that is recorded as
\* running is the one its receipt names: no processor that lost its claim ends
\* somebody else's (the token checks of _load and defer).
AttemptsMatchReceipts ==
  \A e \in Event \ lost :
    attempts[e] = IF receipt[e].status = "running" THEN {receipt[e].token} ELSE {}

\* Only damage is quarantined: duplicates, late notifications, stale candidates and
\* the clean-up of processed receipts are told apart from a receipt that got lost
\* (the retained proofs of completion).
QuarantineNeedsDamage ==
  \A e \in Event : quarantine[e] # "none" => e \in lost

\* The failures of an event that count: none once it is completed, or while it
\* has no receipt.
Strikes(e) == IF Completed(e) \/ Missing(e) THEN 0 ELSE failures[e]

Delivery == INSTANCE OrderedDelivery WITH
  emitted <- tail, delivered <- applied, held <- blocked,
  strikes <- [e \in Event |-> Strikes(e)], damaged <- lost,
  suspended <- {e \in Event : quarantine[e] = "open"}, granted <- replays

\* Receipts, claims, leases, processors and replays implement ordered delivery: each
\* event takes effect once and in its turn, never while it is suspended or behind a
\* dead letter, and no interleaving makes the run forget a failure or a dead letter
\* without an audited replay or damage (claim, execute, _failure, replay).
ImplementsOrderedDelivery == Delivery!Spec

\* What an operator finds in the alerts: a dead letter, a missing handler, damage.
Reported(e) == blocked = e \/ receipt[e].status = "waiting_handler" \/ quarantine[e] = "open"

\* Every committed event completes, or the run stops at it or at an earlier event
\* in a way an alert reports, even if a receipt got lost (Publisher.claim, claim,
\* execute, defer and the leases).
EveryEventIsAnswered ==
  \A e \in Event : (e <= tail) ~> (Completed(e) \/ \E d \in 1..e : Reported(d))

\* Does not hold, see README.  The runbook: a dead letter at the head of its run can be replayed with the
\* replay command.
DeadLettersCanBeReplayed ==
  \A e \in Event : receipt[e].status = "dead" /\ blocked = e /\ replays[e] < MaxGeneration
    => MayReplay(e) \/ MayReplayQuarantine(e)
=============================================================================
