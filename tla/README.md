# Specifications of the generation backend

TLA+ models of the backend under `src/apps/api/backend` (called `backend/` below): how an
accepted generation or export job gets executed exactly once on providers that time out,
on workers that die, behind a broker that loses messages; and, for the assistant, how what the
user says becomes a run while earlier plans are under way, how the tasks of the plan are
submitted, billed and published once, and how the events of a run are applied in order and once.
TLC checks the models on small instances; TLAPS proves the safety of each of them for every
value of its constants.

## 1. The system

The product turns canvas requests into images and videos. A FastAPI process accepts requests
into Postgres; a scheduler daemon, an outbox dispatcher, a bridge and Celery workers execute
them against cloud providers or ComfyUI; Redis holds circuit breakers and rate limits; RabbitMQ
carries wakeups. A second engine ("core": runs, tasks, events, timers) drives the assistant's
multi-step work over the same workers. The web canvas and a Node host are clients.

| Component | State | Operations | Talks to |
|---|---|---|---|
| Acceptance, `services/acceptance.py` | `generation_requests`, tombstones, `jobs`, outbox rows | accept (idempotent replay, conflict, capacity), cancel before accept | one transaction under a global advisory lock |
| Job execution, `services/execution.py`, `execution_runner.py`, `providers/staged.py` | a `jobs` row: status, phase, lease, epoch, slot, deadlines, handle; spool receipts; attempts | claim, heartbeat, begin_submit, advance, complete, defer, fail, request_cancel, recover_expired, expire_due | provider calls outside transactions; outbox |
| Batch rows, `ExecutionStore._event` | a parent row computed from its children | every commit on a child; sweeps over several | row locks |
| Operator tools, `tools/production_admin.py`, `tools/deadletter.py` | the same rows, audit events | confirm_stopped, resume_reconciliation, unpause_credential, requeue | the database and Redis directly |
| Outbox, `infrastructure/repositories.py`, `outbox_dispatcher.py`, `messaging.py` | outbox rows with claim token, attempts | enqueue, claim batch, publish, settle, reclaim | RabbitMQ with publisher confirms |
| Scheduler, bridge, Celery, `workers/daemon.py`, `workers/durable.py` | `dispatched_until`; messages | schedule_once, bridge_once, run_provider_phase | job rows, outbox, broker |
| Circuit breaker, `infrastructure/resilience.py` | a Redis hash per scope and two sorted sets, pause key | ACQUIRE, RECORD, pause and unpause | Lua scripts, atomic |
| Core events, `core/events/*` | event outbox, receipts, per-run cursor, attempts, quarantine, timers | publish, accept, claim, execute, defer, replay, watchdog, fire | broker as wake-up bell |
| Core states, `core/states.py`, `core/store.py`, migrations 0015/0016 | run and task rows with versions | transition, SQL trigger that repeats the table | core events |
| Core execution and credits, `core/execution/*`, `core/credits.py` | task execution rows with lease, deadline and stored reply; ledger and account; assets | enqueue, execute, callback, checkpoint, finish, publish, park, cancel | providers, credits, core events |
| Sessions, `core/sessions/*` | messages with their status, the session's dispatch lease, a revision and a fence per run | intake, dispatch, revise, interrupt, answer | supervisor, core execution |
| Supervisor, `core/supervisor/*` | invocations (events to react to), plans, tasks, choices | tick, accept, advance, interrupt, stop | the language model, core execution |
| Core batches, `core/batches/*` | schedules and their items | compile, schedule, retry | supervisor, core execution |
| Agent kernel, host admission | transcripts, media DAG, admission ledger | model and tool calls | begin_submit asks admission |
| Web canvas, Node host, evaluation | browser state, in-memory tables | user interface, scoring | the HTTP API |

What is hard about it, component by component:

* **Jobs.** A worker calls the provider between two transactions. It may be killed, fenced by
  a newer lease, cancelled or outlive a deadline at any point of that call, and a lost reply
  does not tell whether the provider began. What must hold: one paid generation per job, the
  provider's capacity, no verdict "failed" while something runs, one asset per completed job,
  final verdicts, occupancy that never leaks, and a verdict or an operator for every job.
* **Batch rows.** The status of the parent is computed from siblings read under READ
  COMMITTED while other children change; the sweeps lock many rows. What must hold: the
  committed parent follows from the committed children, and nobody waits in a circle.
* **Outbox.** Claims are stolen from slow dispatchers, processes die between the broker's
  confirmation and the commit, messages are delivered again or dropped. What must hold: an
  event recorded as published was published, the newest claim's outcome is what is recorded,
  every due job is woken in the end.
* **Circuit breaker.** Callers report outcomes of calls begun in an earlier state of the
  circuit, and the one elected to probe may die, or wait for the rate limit and the database before it
  calls. What must hold: one probe at a time as long as probes start in time, only
  its success closes the circuit, and a circuit that is not closed goes on being probed.
* **Core events.** Notifications are delivered at least once and out of order, processors work from
  stale snapshots, lose their leases and die, receipts of processed events are cleaned up
  and others get lost. What must hold: a run's effects in order and once, attempts that count only real
  failures, a run that stops at its dead letter until an operator replays it, a quarantine that
  never holds a healthy event, and an answer for every committed event.
* **Core execution.** The provider is called outside of the transaction, by a worker that may be fenced,
  die or be overtaken by a callback, a cancellation or a deadline. Six handlers write parts of
  verdict, ledger, account and asset. What must hold: one generation per paid attempt, a bill
  that follows from the verdict, nothing published that was not paid for, no submission after a
  cancellation, a settlement for every task.
* **Sessions and supervisor.** The user goes on talking while a plan is being made, reviewed, queued,
  submitted. A message is committed before anything else is locked, so every later step has to find out
  by itself that it is out of date. What must hold: what is submitted was planned with everything said, nothing
  is submitted after a stop, a run that is over is settled, every message is taken up, every run comes to rest.

## 2. Modules

| Module | Models | Kind |
|---|---|---|
| `JobLifecycle` | job rows, workers, provider, spool, sweeps, user, operator | component |
| `JobContract` | what a caller and the paying account are promised | abstract specification, implemented by `JobLifecycle` |
| `JobLifecycleInvariant` | the inductive invariant `IInv` | strengthening |
| `JobLifecycleProofs`, `JobEvidenceProofs` | theorems and proofs | TLAPS |
| `CircuitBreaker` | one circuit, its callers, the credential pause | component |
| `CircuitBreakerProofs` | theorems and proofs, from the component's `BreakerInv` | TLAPS |
| `BatchAggregate` | transactions that lock children and batches | component |
| `BatchAggregateProofs` | theorems and proofs, from the component's `BatchInv` | TLAPS |
| `Outbox` | writers, dispatchers, phase queue, bridge, Celery task | component |
| `OutboxProofs` | theorems and proofs, from the component's `OutboxInv` | TLAPS |
| `CoreEvents` | receipts, cursor and attempts of one run, processors, quarantine, replay | component |
| `OrderedDelivery` | what the events of a run may rely on | abstract specification, implemented by `CoreEvents` |
| `CoreEventsInvariant`, `CoreEventsProofs` | its inductive invariant `EInv`, theorems and proofs | TLAPS |
| `CoreExecution` | tasks, workers, provider, callbacks, ledger and account of one user | component |
| `TaskContract` | what the user and the paying workspace are promised of the tasks of a run | abstract specification, implemented by `CoreExecution` |
| `CoreExecutionInvariant`, `CoreExecutionProofs` | its inductive invariant `ExecInv`, theorems and proofs | TLAPS |
| `Conversation` | a session, its messages, the latest run, supervisor, planner, workers | component |
| `ConversationInvariant`, `ConversationProofs` | its inductive invariant `ConversationInv`, theorems and proofs | TLAPS |
| `MC...` | the instances TLC checks | model checking |

An operator whose comment starts with "Fault:" is a plausible mistake in the code next to the
correct operator. It is not part of any specification; it documents which mistake each
property detects.

### 2.1 JobLifecycle

`job[j]` is the row: `status`, `phase`, `lease` (`lease_owner` with `lease_until`), `epoch`,
`external` (a handle is known), `slot` (`slot_scope` is set), `cancel`, `failures`, `attempts`
and the four deadlines as unset, open or past. `worker[w]` is the claim a process holds and
how far it got: claimed, calling (request may be sent), accepted (the provider has it, the
reply is out), answered, saved (the artifact is spooled). `upstream[j]` is the provider's own
task, which the program cannot see; `started` and `assets` are histories; `receipts` is the spool.

A transaction is one action and the row operations (`Refused`, `Leased`, `Advanced`,
`AfterFailure`, `Unknown`, `Cancelled`, `Recovered`, `Expired`, ...) are the branches of the
code's methods as functions from rows to rows. A provider call is split where another process can
intervene. Time is abstract: whatever is in force may expire in any later step, which includes
every clock skew. `next_poll_at` and `dispatched_until` only delay a claim and are left out;
`Outbox` models the second one. Host admission inside `begin_submit` only refuses more.

Two assumptions enter the model. `EvidenceOfStop`: the operator's statement to
`confirm_stopped` is true, no process is about to send the request and nothing runs upstream.
And a provider that definitely refuses a submission did not begin one (this is what
`Certainty` in `providers/contracts.py` means).

### 2.2 CircuitBreaker

`circuit` is the Redis hash, `calls` the two sorted sets, times are counted down to from now so that
the state space is finite; `caller[c]` is what a worker holds between ACQUIRE and RECORD. Between
ACQUIRE and `bounded_call` the caller is `admitted`: it waits for the rate limit and for `begin_submit`, with a pool wait and
statements of up to 30 s each (`infrastructure/database.py:28-29`) and nothing that bounds their sum, so any number of seconds may pass
there; the budget runs from `BeginCall`. `waited` counts the seconds a probe spends that way, up to `Slack`. The
Lua scripts are atomic, one action each. Generations are compared only for equality: a
renumbering keeps those in use. `PermitLost` is the death of a caller or an exception that
skips RECORD.

### 2.3 BatchAggregate

Each session works through the statements of its transaction: lock rows in the statement's
order (`Before`), change children, flush, lock the batch, read siblings, write the batch,
commit or roll back. Reads see the committed state and the session's own writes (`Seen`).
Children take the status a change of the job model can give them (`Moves`). Every batch has children
(`BatchesHaveChildren`): acceptance creates them with it (`services/acceptance.py:88-116`). It is assumed that an
operator names a child to `confirm_stopped`; the tool would accept a batch in state unknown
(`tools/production_admin.py:36-38`), its sibling does not (`:55`).

### 2.4 Outbox

`event[e]` is a row (the token is the dispatcher that claimed it last: a dispatcher has one
batch at a time), `dispatcher[d]` the batch it holds, `phaseQueue`, `bridge` and `tasks` the
way to the worker, `job[j]` as much of the job row as the scheduler looks at. `lost` and `confirmed` are histories. A row that
is settled may be reused for a new event, which keeps the model finite while the scheduler
goes on writing. The notification queue (`job.changed`) only makes clients read the row
again and is left out.

### 2.5 CoreEvents

One run; events are named by their `run_sequence`, which the database's trigger hands out without
gaps. `receipt[e]` is the row of `core_event_receipts` (`expired` stands for a `lease_until` in the
past), `completed` and `blocked` the run's cursor row, `attempts[e]` the attempts recorded as running,
`quarantine[e]` the record of its quarantine. `processor[p]` says how far a
`Processor.once` coroutine got: it has a candidate, has claimed it, failed, met missing
bookkeeping, or met a busy lock. `applied` and `failures` are histories, `lost` the damaged events.

What holds the run's row is one step. The steps that are apart are those where the code acts on
something older: `Pick` reads the candidate in a snapshot and `Claim`, `Abandon`, ... check it
under the lock; `accept` checks and inserts in two statements without a lock; a failure, a
quarantine and a deferral are recorded after the transaction of the handler was rolled back.
A notification may arrive at any time and again (`AcceptReads`); two receivers that insert the same
receipt are as one, since the second insert does nothing. Damage is the loss of a receipt that is
not processed; runs, events, tasks and attempts are kept by foreign keys and triggers. The clean-up of
processed receipts is allowed by the code (`completed`) and done by nobody in it.

`OrderedDelivery` has no receivers, receipts, claims or processors: events take effect in their turn, may fail,
be damaged, suspended and granted a fresh start. Its variables are mapped to the committed rows only: `delivered` to the history of effects,
`held` to the cursor's dead letter, `granted` to the audited replays, `suspended` to the events with an open quarantine, and
`strikes[e]` to the failures of an event that is neither completed nor without a receipt, since a new receipt starts to count anew. So the
refinement says that the run forgets a failure or a dead letter only for a replay or a lost receipt.

### 2.6 CoreExecution

`task[t]` joins a task with its `TaskExecution`; `worker[w]` is what `execute` holds between the
transaction that takes the lease and the one that records the reply; the provider's own task is
apart, since the program cannot see it. Each of `execute`'s branches (prepare, submit, query, cancel, download, publish) is an
action that takes the lease, the call itself, and an action that records the result or finds the lease
lost. Callbacks, checkpoints of the supervisor and the deadline come in between. The ledger is an
account with what is reserved, billed and granted; prices are two numbers on either side of the quote.
Tools are of three kinds: remote and staged, local, and the local `text_layout` ("text"), whose structured result
`consume` makes an asset and draws on the canvas before it decides the verdict (`ConsumeOutput`, `Keep`). What a task of an
asset card does to the card is left out; its result has no asset. A read (`_execute_read`) begins and ends in one transaction and is left out.

`TaskContract` has no workers, leases, phases, replies or deadlines: a task is submitted when its quote can be held, generated,
retried after a failed generation, and gets one verdict, which settles its credits. Its variables are mapped to the columns the user sees
(`verdict`, `asked`, `retried`), the ledger and the account (`charged`, `funds`, `spent`), the canvas (`assets`, `drawn`) and what the provider does
(`generation`). A task in flight is cancelled only when somebody asked and, if it is remote, nothing was begun or the provider
confirmed that it stopped; a finished generation that was asked to cancel is paid for, kept and not shown. A text (`texts`) is kept
whatever its verdict is, which no request to cancel changes (`AnswerText`). A task with the verdict
"failed" may still be generated by a provider whose reply could not be parsed: the contract does not exclude it, as the code does not.

What the model makes visible without breaking a property:

* a text_layout task is settled after its asset is made and drawn (`core/execution/engine.py:736-751`): a price other than the
  tool's, or an output its schema refuses, leaves a failed and refunded task with an asset, possibly on the canvas. And one that was asked to
  cancel ends as succeeded and paid, its asset in the history only (`engine.py:759`, 891-911), where a published result ends as cancelled.
  `PublishedAsPromised` and the contract say no more than that what was asked to cancel is never drawn;
* a task put back to ready gets a new deadline with every turn
  (`core/execution/engine.py:425`), so one that only waits for the capacity never times out;
* a reply that was stored while its worker died is not looked at again once the deadline has
  passed: the task is then settled as unknown;
* a submission whose answer cannot be parsed is a failure with a full refund, although the
  provider may be at work;
* `stop` and `cancel_unsubmitted` leave the `TaskExecution` of a cancelled queued task in `ready`; the
  worker's check of the task's status keeps it from being sent;
* an unknown task past its deadline is only ever finished by a callback.

### 2.7 Conversation

One session and its latest run; earlier runs are over and keep only their messages. `message[m]`
is a row of the session's messages, `session` the dispatch columns, `dispatcher[d]` whether a
process is between the two transactions of `dispatch_due`, `run` the row of the run with what its
`error` column remembers (`interrupted`, `ending`), `task` the tasks of the latest plan, `inbox` the
supervisor's invocations, `worker` the one transaction that locks the run without the session.
`run.heard` and `inbox[i].heard` are histories: what the model had been told when it made the plan.

Transactions that lock the session and then the run are one step each. The worker's is two (`Take`,
`Submit`) because messages are committed while it holds the run: intake skips the fence then
(`SKIP LOCKED`), which is the race the design accepts; `worker.late` records those messages. The
call of the planner is two steps as well. Beside its text a message may give options (language, viewport, skill) and a
selection, which intake does not look at (`intake.py:31-43`); the messages dispatched together are merged, and the last one that gives a field
decides (`effective_request`, `Bad`). `open_run` raises on bad options and on a selection that cannot be read, `append_revision` only on the
latter, which must be ambiguous in the text as well to get that far (`core/session_context.py:70-76,186`). Such a dispatch is rolled back
(`DispatchFails`): messages, window and lease stay, and it is tried again when the lease has run out. `DispatchSkips` is a
process that dies, or finds the row of the session locked, between the two transactions. `Finds` is the cascade of checks in `tick`, in its order. A plan
is one of three shapes (an answer, one generation, a recognition with a subject choice and a
cutout), chosen by the planner when it returns. A plan the review refuses is retried, then put to the user as a form.

## 3. Runs

| Run | Instance | What it shows |
|---|---|---|
| `job_owners` | 1 cancellable video job, 2 workers, 1 retry, 6 epochs, fair | one generation, one owner, one asset, bounded attempts under crash, fencing, lost reply; verdicts are final, backed by the provider's answer or an audit, never "failed" while it runs; no submission after a cancellation; every job settles |
| `job_capacity` | image and video job, 1 worker, 1 slot, 3 epochs | two jobs compete for one slot, finished ones do not keep it; the inductive invariant holds in every reachable state; `JobLifecycle` implements `JobContract` |
| `breaker_probe` | 2 callers, short times, fair | stale outcomes are ignored, a single probe among those that start within the slack, only recent calls trip, an open or half-open circuit goes on being probed; `BreakerInv` holds in every reachable state |
| `batch_two` | 2 batches with interleaved ids, 4 children, 2 sessions | the batch agrees with its children in every committed state, its verdict is final; the sweeps do not deadlock with anybody |
| `outbox_safe` | 2 dispatchers, 2 rows, 2 attempts | recorded outcomes are those of the current claim; `OutboxInv` holds in every reachable state |
| `outbox_live` | the one deployed dispatcher, 1 row, 1 redelivery, fair | wakeups are repaired, events settle |
| `events_order` | 2 processors, 2 events, 2 attempts, 1 replay, the first receipt may get lost | `CoreEvents` implements `OrderedDelivery`; attempts are accounted for, dead letters stop the run, only damage is quarantined; `EInv` (with effects in order and once) holds in every reachable state |
| `events_live` | the same without an operator, fair | every event completes or the run stops with an alert |
| `exec` | 1 task (remote, local or text), 2 workers, 1 retry, prices below and above the quote, 1 fault | bill and asset match the verdict, nothing is sent after a cancellation, `CoreExecution` implements `TaskContract`, whatever order replies, callbacks, deadlines and deaths come in; `ExecInv` (with one generation per attempt) holds in every reachable state |
| `exec_live` | 1 task, 1 worker, 2 faults, fair | every task is settled, parked or waits for a callback |
| `conversation` | 3 messages, 2 dispatchers, 1 review retry, 1 fault, fair | stale plans are not submitted, a stop stops, ends are settled, messages are taken up and runs come to rest, but for messages that every dispatch rejects and for finding 1 |
| `stranded` | 2 messages, 1 dispatcher, no faults, fair | finding 1 |

Bounds. `MaxEpoch` limits claims and audits of a job: a job needs three claims to be prepared, submitted
and fetched, and each of the hazards costs one more (a fenced claim, a refused submission, a
resumed reconciliation), so six see each with a successful continuation. Two workers are
enough for a fenced and a current owner; one slot and two jobs for competition. Two sessions
in `batch_two` are a reader and the commit it may miss, and suffice for a cycle of
locks because each holds rows of both batches. The breaker's times are the smallest that order the
cooldown, the window, the ramp and a probe's budget in every way; a slack of two seconds lets a probe start at once, late, or too late. In `Outbox`, `MaxCopies`
limits copies of one message: duplicates of a message are consumed one after the other. In `CoreEvents`, two events make an
order, two processors a stale and a current one, two attempts a retry and a dead letter, and
`MaxGeneration` limits replays (none in `events_live`, which must not rely on them). In `CoreExecution`, one
task sees every handler, since tasks of a user only share the account, whose limit is below the two
reservations of a retry; `MaxFaults` counts deaths and lost replies. In `Conversation` three messages open a
run, revise it and interrupt the revision (or open the next run); two dispatchers are a stale and a current lease, one
retry of the review reaches the form, one fault hits each place that may fail, skipped dispatches are not bounded; the second message
has bad options or a bad selection and the third corrects both, so that a session is stuck with an active run, stuck without one, and freed; invocations need no bound because each one that
is appended was caused by a message, a task or a retry.
The proofs of section 5 have none of the bounds except that they hold for every `MaxEpoch`.

`CHECK_DEADLOCK FALSE` is set for all but the core events: finished jobs and tasks, exhausted
epochs, idle processes and a user who has nothing more to say are places where the system may stop. `NoDeadlock` states the database
deadlock explicitly.

Fairness. `job_owners`: a process that is alive finishes its claim, because every provider call runs
under a budget; abandoned leases and deadlines expire with time; the scheduler's loop repeats
both sweeps. Nothing makes a worker claim, since `expire_due` says it "must work even when no broker
or Worker can run". `breaker_probe`: time passes, the waits before a call end (pool and statements have timeouts), calls end within their budget, a caller that keeps
coming is eventually let through (SF, as ACQUIRE is atomic and others may win). `outbox_live`: the
daemons loop (WF); broker and processes do not fail each time they are used (SF), and the dispatcher's
batch is ordered by age so that each row's turn comes (SF per row). `events_live`: the publisher
notifies again as long as an event has no receipt (`Publisher.claim`), so that a delivery that
is possible again and again happens (SF); processors poll and finish what they took up (WF), and
among all of them claims and commits get through again and again: rows are locked for
milliseconds and coroutines do not die each time (SF). The operator, the watchdog and deployments owe nothing.
`exec_live`: workers poll, leases and deadlines elapse, parked tasks are resumed by the scheduler; the provider owes
nothing. `conversation`: the dispatcher, the supervisor and the workers poll (WF), windows and leases elapse,
a call of the planner has a timeout, and dispatchers do not die, or find the session locked, each time (SF: the transactions that lock it
take milliseconds); neither the user nor the provider owes anything, which is why a run may rest with a choice or a
submitted task.

## 4. Findings

1. `stranded`. `docs/design/session-conversations-block9.md:50` promises that a message sent into a run
   makes a new revision and plan of the same run after the safe boundary. When that plan is an answer
   (`answer_only`), `_create_tasks` moves the run to running without asking where it is
   (`core/supervisor/engine.py:1088`; `:1123` asks, for a plan with steps). A run that had a plan before is
   running already, and `states.py:47` has no edge from running to itself: the transaction fails, the
   invocation stays as it is and the next tick fails in the same way until the user says more or stops the run.
   The tick takes the oldest invocation of all sessions first, so that it also costs every poll of the supervisor one slot.

Divergences without a run of their own; the formulas are in the modules, marked "Does not hold":

* `UnpauseRestoresCalls`. `docs/runbooks/production-cutover.md:90` has an operator repair a paused
  credential with `unpause-credential`. The tool deletes the pause key
  (`tools/production_admin.py:80`), while a 401 reported by a probe or call also set the
  `auth` field of the circuit's hash (`infrastructure/resilience.py:49`), which ACQUIRE answers
  first and nothing ever clears: the circuits of that credential stay refused.
* `ProbeIsUnique`. `docs/architecture/durable-execution-status.md:18` lists the "唯一半开探针" (the only half-open probe). ACQUIRE gives a probe the
  budget of its operation and 30 s more (`infrastructure/resilience.py:113`), but the budget begins in `bounded_call`, after the rate
  limit and `begin_submit`. A probe that waits there for more than those 30 s (a full pool and a blocked slot row suffice) is still calling when
  the next one is admitted. TLC finds the trace in 15 steps; `OneProbeInFlight` is what remains true.
* `DeadLettersCanBeReplayed`. `docs/runbooks/core-events.md:62` has the operator replay the dead letter
  at the head of its run, `core-events-lock-recovery.md:94` keeps the `replay` command for
  ordinary dead letters. The command chooses `replay_quarantine` whenever the event has a quarantine record,
  a resolved one too (`workers/core_events.py:59-62`), and that refuses with "quarantine already
  resolved" (`core/events/integrity.py:83-84`). An event that was quarantined and repaired
  once and becomes a dead letter later blocks its run for good.
* `NothingIsOverheard`. The comment at `core/supervisor/engine.py:539-543` says of a run with a message pending
  "Never complete it or submit an old plan before the dispatcher revises it". A message that is dispatched after the last task ended and before the
  tick of that event is no longer pending; the tick finds all tasks ended and completes the run (`:1296-1308`), and
  the invocation of the message is then dropped with the run (`:470-472`): the user gets no answer to it.
* `EveryMessageGetsItsTurn`. `docs/design/session-conversations-block9.md:44` has messages wait in the queue of the run and
  "终态后按序派发下一轮" (after the terminal state the next turn is dispatched in order). Intake accepts a language, a viewport, a skill or a selection that
  `open_run` raises on (`core/supervisor/service.py:146,169,173,178,205`); the transaction of `dispatch_due` is rolled back, the message
  stays pending with its lease, and every later dispatch fails in the same way, also for the plain messages behind it, until a later message
  gives that field a good value (an empty one does not count) or the queue limit refuses the user. In an active run the pending message also keeps its
  workers and the supervisor back. TLC finds a loop of three steps, a lease, a failed dispatch and an expiry; `EveryMessageIsTaken` is what remains true. The scheduler does not catch
  that exception either (`workers/daemon.py:41`): the round ends before the sweeps of the jobs. The lease keeps the session away for 15 s
  and a round begins every 2 s, so that a few such sessions delay the sweeps and more than seven may stop them, unless the core daemons take the leases; the
  fairness of `job_owners` assumes that this does not happen.
* `AnsweredChoiceGoesOn`. An open choice may be answered in the chat (`core/sessions/dispatch.py:193-205`). Intake
  has raised the fence for that message and the answer does not lower it, so the cutout that follows is refused by `fencing.py`,
  cancelled, and the run ends as cancelled although nobody asked for it.
* Seen while modelling, below the grain of the model: `expire_stale_choices` locks the run and then, in `stop`, the
  session, against the order of `fencing.py:77`; a form after a rejected plan carries no
  `input_revision` (`engine.py:792-794`), so a newer message does not make it obsolete.

## 5. Proofs

`JobLifecycleProofs` proves, for every set of jobs and workers, every `Kind`, `SlotLimit`,
`MaxRetries` and `MaxEpoch` that satisfy `ConstantsAssumption` and `FiniteJobs`:

| Theorem | Statement |
|---|---|
| `Invariance` | `Spec => []IInv` |
| `TypeCorrectness` | `TypeOK` |
| `OneGeneration` | `AtMostOneGeneration` |
| `Capacity` | `UpstreamWithinCapacity` |
| `FailureIsSafe` | `FailedMeansStopped` |
| `Fencing` | `SingleOwner` |
| `SlotsAreReturned` | `SlotFreeOnceFinished` |
| `BoundedAttempts` | `AttemptsBounded` |
| `ExactlyOneAsset` | `OneAssetPerCompletedJob` |
| `FinalityOfVerdicts` | `TerminalIsFinal` |
| `ImplementsTheContract` | `JobLifecycle` implements `JobContract` |

None of the safety properties is inductive. That a job is generated once depends on what a row
in each phase says of the provider (`RowInv`: before `submitting` nothing was begun; in
`submitting` the slot is held and no handle is known; what runs upstream is always covered by
a slot), and on what a process in flight still may do (`ClaimInv`: a process about to send
finds its row in `submitting` with nothing begun, even when it has been fenced; what a provider
answered stays true until it is committed, or the claim is no longer current). `EpochsDiffer`
makes the newest claim unique; `OneRequest` excludes two processes about to send for one job;
`SlotsBounded` turns "covered by a slot" into the capacity.

The proof is layered as the model is: each row operation returns a row (types), preserves
`RowInv` (values), and leaves other claims true (`KeptClaim`, `FencedClaim`, ...). Each action
then follows from the lemma of the row operation it applies, and the temporal theorems from
the actions. Cardinality facts come from `FiniteSetTheorems`.

`JobEvidenceProofs` extends it with two facts about single steps, under the same assumptions:

| Theorem | Statement |
|---|---|
| `SubmissionsStop` | `NoSubmissionAfterCancel` |
| `EvidenceNeeded` | `UnknownNeedsEvidence` |

The second needs more than `IInv`, which it holds beside: an uncertain row is either an unleased interrupted submission or has a
handle (`UncertainRow`), a claim that reconciles never has an artifact to publish (`ArtifactClaim`), and no receipt in the spool
bears the epoch of such a claim (`ReceiptOf`), so that `complete`, an invalid artifact or `recover_expired` cannot
decide an uncertain job. `Honest` says what any operation may make of a row; each operation and then each action has its lemma.

`CoreEventsProofs` proves, for every set of processors, versions and losable events, every
`MaxAttempts`, `MaxEvents` and `MaxGeneration` that satisfy `ConstantsAssumption`:

| Theorem | Statement |
|---|---|
| `EventsInvariance` | `Spec => []EInv` |
| `EventsTypeCorrectness` | `TypeOK` |
| `OrderedEffects` | `EffectsInOrder` |
| `Accounting` | `AttemptsAccounted` |
| `MatchingAttempts` | `AttemptsMatchReceipts` |
| `QuarantineIsForDamage` | `QuarantineNeedsDamage` |
| `DeadLettersHold` | `DeadLetterHoldsTheRun` |
| `ImplementsDelivery` | `CoreEvents` implements `OrderedDelivery` |

`EInv` is `RunInv` and `CommittedInv`. The heart of `RunInv` is that a running receipt is the one after the cursor and that the run is not
blocked (`ReceiptInv`), which makes a commit extend `applied` by the next event. It needs that a
candidate, although old, is never ahead of the cursor, and that an uncompleted one whose receipt
is missing was damaged (`ProcessorInv`); that in turn is why a stale candidate is not quarantined.
`OtherEvents` shows once that a step on one event leaves the others' parts true; `WritesRow` and
`FinishedProcessors` do the same for the actions that write one receipt and for the processors.
`CommittedInv` (nothing knows of an event before it is committed: not the inbox, a receipt, a record of damage or a processor) is what the
refinement needs beside it, so that whatever happens to an event happens to one that was emitted. Each action is shown to be a step of
`OrderedDelivery` or none, most by the same few lemmas: a claim, a release or a deferral leaves every strike as it was, a failure
adds one, a commit and a replay clear those of the event whose turn it is.
A consequence: the code's `cursor_mismatch` checks cannot fail in the modelled system.

`CircuitBreakerProofs` proves, for every finite set of callers and all times that satisfy
`ConstantsAssumption`:

| Theorem | Statement |
|---|---|
| `TypeCorrectness` | `TypeOK` |
| `OneProbe` | `OneProbeInFlight` |
| `StaleOutcomes` | `StaleOutcomesAreIgnored` |
| `BreakerInvariance` | `BreakerInv` |
| `RecentTrips` | `TripsOnRecentCalls` |

`BreakerInv` says of a probe that is out, and has waited for less than `Slack` before its call, that the circuit waits for it, and for what is left
of `Slack` longer than the call may take (`ProbeInv`: each second before the call costs the slack one, each second of
the call costs budget and circuit one). Of a probe that waited longer it says nothing, and nothing holds (`ProbeIsUnique`). It says
of a permit of an earlier state of the circuit that its
generation is another one (`GenerationInv`). That a new generation is held by nobody is a counting argument (`FreshIsNew`).
`RecentTrips` needs `RecentInv`: the two sorted sets together hold no more calls than were recorded since the circuit closed, unless those are already enough
to trip it. The window is a count per age, so its sums are stated as the cardinality of a set of marks (`Members`), where ageing only
drops marks and a recorded call adds one; `OutcomeInv` says that an outcome belongs to a caller that has not reported yet.

`OutboxProofs` proves, for any jobs, rows and dispatchers and all bounds that satisfy `ConstantsAssumption`:

| Theorem | Statement |
|---|---|
| `OutboxInvariance` | `Spec => []OutboxInv` |
| `ConfirmedPublications` | `PublishedMeansConfirmed` |
| `ClaimsAreRecorded` | `KeptClaimIsRecorded` |

A dispatcher settles rows from memory, at a time when others may have reclaimed, claimed and settled them. `BatchInv` says
what its memory is still good for: a row of its batch that was not reclaimed is its own, and whatever it counts as sent was
confirmed by the broker, for it is not among the rows whose publication failed. It needs that a row somebody holds is never reused for
a new event, and that a claim takes only rows nobody owns (`RowInv`: a row that waits has attempts left).

`BatchAggregateProofs` proves, for any finite sets of batches and children and any sessions:

| Theorem | Statement |
|---|---|
| `BatchInvariance` | `Spec => []BatchInv` |
| `BatchAgreement` | `BatchAgreesWithChildren` |
| `BatchVerdict` | `BatchVerdictIsFinal` |
| `NoCircularWait` | `NoDeadlock` |

The children a session reads when it computes its batch may change before it commits. `DraftsAgree` says why that is harmless:
whoever has changed a child holds its batch too, or asks for it next, so that between the lock of the batch and the
commit nobody else publishes a change of its children. `LocksInOrder` is the lock order: children before batches, batches
by id, a cancellation's children in the order of the ids. In a circle of waiting sessions the holder of the last row
of that order would wait for a later one (`NoCircle`); that a last row exists is `GreatestNumber`.

`CoreExecutionProofs` proves, for any finite set of tasks, any workers, prices, limits, retries and faults (`ExecutionAssumption`,
`FiniteTasks`):

| Theorem | Statement |
|---|---|
| `ExecInvariance` | `Spec => []ExecInv` |
| `OneGeneration` | `OneGenerationPerAttempt` |
| `Bill` | `BillMatchesVerdict` |
| `Published` | `PublishedAsPromised` |
| `CancelledStays` | `CancelledIsNotSent` |
| `TermsKept` | `CoreExecution` implements `TaskContract` |

The run has one task; the theorems are what extends it to many tasks that share the account and to many workers. That an attempt is
generated once is `SendInv`: while the row says that nothing was sent, nothing is known of the attempt, here, at the provider or
by the owner (`Untold`), and no request is under way; and a request under way, of an owner or of a fenced worker, is the only one,
with nothing known either. So a reply of any kind, a callback included, proves that no request is left that could still arrive, and
a retry may begin anew. `ClaimInv` says what an owner may rely on although callbacks and cancellations change its row. `LifeInv`
and `BillInv` tie money, verdict and canvas to the phase, from which the counters follow by counting `Held`. The proof reduces each
action to one of few shapes, each shown once to keep all parts: the row moves (`RowKeeps`), a verdict (`FinishKeeps`), a lease
(`LeaseKeeps`), an answer (`AnswerKeeps`), a retry (`RetryKeeps`), columns the invariant does not read (`TouchKeeps`).
A cancellation also sets its flag on tasks of the whole run (`Stop`), which is why `CancelledIsNotSent` is proved with
the same lemmas, as a fact about every step.

`ExecInv` is `StateInv`, which is the above, and `TermsInv`, which the contract needs beside it. Three parties act on what they were told
earlier: a stored reply and the reply a worker holds still mean what they say (`Means`: cancelled at the provider, or free to be tried
again); a worker, even a fenced one, asks the provider to cancel only for a task whose cancellation was asked for, and sends only for a
task in flight (`WorkerTerms`); what the provider cancelled was asked to be (`TaskTerms`). And a run that is cancelled has no task in flight
(`TermsInv`), so that the flag the code derives from the run's status never differs from what the user asked for. Each action is then
shown to be a step of the contract that keeps `TermsInv` (`Fulfils`), in the shapes above: the row moves (`RowFulfils`), a verdict
(`SettleStep` for the money, `FinishTerms`), a lease (`LeaseTerms`), an answer (`AnswerTerms`), a text that is kept
before its verdict (`TextFulfils`), a retry (`RetryFulfils`).

`ConversationProofs` proves, for any set of dispatchers and any number of messages, review retries and
faults (`ConversationAssumption`):

| Theorem | Statement |
|---|---|
| `ConversationInvariance` | `Spec => []ConversationInv` |
| `ConversationTypes` | `TypeOK` |
| `EverythingSaid` | `PlannedWithEverythingSaid` |
| `Settlement` | `TerminalMeansSettled` |
| `StopIsFinal` | `NothingIsSubmittedAfterStop` |

That a worker submits only what was planned with everything said takes four places that may be out of date.
What the user said with a run (`Said`) grows only when a dispatcher revises the run, which makes a new revision.
So an invocation that was built for the present revision was told everything (`Sound`, kept by `SoundStays`), a plan
accepted for it too (`PlanInv`), and a worker that finds its task's revision up to date and no message pending holds such
a plan; what is committed after it looked is in `worker.late` (`WorkerInv`). `StopInv` says that a run that was asked to stop is
over or waits only for what is in flight, which is what makes `NothingIsSubmittedAfterStop` a fact about
single steps. `RunKeeps`, `InboxKeeps` and `MessagesKeep` state once what a step on one part leaves true of the others.

Model-checked only: liveness, since fairness is outside the prover's reach. Every safety property a passing run checks is a theorem.

## 6. Plan

In this order, most important behaviour first:

1. Job lifecycle with its contract, invariant and proofs. Done.
2. Circuit breaker, outbox and batch rows with proofs. Done.
3. Core events with invariant, proofs and their abstract specification `OrderedDelivery`. Done. Left: `CoreTimers` (claim, fire, defer, cancel
   against the run's lock; a timer fires at most once; today only the reliability probes schedule any) and the publisher's claims.
4. `CoreExecution`: submit, callback, finish, publish, cancel, credits, with invariant, proofs and its abstract specification `TaskContract`. Done.
5. `Conversation`: sessions and supervisor, with the transition table of `states.py`, with invariant and proofs. Done.
6. `AcceptedRequests`: idempotency ledger, tombstones and capacity; composed with `Outbox` for the
   rows that count against the capacity for good and those the scheduler adds beyond it.
7. Core batches on top of 4 and 5.
8. An abstract specification of what a user may rely on in a conversation, implemented by `Conversation`.

## 7. Not modelled

Model prompts, planning and tool choice of the agent (its decisions are text), recognition, review and
composition, image and video processing, the catalogue of tools and skills, HTTP validation, rendering, metrics,
diagnostics, the legacy synchronous pipeline, offline evaluation and the
clients: they keep no protocol state of their own or only reach the components above through
their operations. They are most of the lines of the repository; the protocol code is a small part of it. Rate limits
and the ramp's per-second counters beyond what admits a call are
data. Database failover and loss of committed transactions are outside the system's own
assumptions. Each component's note in `PROJECT.json` says what of it is left out.
