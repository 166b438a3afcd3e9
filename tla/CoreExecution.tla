---------------------------- MODULE CoreExecution ----------------------------
(***************************************************************************)
(* The core's execution of tasks (core/execution/engine.py): workers lease *)
(* a task's execution in one short transaction, call the provider outside  *)
(* of any, and commit what came of it in another one, fenced by the lease  *)
(* token.  Credits are reserved with the submission and settled with the   *)
(* verdict.  Callbacks, cancellations and the stop of the run arrive at    *)
(* any time; workers die, stall past their lease and find rows locked.     *)
(*                                                                         *)
(* Left out: what a tool computes, parameters and layout, the cards an     *)
(* asset card task writes, the wakeups (see Outbox), reads (_execute_read  *)
(* finishes in its first transaction), the admission checks that only      *)
(* raise, and the receipts table, whose rows repeat the reply they belong  *)
(* to.  Times are two kinds of expiry: of a lease, and (late) of whatever  *)
(* the current phase waits for.                                            *)
(***************************************************************************)
EXTENDS Integers, FiniteSets

CONSTANTS Task, Worker, None,
          Quote,       \* credits estimated for a task
          Costs,       \* what a provider may report to have used
          MaxGrant,    \* bound: credits ever granted to the workspace
          Limit,       \* credits_limit of the run
          MaxRetries,  \* max_retries of a task
          MaxFaults    \* bound: crashes, lost leases, failed calls and busy rows

ASSUME ExecutionAssumption ==
  /\ None \notin Worker
  /\ Quote \in Nat \ {0} /\ Costs \subseteq Nat /\ MaxGrant \in Nat /\ Limit \in Nat
  /\ MaxRetries \in Nat /\ MaxFaults \in Nat

ASSUME FiniteTasks == IsFiniteSet(Task)

VARIABLES tool,      \* the kind of tool a task is bound to
          task,      \* core_tasks, core_task_executions and the current attempt
          ledger,    \* host_credit_ledger, one row per task
          account,   \* host_credit_accounts and the counters of the run
          run,       \* status of the run
          obsolete,  \* a newer input revision exists (assert_submittable fails)
          worker,    \* the processes
          upstream,  \* what the provider does for the current attempt
          begun,     \* generations it began for that attempt
          assets, drawn,  \* assets of a task, and those put on the canvas
          faults
vars == <<tool, task, ledger, account, run, obsolete, worker, upstream, begun,
          assets, drawn, faults>>

\* "staged": a remote generation, prepared, cancellable, found only by its own id.
\* "local": computed by the worker, idempotent, found by its registration.
\* "text": a local one (text_layout) whose structured result becomes an asset.
Tools == {"staged", "local", "text"}
Prepares(t) == tool[t] = "staged"
Cancellable(t) == tool[t] = "staged"
Idempotent(t) == tool[t] # "staged"

Final == {"succeeded", "failed", "blocked_by_model", "cancelled"}
NoReply == [status |-> "none", cost |-> 0]
Outcomes == {"located",    \* succeeded, to be downloaded
             "delivered",  \* succeeded, with the data
             "output"}     \* succeeded, with a structured result
Replies ==
  [status : {"none", "pending", "retryable", "failed", "blocked_by_model", "cancelled"}, cost : {0}]
    \cup [status : Outcomes, cost : Costs]

Row == [status : {"queued", "submitted"} \cup Final,
        phase : {"ready", "preparing", "sending", "poll", "unknown", "download", "publish", "done"},
        cancel : BOOLEAN,     \* cancel_requested
        attempt : {"none", "registered", "sending", "submitted"},  \* submission_status
        known : BOOLEAN,      \* the provider's task id is recorded
        reply : Replies,      \* provider_reply in the ticket
        artifact : BOOLEAN,   \* the artifact column
        spooled : BOOLEAN,    \* the spool holds a file of the current epoch
        credits : 0..Quote,   \* result_credits
        lease : Worker \cup {None}, expired : BOOLEAN, late : BOOLEAN,
        retries : 0..(MaxRetries + 1),  \* counted up to the first value that matters
        retried : 0..MaxRetries]        \* retry_count

Enqueued ==
  [status |-> "queued", phase |-> "ready", cancel |-> FALSE, attempt |-> "none", known |-> FALSE,
   reply |-> NoReply, artifact |-> FALSE, spooled |-> FALSE, credits |-> 0, lease |-> None,
   expired |-> FALSE, late |-> FALSE, retries |-> 0, retried |-> 0]

\* What a process remembers of the transaction that took the lease.
Claim == [at : {"idle", "calling", "accepted", "replied", "saving", "failed"}, task : Task \cup {None},
          phase : {"ready", "preparing", "sending", "poll", "unknown", "download", "publish", "done"},
          op : {"none", "verify", "prepare", "found", "download", "stored", "cancel", "submit", "query"},
          reply : Replies]

Idle == [at |-> "idle", task |-> None, phase |-> "ready", op |-> "none", reply |-> NoReply]

Owned(w) == worker[w].at # "idle" /\ task[worker[w].task].lease = w
Cancelling(row) == row.cancel \/ run = "cancelled"

\* What a step leaves alone.
SameMoney == UNCHANGED <<ledger, account>>
SameWorld == UNCHANGED <<tool, run, obsolete>>
SameUpstream == UNCHANGED <<upstream, begun>>
SameResults == UNCHANGED <<assets, drawn>>
-----------------------------------------------------------------------------
(* Credits: reserve_core, settle_core and the default refund policy.       *)

MayReserve == account.reserved + Quote <= Limit /\ account.available >= Quote

Reserve(t) ==
  /\ ledger' = [ledger EXCEPT ![t] = [state |-> "reserved", charged |-> 0]]
  /\ account' = [account EXCEPT !.available = @ - Quote, !.reserved = @ + Quote]

\* settle_decision: failures and blocks are refunded, the rest pays what was used.
Charge(outcome, actual) == IF outcome \in {"failed", "blocked_by_model"} THEN 0 ELSE actual

LedgerState(outcome, charge) ==
  IF charge = 0 THEN "refunded"
  ELSE IF outcome = "cancelled" THEN "cancelled_with_charge" ELSE "settled"

Outcome(t, status) == IF task[t].cancel \/ status = "cancelled" THEN "cancelled" ELSE status

SettleAs(t, outcome, charge) ==
  IF ledger[t].state # "reserved" THEN SameMoney
  ELSE /\ ledger' = [ledger EXCEPT ![t] = [state |-> LedgerState(outcome, charge), charged |-> charge]]
       /\ account' = [account EXCEPT !.available = @ + (Quote - charge),
                                     !.reserved = @ - (Quote - charge),
                                     !.spent = @ + charge]

\* Fault: a cancellation that used nothing has nothing to settle.
SettleWhenUsed(t, status, actual) ==
  IF task[t].cancel /\ actual = 0 THEN SameMoney
  ELSE SettleAs(t, Outcome(t, status), Charge(Outcome(t, status), actual))

Settle(t, status, actual) == SettleAs(t, Outcome(t, status), Charge(Outcome(t, status), actual))

\* grant: another request id of the workspace's administrator.
Grant ==
  /\ account.available + account.reserved + Quote <= MaxGrant
  /\ account' = [account EXCEPT !.available = @ + Quote]
  /\ UNCHANGED <<ledger, task, worker, faults>> /\ SameWorld /\ SameUpstream /\ SameResults
-----------------------------------------------------------------------------
(* Effects on a row.                                                       *)

Released(row) == [row EXCEPT !.lease = None, !.expired = FALSE]

\* finish: the verdict, with the settlement of the ledger.  Columns that nobody reads
\* after it are forgotten.
Finished(row, status) ==
  [Enqueued EXCEPT !.status = status, !.phase = "done", !.cancel = row.cancel, !.attempt = row.attempt]

Finish(t, row, status, actual) ==
  /\ task' = [task EXCEPT ![t] = Finished(row, status)]
  /\ Settle(t, status, actual)

\* One more failure; a saturating counter, since only "> max_retries" is asked.
Failing(row) == [row EXCEPT !.retries = IF @ > MaxRetries THEN @ ELSE @ + 1]
Exhausted(row) == Failing(row).retries > MaxRetries

Retrying(row) ==
  [Failing(row) EXCEPT !.retried = @ + 1, !.phase = "sending", !.attempt = "none",
                       !.known = FALSE, !.reply = NoReply]

\* consume: what a worker, or the callback, makes of the provider's reply; saved: an
\* artifact is there already.
Consumed(row) == [Released(row) EXCEPT !.attempt = "submitted"]

NewAttempt(t) ==
  IF upstream[t] = "running" THEN SameUpstream
  ELSE /\ upstream' = [upstream EXCEPT ![t] = "none"]
       /\ begun' = [begun EXCEPT ![t] = 0]

\* Fault: one retry more than allowed.
MayRetryOnceMore(row, reply) == reply.status = "retryable" /\ row.retried <= MaxRetries /\ ~row.cancel

MayRetry(row, reply) == reply.status = "retryable" /\ row.retried < MaxRetries /\ ~row.cancel

\* The result becomes an asset, drawn unless somebody asked to cancel.
Keep(t, cancelled) ==
  /\ assets' = [assets EXCEPT ![t] = @ + 1]
  /\ \E placed \in BOOLEAN :
       /\ placed => ~cancelled
       /\ drawn' = [drawn EXCEPT ![t] = @ \/ placed]

\* A structured result.  A text is kept and drawn (persist_text_layout,
\* _retain_text_canvas) unless its layout is refused, and the verdict comes after
\* that: a price other than the tool's, or an output that its schema refuses, fails
\* the task with the asset where it is; a cancellation does not.
ConsumeOutput(t, row, cost) ==
  \/ tool[t] = "text" /\ Finish(t, row, "failed", 0) /\ SameResults
  \/ /\ IF tool[t] = "text" THEN Keep(t, Cancelling(row)) ELSE SameResults
     /\ Finish(t, row, "succeeded", cost) \/ Finish(t, row, "failed", 0)

Consume(t, r, reply, saved) ==
  LET row == Consumed(r) IN
  \/ /\ MayRetry(row, reply)
     /\ task' = [task EXCEPT ![t] = Retrying(row)]
     /\ NewAttempt(t) /\ SameMoney /\ SameResults
  \/ /\ reply.status = "pending"
     /\ task' = [task EXCEPT ![t] = [row EXCEPT !.phase = "poll", !.reply = NoReply]]
     /\ SameUpstream /\ SameMoney /\ SameResults
  \/ /\ reply.status \in {"cancelled", "failed", "blocked_by_model"}
     /\ Finish(t, row, reply.status, 0) /\ SameUpstream /\ SameResults
  \/ /\ reply.status = "retryable" /\ ~MayRetry(row, reply)
     /\ Finish(t, row, "failed", 0) /\ SameUpstream /\ SameResults
  \/ /\ reply.cost > Quote  \* unapproved cost: frozen for an operator
     /\ task' = [task EXCEPT ![t] = [row EXCEPT !.phase = "unknown", !.late = TRUE]]
     /\ SameUpstream /\ SameMoney /\ SameResults
  \/ /\ reply.status = "output" /\ reply.cost <= Quote
     /\ ConsumeOutput(t, row, reply.cost) /\ SameUpstream
  \/ /\ reply.status \in {"located", "delivered"} /\ reply.cost <= Quote
     /\ task' = [task EXCEPT ![t] =
          [row EXCEPT !.credits = reply.cost, !.reply = NoReply, !.late = FALSE,
                      !.phase = IF saved THEN "publish" ELSE "download"]]
     /\ SameUpstream /\ SameMoney /\ SameResults
-----------------------------------------------------------------------------
(* execute, first transaction: admit, or take the lease.                   *)

Free(row) == row.lease = None \/ row.expired
Ready(t) == task[t].phase = "ready" /\ task[t].status = "queued" /\ run = "running"

\* A task that stays queued too long, whose inputs are gone or of the wrong type, or
\* that an input revision made obsolete never reaches the provider.  A task whose
\* dependencies or credits are missing is deferred, with a new deadline.
RefuseReady(t) ==
  /\ Ready(t)
  /\ \/ Finish(t, task[t], "failed", 0)
     \/ /\ obsolete /\ ~task[t].late
        /\ Finish(t, task[t], "cancelled", 0)
  /\ UNCHANGED <<worker, faults>> /\ SameWorld /\ SameUpstream /\ SameResults

\* Fault: an attempt that is registered counts as sent.
UnsentUnregistered(row) == row.phase \in {"preparing", "sending"} /\ row.attempt = "none"

Unsent(row) == row.phase \in {"preparing", "sending"} /\ row.attempt \in {"none", "registered"}

CancelUnsent(t) ==
  LET row == task[t] IN
  /\ Free(row) /\ Unsent(row) /\ Cancelling(row)
  /\ Finish(t, [row EXCEPT !.cancel = TRUE], "cancelled", 0)
  /\ UNCHANGED <<worker, faults>> /\ SameWorld /\ SameUpstream /\ SameResults

\* Fault: polling goes on for ever.
OverdueUnknown(row) == row.phase = "unknown" /\ row.late

Overdue(row) == row.phase \in {"unknown", "poll"} /\ row.late

\* Past the deadline nobody is asked any more: the reservation stays frozen.
Park(t) ==
  /\ Free(task[t]) /\ Overdue(task[t])
  /\ task' = [task EXCEPT ![t].phase = "unknown", ![t].cancel = Cancelling(task[t])]
  /\ UNCHANGED <<worker, faults>> /\ SameMoney /\ SameWorld /\ SameUpstream /\ SameResults

\* Fault: whoever finds the attempt in sending sends it.
FirstSendAgain(row) == row.phase = "sending"

FirstSend(row) == row.phase = "sending" /\ row.attempt \in {"none", "registered"}

Operation(t, row) ==
  CASE row.phase = "publish" -> "verify"
    [] row.phase = "preparing" -> "prepare"
    [] row.phase = "download" -> IF row.spooled THEN "found" ELSE "download"
    [] row.reply # NoReply -> "stored"
    [] row.reply = NoReply /\ row.cancel /\ row.known /\ Cancellable(t) -> "cancel"
    [] FirstSend(row) -> "submit"
    [] OTHER -> "query"

\* "Sending is durable BEFORE network I/O": the attempt is marked with the lease.
Lease(w, t, row) ==
  LET op == Operation(t, row) IN
  /\ task' = [task EXCEPT ![t] =
       [row EXCEPT !.lease = w, !.expired = FALSE, !.spooled = FALSE,
                   !.attempt = IF FirstSend(row) THEN "sending"
                               ELSE IF @ = "none" THEN "registered" ELSE @]]
  /\ worker' = [worker EXCEPT ![w] =
       [at |-> CASE op = "stored" -> "replied" [] op = "found" -> "saving" [] OTHER -> "calling",
        task |-> t, phase |-> row.phase, op |-> op, reply |-> row.reply]]

\* The submission: credits, state and attempt in one transaction, guarded by the
\* input revision.
Submit(w, t) ==
  /\ worker[w] = Idle /\ Ready(t)
  /\ ~task[t].late /\ ~obsolete /\ MayReserve
  /\ Reserve(t)
  /\ Lease(w, t, [task[t] EXCEPT !.status = "submitted", !.late = FALSE,
                                 !.phase = IF Prepares(t) THEN "preparing" ELSE "sending"])
  /\ UNCHANGED faults /\ SameWorld /\ SameUpstream /\ SameResults

Resume(w, t) ==
  LET row == [task[t] EXCEPT !.cancel = Cancelling(task[t])] IN
  /\ worker[w] = Idle /\ Free(row)
  /\ row.phase \notin {"ready", "done"}
  /\ ~(Unsent(row) /\ row.cancel) /\ ~Overdue(row)
  /\ Lease(w, t, row)
  /\ UNCHANGED faults /\ SameMoney /\ SameWorld /\ SameUpstream /\ SameResults
-----------------------------------------------------------------------------
(* The call, outside of any transaction.                                   *)

Calling(w, ops) == worker[w].at = "calling" /\ worker[w].op \in ops
Of(w) == worker[w].task

Same(w) == UNCHANGED <<task, faults>> /\ SameMoney /\ SameWorld /\ SameResults

\* The provider takes a generation up; a local tool computes it, under one key.
ProviderAccepts(w) ==
  LET t == Of(w) IN
  /\ Calling(w, {"submit"})
  /\ worker' = [worker EXCEPT ![w].at = "accepted"]
  /\ upstream' = [upstream EXCEPT ![t] = IF Idempotent(t) THEN "done" ELSE "running"]
  /\ begun' = [begun EXCEPT ![t] = IF Idempotent(t) THEN 1 ELSE @ + 1]
  /\ Same(w)

Succeeds(statuses) == [status : statuses, cost : Costs]
Says(statuses) == [status : statuses, cost : {0}]

\* What the provider says of a generation in state u, op being the call that asks.
Reports(t, u, op) ==
  CASE u = "running" -> Says({"pending"})
    [] u = "failed" -> Says({"retryable", "failed", "blocked_by_model"})
    [] u = "cancelled" -> Says({"cancelled"})
    [] u = "done" -> Succeeds(IF tool[t] = "text" THEN {"output"}
                              ELSE IF Idempotent(t) THEN {"located", "output"}
                              ELSE IF op = "submit" THEN {"located", "delivered"} ELSE {"located"})
    [] OTHER -> {}

\* A worker that lost its lease finds that out when it wants to record the answer.
Goes(w, at) == IF Owned(w) THEN [worker[w] EXCEPT !.at = at] ELSE Idle
Answers(w, reply) == worker' = [worker EXCEPT ![w] = [Goes(w, "replied") EXCEPT !.reply = IF Owned(w) THEN reply ELSE @]]

\* A submission is refused, before anything is begun, or its reply is malformed.
SubmitFails(w) ==
  /\ \/ /\ Calling(w, {"submit"})
        /\ \E reply \in Says({"retryable", "failed", "blocked_by_model"}) : Answers(w, reply)
     \/ /\ worker[w].at = "accepted" /\ ~Idempotent(Of(w))
        /\ Answers(w, [status |-> "failed", cost |-> 0])
  /\ Same(w) /\ SameUpstream

SubmitReplies(w) ==
  /\ worker[w].at = "accepted"
  /\ \E reply \in Reports(Of(w), upstream[Of(w)], "submit") : Answers(w, reply)
  /\ Same(w) /\ SameUpstream

Findable(t) == IF Idempotent(t) THEN upstream[t] # "none" ELSE task[t].known

QueryReplies(w) ==
  /\ Calling(w, {"query"}) /\ Findable(Of(w))
  /\ \E reply \in Reports(Of(w), upstream[Of(w)], "query") : Answers(w, reply)
  /\ Same(w) /\ SameUpstream

\* Nothing is known of the attempt: only an idempotent provider is asked again.
QueryMisses(w) ==
  /\ Calling(w, {"query"}) /\ ~Findable(Of(w))
  /\ worker' = [worker EXCEPT ![w] = IF Idempotent(Of(w)) THEN [@ EXCEPT !.op = "submit"]
                                     ELSE Goes(w, "saving")]
  /\ Same(w) /\ SameUpstream

\* "Cancel accepted is not terminal proof": the provider is polled for it.
CancelReplies(w) ==
  LET t == Of(w) IN
  /\ Calling(w, {"cancel"})
  /\ \E u \in IF upstream[t] = "running" THEN {"running", "cancelled"} ELSE {upstream[t]} :
       /\ upstream' = [upstream EXCEPT ![t] = u]
       /\ \E reply \in Reports(t, u, "cancel") : Answers(w, reply)
  /\ UNCHANGED begun /\ Same(w)

\* prepare, verify and download; a download is spooled under the worker's own epoch.
CallReturns(w) ==
  /\ Calling(w, {"prepare", "verify", "download"})
  /\ worker' = [worker EXCEPT ![w] = Goes(w, "saving")]
  /\ task' = [task EXCEPT ![Of(w)].spooled = @ \/ (worker[w].op = "download" /\ Owned(w))]
  /\ UNCHANGED faults /\ SameMoney /\ SameWorld /\ SameUpstream /\ SameResults

CallFails(w) ==
  /\ worker[w].at \in {"calling", "accepted", "saving"}
  /\ worker' = [worker EXCEPT ![w] = Goes(w, "failed")]
  /\ Same(w) /\ SameUpstream
-----------------------------------------------------------------------------
(* checkpoint_reply, then the second transaction of execute.               *)

Leaves(w) == worker' = [worker EXCEPT ![w] = Idle]

\* Another worker's token, or none: what this one has is dropped.
Fenced(w) ==
  /\ worker[w].at \in {"replied", "saving", "failed"} /\ ~Owned(w)
  /\ Leaves(w) /\ Same(w) /\ SameUpstream

Checkpoint(w) ==
  LET reply == worker[w].reply IN
  /\ worker[w].at = "replied" /\ Owned(w)
  /\ task' = [task EXCEPT ![Of(w)].reply = reply,
                          ![Of(w)].known = @ \/ reply.status \in {"pending", "located", "output"},
                          ![Of(w)].artifact = @ \/ reply.status = "delivered"]
  /\ worker' = [worker EXCEPT ![w].at = "saving"]
  /\ UNCHANGED faults /\ SameMoney /\ SameWorld /\ SameUpstream /\ SameResults

\* Fault: only the run's cancellation keeps an artifact off the canvas.
PublishAnyway(t) ==
  /\ Keep(t, run = "cancelled")
  /\ Finish(t, task[t], IF Cancelling(task[t]) THEN "cancelled" ELSE "succeeded", task[t].credits)

\* publish: asset, canvas, credits and verdict at once.
Publish(t) ==
  LET cancelled == Cancelling(task[t]) \/ task[t].status = "cancelled" IN
  /\ Keep(t, cancelled)
  /\ Finish(t, task[t], IF cancelled THEN "cancelled" ELSE "succeeded", task[t].credits)

Becomes(t, row) == task' = [task EXCEPT ![t] = Released(row)] /\ SameMoney /\ SameUpstream

Saves(w, phases) == worker[w].at = "saving" /\ worker[w].phase \in phases /\ Owned(w)

SavePublished(w) ==
  /\ Saves(w, {"publish"}) /\ Publish(Of(w))
  /\ Leaves(w) /\ UNCHANGED faults /\ SameWorld /\ SameUpstream

SavePrepared(w) ==
  /\ Saves(w, {"preparing"})
  /\ Becomes(Of(w), [task[Of(w)] EXCEPT !.phase = "sending"])
  /\ Leaves(w) /\ UNCHANGED faults /\ SameWorld /\ SameResults

SaveDownloaded(w) ==
  /\ Saves(w, {"download"})
  /\ Becomes(Of(w), [task[Of(w)] EXCEPT !.phase = "publish", !.artifact = TRUE])
  /\ Leaves(w) /\ UNCHANGED faults /\ SameWorld /\ SameResults

Asking == {"sending", "poll", "unknown"}

SaveReply(w) ==
  /\ Saves(w, Asking) /\ worker[w].reply # NoReply
  /\ Consume(Of(w), task[Of(w)], worker[w].reply, task[Of(w)].artifact)
  /\ Leaves(w) /\ UNCHANGED faults /\ SameWorld

SaveNothing(w) ==
  /\ Saves(w, Asking) /\ worker[w].reply = NoReply
  /\ Becomes(Of(w), [Failing(task[Of(w)]) EXCEPT !.phase = "unknown"])
  /\ Leaves(w) /\ UNCHANGED faults /\ SameWorld /\ SameResults
-----------------------------------------------------------------------------
(* execute, the transaction after an error.                                *)

Fails(w, phases) == worker[w].at = "failed" /\ worker[w].phase \in phases /\ Owned(w)

GivesUp(t, row) == Finish(t, row, "failed", 0) /\ SameUpstream

PrepareFailed(w) ==
  LET t == Of(w) IN
  /\ Fails(w, {"preparing"})
  /\ \/ ~Exhausted(task[t]) /\ Becomes(t, Failing(task[t]))
     \/ GivesUp(t, Failing(task[t]))  \* exhausted, or a ValueError
  /\ Leaves(w) /\ UNCHANGED faults /\ SameWorld /\ SameResults

\* "A lost lease never permits resubmission", nor does a lost reply.
SendFailed(w) ==
  /\ Fails(w, {"sending"})
  /\ Becomes(Of(w), [task[Of(w)] EXCEPT !.phase = "unknown"])
  /\ Leaves(w) /\ UNCHANGED faults /\ SameWorld /\ SameResults

AskFailed(w) ==
  LET row == task[Of(w)] IN
  /\ Fails(w, {"poll", "unknown"})
  /\ Becomes(Of(w), IF Exhausted(row) THEN [Failing(row) EXCEPT !.phase = "unknown", !.late = TRUE]
                    ELSE Failing(row))
  /\ Leaves(w) /\ UNCHANGED faults /\ SameWorld /\ SameResults

DownloadFailed(w) ==
  LET row == task[Of(w)] IN
  /\ Fails(w, {"download"})
  /\ IF row.late THEN GivesUp(Of(w), row) ELSE Becomes(Of(w), Failing(row))
  /\ Leaves(w) /\ UNCHANGED faults /\ SameWorld /\ SameResults

\* The edit is rejected (again), or the file is not there any more.
PublishFailed(w) ==
  LET row == task[Of(w)] IN
  /\ Fails(w, {"publish"})
  /\ \/ ~Exhausted(row) /\ Becomes(Of(w), Failing(row))
     \/ GivesUp(Of(w), Failing(row))
     \/ ~row.late /\ Becomes(Of(w), [row EXCEPT !.phase = "download", !.artifact = FALSE])
  /\ Leaves(w) /\ UNCHANGED faults /\ SameWorld /\ SameResults
-----------------------------------------------------------------------------
(* Faults, each at the cost of one: a process dies or ends with another    *)
(* exception, keeping its lease; the rows are locked when it wants to save *)
(* (release_owner) or a living worker's lease runs out.                    *)

Strikes == faults < MaxFaults /\ faults' = faults + 1

Crash(w) ==
  /\ worker[w] # Idle /\ Strikes
  /\ Leaves(w)
  /\ UNCHANGED task /\ SameMoney /\ SameWorld /\ SameUpstream /\ SameResults

SaveBusy(w) ==
  /\ worker[w].at = "saving" /\ Owned(w) /\ Strikes
  /\ task' = [task EXCEPT ![Of(w)] = Released(@)]
  /\ Leaves(w)
  /\ SameMoney /\ SameWorld /\ SameUpstream /\ SameResults

Expires(t) == task[t].lease # None /\ ~task[t].expired /\ task' = [task EXCEPT ![t].expired = TRUE]

LeaseExpires(t) ==
  /\ Expires(t)
  /\ IF \E w \in Worker : worker[w].task = t /\ Owned(w) THEN Strikes ELSE UNCHANGED faults
  /\ UNCHANGED worker /\ SameMoney /\ SameWorld /\ SameUpstream /\ SameResults

\* The heartbeat asks for the token only: it revives a lease that ran out.
Heartbeat(w) ==
  /\ Owned(w) /\ task[Of(w)].expired
  /\ task' = [task EXCEPT ![Of(w)].expired = FALSE]
  /\ UNCHANGED <<worker, faults>> /\ SameMoney /\ SameWorld /\ SameUpstream /\ SameResults
-----------------------------------------------------------------------------
(* The world around: clock, provider, user, supervisor.                    *)

Elapses(t) ==
  /\ task[t].phase \in {"ready", "poll", "unknown", "download", "publish"} /\ ~task[t].late
  /\ task' = [task EXCEPT ![t].late = TRUE]
  /\ UNCHANGED <<worker, faults>> /\ SameMoney /\ SameWorld /\ SameUpstream /\ SameResults

UpstreamEnds(t) ==
  /\ upstream[t] = "running"
  /\ \E end \in {"done", "failed"} : upstream' = [upstream EXCEPT ![t] = end]
  /\ UNCHANGED <<task, worker, begun, faults>> /\ SameMoney /\ SameWorld /\ SameResults

\* The callback finds a bound attempt that still waits for its result.
Callback(t) ==
  /\ ~Idempotent(t) /\ task[t].known /\ task[t].phase \in Asking
  /\ \E reply \in Reports(t, upstream[t], "callback") : Consume(t, task[t], reply, FALSE)
  /\ UNCHANGED <<worker, faults>> /\ SameWorld

Cancel(t) ==
  /\ \/ /\ task[t].phase = "ready" /\ task[t].status = "queued"
        /\ task' = [task EXCEPT ![t] = [Finished(@, "cancelled") EXCEPT !.cancel = TRUE]]
     \/ /\ task[t].phase \notin {"ready", "done"} /\ ~task[t].cancel
        /\ task' = [task EXCEPT ![t].cancel = TRUE]
  /\ UNCHANGED <<worker, faults>> /\ SameMoney /\ SameWorld /\ SameUpstream /\ SameResults

InFlight == {t \in Task : task[t].status = "submitted"}

\* supervisor stop: queued tasks are cancelled, those in flight asked to.
Stop ==
  /\ run = "running" /\ \E t \in Task : task[t].phase # "done"  \* bound
  /\ run' = IF InFlight = {} THEN "cancelled" ELSE "paused"
  /\ task' = [t \in Task |->
       CASE task[t].status = "submitted" -> [task[t] EXCEPT !.cancel = TRUE]
         [] task[t].status = "queued" -> [task[t] EXCEPT !.status = "cancelled"]
         [] OTHER -> task[t]]
  /\ UNCHANGED <<tool, obsolete, worker, faults>> /\ SameMoney /\ SameUpstream /\ SameResults

Stopped ==
  /\ run = "paused" /\ InFlight = {}
  /\ run' = "cancelled"
  /\ UNCHANGED <<tool, obsolete, task, worker, faults>> /\ SameMoney /\ SameUpstream /\ SameResults

\* A message of the user makes the run's input revision obsolete.
Supersede ==
  /\ ~obsolete /\ \E t \in Task : task[t].status = "queued"
  /\ obsolete' = TRUE
  /\ UNCHANGED <<tool, run, task, worker, faults>> /\ SameMoney /\ SameUpstream /\ SameResults
-----------------------------------------------------------------------------
Init ==
  /\ tool \in [Task -> Tools]
  /\ task = [t \in Task |-> Enqueued]
  /\ ledger = [t \in Task |-> [state |-> "none", charged |-> 0]]
  /\ account = [available |-> 0, reserved |-> 0, spent |-> 0]
  /\ run = "running" /\ obsolete = FALSE
  /\ worker = [w \in Worker |-> Idle]
  /\ upstream = [t \in Task |-> "none"]
  /\ begun = [t \in Task |-> 0]
  /\ assets = [t \in Task |-> 0] /\ drawn = [t \in Task |-> FALSE]
  /\ faults = 0

\* What a living worker does to end its claim.
Work(w) ==
  \/ ProviderAccepts(w) \/ SubmitFails(w) \/ SubmitReplies(w)
  \/ QueryReplies(w) \/ QueryMisses(w) \/ CancelReplies(w) \/ CallReturns(w) \/ CallFails(w)
  \/ Fenced(w) \/ Checkpoint(w)
  \/ SavePublished(w) \/ SavePrepared(w) \/ SaveDownloaded(w) \/ SaveReply(w) \/ SaveNothing(w)
  \/ PrepareFailed(w) \/ SendFailed(w) \/ AskFailed(w) \/ DownloadFailed(w) \/ PublishFailed(w)

WorkerStep(w) ==
  \/ \E t \in Task : Submit(w, t) \/ Resume(w, t)
  \/ Work(w) \/ Crash(w) \/ SaveBusy(w) \/ Heartbeat(w)

TaskStep(t) ==
  \/ RefuseReady(t) \/ CancelUnsent(t) \/ Park(t)
  \/ LeaseExpires(t) \/ Elapses(t) \/ UpstreamEnds(t) \/ Callback(t) \/ Cancel(t)

Next ==
  \/ \E w \in Worker : WorkerStep(w)
  \/ \E t \in Task : TaskStep(t)
  \/ Grant \/ Stop \/ Stopped \/ Supersede

Spec == Init /\ [][Next]_vars

\* Calls have timeouts, time passes, and the outbox wakes an execution that is due.
\* Nothing makes the provider end a generation or the user do anything.
Fairness ==
  /\ \A w \in Worker : WF_vars(Work(w))
  /\ \A t \in Task : /\ WF_vars(\E w \in Worker : Resume(w, t))
                     /\ WF_vars(CancelUnsent(t)) /\ WF_vars(Park(t))
                     /\ WF_vars(Elapses(t)) /\ WF_vars(LeaseExpires(t))

FairSpec == Spec /\ Fairness

-----------------------------------------------------------------------------
(* Properties.                                                             *)

TypeOK ==
  /\ tool \in [Task -> Tools]
  /\ task \in [Task -> Row]
  /\ ledger \in [Task -> [state : {"none", "reserved", "settled", "refunded", "cancelled_with_charge"},
                          charged : 0..Quote]]
  /\ account \in [available : Nat, reserved : Nat, spent : Nat]
  /\ run \in {"running", "paused", "cancelled"} /\ obsolete \in BOOLEAN
  /\ upstream \in [Task -> {"none", "running", "done", "failed", "cancelled"}]
  /\ begun \in [Task -> Nat] /\ assets \in [Task -> Nat] /\ drawn \in [Task -> BOOLEAN]
  /\ worker \in [Worker -> Claim]
  /\ \A w \in Worker : worker[w].at # "idle" => worker[w].task \in Task

\* An attempt is generated once, and the next one only when nothing of it still runs:
\* whoever crashed, stalled, lost its lease or its reply (execute: "Sending is durable
\* BEFORE network I/O").
OneGenerationPerAttempt == \A t \in Task : begun[t] <= 1

\* The bill agrees with the verdict: credits are held exactly while a task is in
\* flight, failures cost nothing, nobody pays for nothing, and the workspace's and the
\* run's counters add up (reserve_core, settle_core, finish).
Held == {t \in Task : ledger[t].state = "reserved"}

BillMatchesVerdict ==
  /\ Held = InFlight
  /\ account.reserved = Quote * Cardinality(Held) + account.spent
  /\ \A t \in Task :
       LET row == task[t] IN
       /\ row.status \in {"failed", "blocked_by_model"} => ledger[t].charged = 0
       /\ ledger[t].charged > 0 => row.status \in {"succeeded", "cancelled"} /\ upstream[t] = "done"
       /\ row.status = "succeeded" => ledger[t].charged \in Costs

\* One asset at most, and none before the verdict.  What somebody asked to cancel is
\* only in the history, however it ended, and what is drawn is the asset of a task that
\* succeeded, or of a text that failed after it was drawn (publish, consume).
MayBeDrawn(t) ==
  /\ ~task[t].cancel
  /\ task[t].status = "succeeded" \/ (task[t].status = "failed" /\ tool[t] = "text")

PublishedAsPromised ==
  \A t \in Task :
    /\ assets[t] <= 1
    /\ drawn[t] => assets[t] = 1 /\ MayBeDrawn(t)
    /\ assets[t] = 1 => task[t].phase = "done"

\* A request that had not left yet when the cancellation was recorded never leaves
\* (execute, consume).
CancelledIsNotSent ==
  [][\A t \in Task :
       task[t].cancel /\ task'[t].attempt = "sending" => task[t].attempt = "sending"]_vars

Contract == INSTANCE TaskContract WITH
  Prices <- Costs, Retries <- MaxRetries,
  local <- {t \in Task : tool[t] # "staged"}, texts <- {t \in Task : tool[t] = "text"},
  verdict <- [t \in Task |-> task[t].status], asked <- [t \in Task |-> task[t].cancel],
  generation <- upstream, retried <- [t \in Task |-> task[t].retried],
  funds <- account.available, spent <- account.spent,
  charged <- [t \in Task |-> ledger[t].charged]

\* Leases, calls, callbacks, deadlines and cancellations implement the contract of a
\* task: no handler and no order of them costs a second generation, a second verdict or
\* a second charge, retries what is not known to be over, cancels at no cost what may
\* still run, or shows what was cancelled (execute, consume, finish, publish, cancel).
ImplementsTaskContract == Contract!Spec

Parked(row) == row.phase = "unknown" /\ row.late

\* A task in flight gets its verdict, or is parked with an alert and its credits
\* frozen, although workers die, calls fail and the provider may never end.
EveryTaskSettles == \A t \in Task : task[t].status = "submitted" ~> task[t].phase = "done" \/ Parked(task[t])
=============================================================================
