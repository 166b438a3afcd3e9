---------------------------- MODULE JobLifecycle ----------------------------
(***************************************************************************)
(* Durable execution of generation and export jobs: the rows of the "jobs" *)
(* table as ExecutionStore changes them, the workers that claim a job with *)
(* a fenced lease and run one phase of it, the upstream provider they call,*)
(* the artifact spool, the recovery and deadline scans of the scheduler,   *)
(* user cancellation and the administrator's audited commands.             *)
(*                                                                         *)
(* A database transaction is one step.  A provider call is several steps,  *)
(* because the process can be fenced, cancelled or killed between sending  *)
(* the request, the provider's acceptance, its reply and the commit.       *)
(*                                                                         *)
(* Time is abstract: a lease or a deadline that is in force may expire in  *)
(* any later step.  next_poll_at and dispatched_until only postpone a      *)
(* claim, which here may always come later, so they are not state.         *)
(***************************************************************************)
EXTENDS Integers, FiniteSets

CONSTANTS
  Job,         \* rows of the jobs table that a worker can execute (no batch parents)
  Worker,      \* worker processes
  Kind,        \* Kind[j]: which provider and media a job was accepted for
  SlotLimit,   \* cloud_capacity / comfy_capacity: occupancy of the one model scope
  MaxRetries,  \* ProviderPolicy.max_retries
  MaxEpoch,    \* bound of the model: no claim or audit at this epoch
  None         \* no job

Kinds == {"image",    \* cloud image: the submit call itself returns the result
          "comfy",    \* ComfyUI: submit returns a handle that is polled
          "video",    \* cloud video: polled, and the handle can be cancelled
          "export"}   \* FFmpeg: no upstream at all

ASSUME ConstantsAssumption ==
  /\ Kind \in [Job -> Kinds]
  /\ SlotLimit \in Nat \ {0}
  /\ MaxRetries \in Nat
  /\ MaxEpoch \in Nat
  /\ None \notin Job

ASSUME FiniteJobs == IsFiniteSet(Job)

VARIABLES
  job,       \* job[j]: the row
  worker,    \* worker[w]: the claim a process works on and how far it got
  upstream,  \* upstream[j]: the provider's own task for the job
  started,   \* started[j]: history, generations the provider ever began for the job
  receipts,  \* <<job, epoch>> pairs with a receipt.json in the spool
  assets     \* assets[j]: history, assets published for the job

vars == <<job, worker, upstream, started, receipts, assets>>

-----------------------------------------------------------------------------
(* The row and the claim.                                                  *)

Recovering == {"reconcile", "cancel"}
Publishing == {"download", "persist"}
Phases == {"prepare", "submit", "submitting", "poll", "export", "completed",
           "failed", "reconcile_exhausted", "audited_stopped"}
          \cup Recovering \cup Publishing
Live == {"queued", "running", "unknown"}
Clock == {"unset", "open", "past"}

Row == [status : Live \cup {"completed", "failed"},
        phase : Phases,
        lease : {"none", "live", "expired"},   \* lease_owner and lease_until
        epoch : Nat,                           \* execution_epoch
        external : BOOLEAN,                    \* external_task_id is known
        slot : BOOLEAN,                        \* slot_scope is set
        cancel : BOOLEAN,                      \* cancel_requested_at is set
        failures : 0..MaxRetries,              \* phase_failures
        attempts : Nat,                        \* attempt_count
        queueD : {"open", "past"},             \* queue_deadline
        execD : Clock,                         \* execution_deadline
        downD : Clock,                         \* download_deadline
        recD : Clock]                          \* reconcile_deadline

Accepted(j) ==
  [status |-> "queued", phase |-> IF Kind[j] = "export" THEN "export" ELSE "prepare",
   lease |-> "none", epoch |-> 0, external |-> FALSE, slot |-> FALSE,
   cancel |-> FALSE, failures |-> 0, attempts |-> 0, queueD |-> "open",
   execD |-> "unset", downD |-> "unset", recD |-> "unset"]

\* What the provider or the spool answered, or how the call failed.
Successes == {"submit", "poll", "download", "failed", "persist"}
Failures == {"retryable", "permanent", "uncertain"}

WorkerState ==
  [at : {"idle", "claimed", "calling", "accepted", "answered", "saved"},
   job : Job \cup {None}, epoch : Nat, phase : Phases,
   answer : Successes \cup Failures \cup {"none"}]

Idle == [at |-> "idle", job |-> None, epoch |-> 0, phase |-> "prepare", answer |-> "none"]

Put(j, row) == job' = [job EXCEPT ![j] = row]
Goes(w, at) == worker' = [worker EXCEPT ![w].at = at]
Answered(w, answer) ==
  worker' = [worker EXCEPT ![w].at = "answered", ![w].answer = answer]

\* Fault: the epoch of the claim is not compared.
OwnedByAnyLease(w) == worker[w].at # "idle" /\ job[worker[w].job].lease = "live"

\* _owned: the row is still leased to this claim.
Owned(w) ==
  LET j == worker[w].job IN
  /\ worker[w].at # "idle"
  /\ job[j].lease = "live"
  /\ job[j].epoch = worker[w].epoch

-----------------------------------------------------------------------------
(* Row operations of ExecutionStore.                                       *)

OccupiesUpstream(row) == row.external \/ row.slot

\* Fault: a locally timed out job gives its occupancy back.
UnknownFreesSlot(row) ==
  [row EXCEPT !.status = "unknown", !.lease = "none", !.slot = FALSE,
              !.phase = IF row.external THEN "reconcile" ELSE @]

\* _unknown: the upstream may be running, so the slot is deliberately kept.
Unknown(row) ==
  LET recD == IF row.recD = "unset" THEN "open" ELSE row.recD
      parked == [row EXCEPT !.status = "unknown", !.lease = "none"]
  IN  IF row.external
      THEN [parked EXCEPT !.recD = recD,
                          !.phase = IF recD = "open" THEN "reconcile" ELSE "reconcile_exhausted"]
      ELSE parked

Failed(row) == [row EXCEPT !.status = "failed"]
FailedFree(row) == [row EXCEPT !.status = "failed", !.slot = FALSE]
Exhausted(row) == [row EXCEPT !.phase = "reconcile_exhausted"]

\* A local verdict without the upstream: unknown if it may be busy, else failed.
Abandoned(row) == IF OccupiesUpstream(row) THEN Unknown(row) ELSE Failed(row)

\* The deadline claim applies, after it fixed execution_deadline.
Deadline(row) ==
  IF row.phase \in Recovering THEN row.recD
  ELSE IF row.phase \in Publishing /\ row.downD # "unset" THEN row.downD
  ELSE row.execD

QueueTimeout(row) == row.execD = "unset" /\ row.queueD = "past"
Deadlined(row) == [row EXCEPT !.execD = IF @ = "unset" THEN "open" ELSE @]

CancelPending(row) == row.cancel /\ row.phase \notin Recovering \cup Publishing
Unrecoverable(row) == row.phase \in Recovering /\ (row.recD # "open" \/ ~row.external)

\* claim grants a lease only past all of its early returns.
Grants(row) ==
  /\ row.phase # "submitting"
  /\ ~CancelPending(row)
  /\ ~QueueTimeout(row)
  /\ ~Unrecoverable(row)
  /\ Deadline(Deadlined(row)) # "past"

\* The row a claim leaves at the early return it takes, in their order.
Refused(row) ==
  IF row.phase = "submitting" THEN Unknown(row)
  ELSE IF CancelPending(row) THEN Abandoned(row)
  ELSE IF QueueTimeout(row) THEN Failed(row)
  ELSE IF Unrecoverable(row) THEN Exhausted(Deadlined(row))
  ELSE IF row.phase \in Publishing THEN FailedFree(Deadlined(row))
  ELSE Abandoned(Deadlined(row))

Leased(row) ==
  [Deadlined(row) EXCEPT !.lease = "live", !.epoch = @ + 1,
     !.status = IF row.phase = "export" THEN "running" ELSE @]

Submitting(row) ==
  [row EXCEPT !.phase = "submitting", !.status = "running", !.slot = TRUE, !.attempts = @ + 1]

\* advance: claimed is the phase the owner claimed, next the phase the provider reported.
Advanced(row, claimed, next, handle, finished) ==
  LET moved == [row EXCEPT !.failures = 0, !.lease = "none",
                           !.external = @ \/ handle, !.slot = @ /\ ~finished]
  IN  IF claimed \in Recovering /\ next = "poll"
        THEN [moved EXCEPT !.phase = "reconcile", !.status = "unknown"]
      ELSE IF next = "download"
        THEN [moved EXCEPT !.phase = next, !.status = "running",
                           !.downD = IF @ = "unset" THEN "open" ELSE @]
      ELSE IF next = "failed" THEN [moved EXCEPT !.phase = next, !.status = "failed"]
      ELSE [moved EXCEPT !.phase = next]

Completed(row) ==
  [row EXCEPT !.phase = "completed", !.status = "completed", !.lease = "none", !.slot = FALSE]

Deferred(row) == [row EXCEPT !.lease = "none"]

\* Fault: the budget is compared after it was used.
AfterFailureOneMore(row, failure) ==
  IF failure = "retryable" /\ row.failures <= MaxRetries
  THEN [row EXCEPT !.lease = "none", !.failures = @ + 1, !.slot = row.external,
                   !.phase = IF @ = "submitting" THEN "submit" ELSE @]
  ELSE FailedFree([row EXCEPT !.lease = "none"])

\* Fault: a refused submission starts over without being counted.
AfterFailureUncounted(row, failure) ==
  IF failure = "retryable" /\ row.phase = "submitting"
  THEN [row EXCEPT !.lease = "none", !.phase = "submit", !.slot = FALSE]
  ELSE Unknown(row)

\* Fault: a handle that can no longer be polled ends the job.
AfterFailureGivesUp(row, failure) ==
  IF failure = "uncertain" THEN Unknown(row) ELSE FailedFree([row EXCEPT !.lease = "none"])

\* fail: an uncertain submission is never retried; a retried one starts over.
AfterFailure(row, failure) ==
  LET free == [row EXCEPT !.lease = "none"] IN
  IF failure = "uncertain" THEN Unknown(row)
  ELSE IF failure = "retryable" /\ row.failures < MaxRetries
    THEN IF row.phase = "submitting"
         THEN [free EXCEPT !.failures = @ + 1, !.phase = "submit", !.slot = FALSE]
         ELSE [free EXCEPT !.failures = @ + 1]
  ELSE IF row.external /\ row.phase \in {"poll", "cancel", "reconcile"} THEN Unknown(row)
  ELSE FailedFree(free)

\* Fault: the terminal states are not left alone.
CancelledAnyStatus(row, video) ==
  IF row.lease # "none" THEN [row EXCEPT !.cancel = TRUE]
  ELSE IF OccupiesUpstream(row) THEN Unknown(row)
  ELSE Failed(row)

\* Fault: a job with an upstream handle is reported cancelled at once.
CancelledAtOnce(row, video) ==
  IF row.status \in {"completed", "failed"} THEN row
  ELSE IF row.lease # "none" THEN [row EXCEPT !.cancel = TRUE]
  ELSE FailedFree(row)

\* request_cancel: a leased row is only marked, its owner or recovery acts on the mark.
Cancelled(row, video) ==
  LET asked == [row EXCEPT !.cancel = TRUE] IN
  IF row.status \in {"completed", "failed"} THEN row
  ELSE IF row.lease # "none" THEN asked
  ELSE IF row.external
    THEN IF video THEN [Unknown(asked) EXCEPT !.phase = "cancel"] ELSE Unknown(asked)
  ELSE IF row.slot \/ row.phase = "submitting" THEN Unknown(asked)
  ELSE Failed(asked)

\* Fault: a crashed submission starts over.
RecoveredResubmits(row, seen) ==
  [row EXCEPT !.epoch = @ + 1, !.lease = "none", !.slot = FALSE,
              !.phase = IF @ = "submitting" THEN "submit" ELSE @]

\* Fault: a recovered artifact leaves the occupancy behind.
RecoveredKeepsSlot(row, seen) ==
  LET fenced == [row EXCEPT !.epoch = @ + 1, !.lease = "none"] IN
  IF seen THEN [fenced EXCEPT !.phase = "persist", !.downD = "open"]
  ELSE IF row.phase = "submitting" THEN Unknown(fenced)
  ELSE fenced

\* recover_expired: seen says whether the spool had a readable receipt of this epoch.
Recovered(row, seen) ==
  LET fenced == [row EXCEPT !.epoch = @ + 1, !.lease = "none"] IN
  IF seen THEN [fenced EXCEPT !.phase = "persist", !.slot = FALSE,
                              !.downD = IF @ = "unset" THEN "open" ELSE @]
  ELSE IF row.phase = "submitting" THEN Unknown(fenced)
  ELSE fenced

\* Fault: only jobs that count as active are swept.
OverdueActive(row) ==
  /\ row.status \in {"queued", "running"}
  /\ QueueTimeout(row) \/ row.downD = "past" \/ row.execD = "past"

\* What expire_due selects among the rows without a lease.
Overdue(row) ==
  \/ /\ row.status \in {"queued", "running"}
     /\ \/ QueueTimeout(row)
        \/ row.phase \in Publishing /\ row.downD = "past"
        \/ row.phase \notin Publishing /\ row.execD = "past"
  \/ row.status = "unknown" /\ row.phase \in Recovering /\ row.recD = "past"

\* Fault: an uncertain job fails when its reconciliation window closes.
ExpiredGivesUp(row) ==
  IF row.status = "unknown" \/ row.phase \in Publishing THEN Failed(row) ELSE Abandoned(row)

\* What expire_due makes of an overdue row.
Expired(row) ==
  IF row.status = "unknown" THEN Exhausted(row)
  ELSE IF row.phase \in Publishing THEN Failed(row)
  ELSE Abandoned(row)

-----------------------------------------------------------------------------
(* Worker: claim a job and run one phase of it (execute_phase and          *)
(* execute_export).                                                        *)

Claimable(row) ==
  /\ row.lease = "none"
  /\ \/ row.status \in {"queued", "running"}
     \/ row.status = "unknown" /\ row.phase \in Recovering

Claim(w, j) ==
  LET row == job[j] IN
  /\ worker[w].at = "idle"
  /\ Claimable(row)
  /\ row.epoch < MaxEpoch
  /\ \/ /\ ~Grants(row)
        /\ Put(j, Refused(row))
        /\ UNCHANGED worker
     \/ /\ Grants(row)
        /\ Put(j, Leased(row))
        /\ worker' = [worker EXCEPT ![w] =
             [at |-> "claimed", job |-> j, epoch |-> row.epoch + 1,
              phase |-> row.phase, answer |-> "none"]]
  /\ UNCHANGED <<upstream, started, receipts, assets>>

\* Fault: the owner is not checked.
CommitUnfenced(w, row) ==
  /\ Put(worker[w].job, row)
  /\ worker' = [worker EXCEPT ![w] = Idle]

\* Every store call of a claim first checks _owned; a fenced owner changes nothing.
Commit(w, row) ==
  /\ job' = IF Owned(w) THEN [job EXCEPT ![worker[w].job] = row] ELSE job
  /\ worker' = [worker EXCEPT ![w] = Idle]

\* Redis down, breaker open, rate limited, or the artifact to persist not readable.
Defer(w) ==
  /\ worker[w].at = "claimed"
  /\ Kind[worker[w].job] # "export"
  /\ Commit(w, Deferred(job[worker[w].job]))
  /\ UNCHANGED <<upstream, started, receipts, assets>>

Occupied == Cardinality({j \in Job : job[j].slot})

\* Fault: a cancellation recorded after the claim is overlooked.
MaySubmitUncancelled(w) == Owned(w) /\ job[worker[w].job].phase = "submit"

\* The row begin_submit finds lets it submit.
MaySubmit(w) ==
  LET row == job[worker[w].job] IN Owned(w) /\ ~row.cancel /\ row.phase = "submit"

\* begin_submit: not owned or cancelled leaves the row (and its lease) alone,
\* a full model scope gives the lease back, a lost admission ends the job.
BeginSubmit(w) ==
  LET j == worker[w].job
      row == job[j]
  IN
  /\ worker[w].at = "claimed"
  /\ worker[w].phase = "submit"
  /\ \/ /\ ~MaySubmit(w)
        /\ worker' = [worker EXCEPT ![w] = Idle]
        /\ UNCHANGED job
     \/ /\ MaySubmit(w)
        /\ Put(j, [Failed(row) EXCEPT !.phase = "failed", !.lease = "none"])
        /\ worker' = [worker EXCEPT ![w] = Idle]
     \/ /\ MaySubmit(w)
        /\ row.slot \/ Occupied >= SlotLimit
        /\ Put(j, Deferred(row))
        /\ worker' = [worker EXCEPT ![w] = Idle]
     \/ /\ MaySubmit(w)
        /\ ~row.slot
        /\ Occupied < SlotLimit
        /\ Put(j, Submitting(row))
        /\ Goes(w, "calling")
  /\ UNCHANGED <<upstream, started, receipts, assets>>

\* The paid request reaches the provider, which begins a generation.  Nothing here
\* looks at the row: the process may have been fenced since begin_submit.
ProviderAccepts(w) ==
  LET j == worker[w].job IN
  /\ worker[w].at = "calling"
  /\ upstream' = [upstream EXCEPT ![j] = "running"]
  /\ started' = [started EXCEPT ![j] = @ + 1]
  /\ Goes(w, "accepted")
  /\ UNCHANGED <<job, receipts, assets>>

\* Not sent, or refused before a generation began (connect error, 429, other 4xx).
SubmitRefused(w) ==
  /\ worker[w].at = "calling"
  /\ \E failure \in {"retryable", "permanent"} : Answered(w, failure)
  /\ UNCHANGED <<job, upstream, started, receipts, assets>>

\* Timeout, 5xx or an unreadable reply: it cannot be told whether it was accepted.
SubmitUncertain(w) ==
  /\ worker[w].at \in {"calling", "accepted"}
  /\ Answered(w, "uncertain")
  /\ UNCHANGED <<job, upstream, started, receipts, assets>>

\* submit's reply: a handle for an asynchronous provider, the result for an image.
SubmitReplies(w) ==
  LET j == worker[w].job IN
  /\ worker[w].at = "accepted"
  /\ \/ /\ Kind[j] # "image"
        /\ Answered(w, "poll")
     \/ /\ Kind[j] = "image"
        /\ upstream[j] = "done"
        /\ \E result \in {"persist", "download"} : Answered(w, result)
     \/ /\ Kind[j] = "image"
        /\ upstream[j] = "failed"
        /\ Answered(w, "permanent")
  /\ UNCHANGED <<job, upstream, started, receipts, assets>>

\* The other operations are reads of the provider or local work and may be repeated.
\* cancel always reports "poll": an accepted cancellation does not prove a stop.
Reports(j, phase) ==
  CASE phase = "prepare" -> {"submit"}
    [] phase = "cancel" -> {"poll"}
    [] phase \in {"download", "export"} -> {"persist"}
    [] phase \in {"poll", "reconcile"} ->
         CASE upstream[j] = "done" -> {"download"}
           [] upstream[j] = "failed" -> {"failed"}
           [] OTHER -> {"poll"}
    [] OTHER -> {}

Operate(w) ==
  LET j == worker[w].job IN
  /\ worker[w].at = "claimed"
  /\ \E report \in Reports(j, worker[w].phase) : Answered(w, report)
  /\ UNCHANGED <<job, upstream, started, receipts, assets>>

\* An operation (or the preparation of a submit, before begin_submit) fails.
OperationFails(w) ==
  /\ worker[w].at = "claimed"
  /\ worker[w].phase # "persist"
  /\ \/ Answered(w, "permanent")
     \/ worker[w].phase \notin {"submit", "export"} /\ Answered(w, "retryable")
  /\ UNCHANGED <<job, upstream, started, receipts, assets>>

\* advance with the provider's report; poll, download and failed come from staged.py.
Advance(w) ==
  LET c == worker[w] IN
  /\ c.at = "answered"
  /\ c.answer \in {"submit", "poll", "download", "failed"}
  /\ Commit(w, Advanced(job[c.job], c.phase, c.answer, c.answer = "poll",
                        c.answer \in {"download", "failed"}))
  /\ UNCHANGED <<upstream, started, receipts, assets>>

\* The generated bytes are not an image: a terminal answer, never another submission.
InvalidArtifact(w) ==
  LET c == worker[w] IN
  /\ c.at = "answered"
  /\ c.answer = "persist"
  /\ Kind[c.job] \in {"image", "comfy"}
  /\ Commit(w, Advanced(job[c.job], c.phase, "failed", FALSE, TRUE))
  /\ UNCHANGED <<upstream, started, receipts, assets>>

\* The artifact and then its receipt are written under the claim's own epoch,
\* whether or not the lease is still held.
SaveArtifact(w) ==
  LET c == worker[w] IN
  /\ c.at = "answered"
  /\ c.answer = "persist"
  /\ receipts' = receipts \cup {<<c.job, c.epoch>>}
  /\ Goes(w, "saved")
  /\ UNCHANGED <<job, upstream, started, assets>>

\* The spool cannot be written.  After a submit this is as uncertain as a lost reply.
SaveFails(w) ==
  LET c == worker[w] IN
  /\ c.at = "answered"
  /\ c.answer = "persist"
  /\ Answered(w, IF c.phase = "submit" THEN "uncertain" ELSE "permanent")
  /\ UNCHANGED <<job, upstream, started, receipts, assets>>

\* complete: the asset row, its reference and the terminal state in one transaction,
\* after the save or, in the persist phase, after the recorded artifact verified.
Complete(w) ==
  LET c == worker[w] IN
  /\ c.at = "saved" \/ (c.at = "claimed" /\ c.phase = "persist")
  /\ Commit(w, Completed(job[c.job]))
  /\ assets' = [assets EXCEPT ![c.job] = IF Owned(w) THEN @ + 1 ELSE @]
  /\ UNCHANGED <<upstream, started, receipts>>

Fail(w) ==
  LET c == worker[w] IN
  /\ c.at = "answered"
  /\ c.answer \in Failures
  /\ Commit(w, AfterFailure(job[c.job], c.answer))
  /\ UNCHANGED <<upstream, started, receipts, assets>>

\* heartbeat answers False: the claim is fenced, or the user cancelled and the
\* phase may be interrupted.  The call is cancelled and recovery owns the row.
HeartbeatLost(w) ==
  LET c == worker[w] IN
  /\ \/ c.at \in {"calling", "accepted"}
     \/ c.at = "claimed" /\ c.phase \notin {"submit", "persist"}
  /\ \/ ~Owned(w)
     \/ job[c.job].cancel /\ job[c.job].phase \notin Recovering \cup Publishing
  /\ worker' = [worker EXCEPT ![w] = Idle]
  /\ UNCHANGED <<job, upstream, started, receipts, assets>>

\* The process dies, or an exception outside the handled set reaches Celery.
Crash(w) ==
  /\ worker[w].at # "idle"
  /\ worker' = [worker EXCEPT ![w] = Idle]
  /\ UNCHANGED <<job, upstream, started, receipts, assets>>

-----------------------------------------------------------------------------
(* The provider, the clock, the scheduler, the user and the administrator. *)

UpstreamEnds(j) ==
  /\ upstream[j] = "running"
  /\ \E end \in {"done", "failed"} : upstream' = [upstream EXCEPT ![j] = end]
  /\ UNCHANGED <<job, worker, started, receipts, assets>>

LeaseExpires(j) ==
  /\ job[j].lease = "live"
  /\ Put(j, [job[j] EXCEPT !.lease = "expired"])
  /\ UNCHANGED <<worker, upstream, started, receipts, assets>>

DeadlinePasses(j) ==
  /\ job[j].status \in Live
  /\ \/ job[j].queueD = "open" /\ job[j].execD = "unset" /\ Put(j, [job[j] EXCEPT !.queueD = "past"])
     \/ job[j].execD = "open" /\ Put(j, [job[j] EXCEPT !.execD = "past"])
     \/ job[j].downD = "open" /\ Put(j, [job[j] EXCEPT !.downD = "past"])
     \/ job[j].recD = "open" /\ Put(j, [job[j] EXCEPT !.recD = "past"])
  /\ UNCHANGED <<worker, upstream, started, receipts, assets>>

\* Fault: rows under reconciliation are not scanned.
RecoverExpiredActive(j) ==
  /\ job[j].status \in {"queued", "running"}
  /\ job[j].lease = "expired"
  /\ Put(j, Recovered(job[j], FALSE))
  /\ UNCHANGED <<worker, upstream, started, receipts, assets>>

\* A receipt that cannot be read or verified counts as none.
RecoverExpired(j) ==
  /\ job[j].status \in Live
  /\ job[j].lease = "expired"
  /\ \E seen \in BOOLEAN :
       /\ seen => <<j, job[j].epoch>> \in receipts
       /\ Put(j, Recovered(job[j], seen))
  /\ UNCHANGED <<worker, upstream, started, receipts, assets>>

ExpireDue(j) ==
  /\ job[j].lease = "none"
  /\ Overdue(job[j])
  /\ Put(j, Expired(job[j]))
  /\ UNCHANGED <<worker, upstream, started, receipts, assets>>

\* cancel_request marks the targets in one transaction and cancels them in later ones.
FlagCancel(j) ==
  /\ ~job[j].cancel
  /\ Put(j, [job[j] EXCEPT !.cancel = TRUE])
  /\ UNCHANGED <<worker, upstream, started, receipts, assets>>

RequestCancel(j) ==
  /\ Put(j, Cancelled(job[j], Kind[j] = "video"))
  /\ UNCHANGED <<worker, upstream, started, receipts, assets>>

\* What the administrator's evidence has to establish: the provider's task is over
\* and no process is still about to send the request.
EvidenceOfStop(j) ==
  /\ upstream[j] # "running"
  /\ \A w \in Worker : worker[w].job = j => worker[w].at # "calling"

ConfirmStopped(j) ==
  /\ job[j].status = "unknown"
  /\ job[j].lease = "none"
  /\ EvidenceOfStop(j)
  /\ job[j].epoch < MaxEpoch
  /\ Put(j, [FailedFree(job[j]) EXCEPT !.phase = "audited_stopped", !.epoch = @ + 1])
  /\ UNCHANGED <<worker, upstream, started, receipts, assets>>

ResumeReconciliation(j) ==
  /\ job[j].status = "unknown"
  /\ job[j].lease = "none"
  /\ job[j].external
  /\ job[j].epoch < MaxEpoch
  /\ Put(j, [job[j] EXCEPT !.phase = "reconcile", !.recD = "open", !.epoch = @ + 1])
  /\ UNCHANGED <<worker, upstream, started, receipts, assets>>

-----------------------------------------------------------------------------
Init ==
  /\ job = [j \in Job |-> Accepted(j)]
  /\ worker = [w \in Worker |-> Idle]
  /\ upstream = [j \in Job |-> "none"]
  /\ started = [j \in Job |-> 0]
  /\ receipts = {}
  /\ assets = [j \in Job |-> 0]

WorkerStep(w) ==
  \/ \E j \in Job : Claim(w, j)
  \/ Defer(w) \/ BeginSubmit(w)
  \/ ProviderAccepts(w) \/ SubmitRefused(w) \/ SubmitUncertain(w) \/ SubmitReplies(w)
  \/ Operate(w) \/ OperationFails(w)
  \/ Advance(w) \/ InvalidArtifact(w) \/ SaveArtifact(w) \/ SaveFails(w)
  \/ Complete(w) \/ Fail(w)
  \/ HeartbeatLost(w) \/ Crash(w)

JobStep(j) ==
  \/ UpstreamEnds(j) \/ LeaseExpires(j) \/ DeadlinePasses(j)
  \/ RecoverExpired(j) \/ ExpireDue(j)
  \/ FlagCancel(j) \/ RequestCancel(j)
  \/ ConfirmStopped(j) \/ ResumeReconciliation(j)

Next == (\E w \in Worker : WorkerStep(w)) \/ (\E j \in Job : JobStep(j))

Spec == Init /\ [][Next]_vars
-----------------------------------------------------------------------------
(* Fairness: calls have budgets, so a process that is alive finishes its    *)
(* claim; an abandoned lease and every deadline run out; the scheduler      *)
(* keeps scanning.  Nothing makes workers claim: expire_due must be enough. *)

Work(w) ==
  \/ Defer(w) \/ BeginSubmit(w)
  \/ ProviderAccepts(w) \/ SubmitRefused(w) \/ SubmitUncertain(w) \/ SubmitReplies(w)
  \/ Operate(w) \/ OperationFails(w)
  \/ Advance(w) \/ InvalidArtifact(w) \/ SaveArtifact(w) \/ SaveFails(w)
  \/ Complete(w) \/ Fail(w) \/ HeartbeatLost(w)

AbandonedLeaseExpires(j) ==
  LeaseExpires(j) /\ \A w \in Worker : worker[w].job = j => ~Owned(w)

Fairness ==
  /\ \A w \in Worker : WF_vars(Work(w))
  /\ \A j \in Job : /\ WF_vars(AbandonedLeaseExpires(j))
                    /\ WF_vars(DeadlinePasses(j))
                    /\ WF_vars(RecoverExpired(j))
                    /\ WF_vars(ExpireDue(j))

FairSpec == Spec /\ Fairness

-----------------------------------------------------------------------------
(* Properties.                                                             *)

\* Every variable keeps its type, in particular failures never pass max_retries.
TypeOK ==
  /\ job \in [Job -> Row]
  /\ worker \in [Worker -> WorkerState]
  /\ upstream \in [Job -> {"none", "running", "done", "failed"}]
  /\ started \in [Job -> Nat]
  /\ receipts \subseteq Job \X Nat
  /\ assets \in [Job -> Nat]

\* A user is charged for at most one generation of a job, through every crash, lost
\* reply, retry, fenced owner and cancellation: a submission whose outcome is not a
\* definite refusal is never repeated (fail, claim, recover_expired).
AtMostOneGeneration == \A j \in Job : started[j] <= 1

\* The provider never runs more of our generations than the model scope allows, even
\* those of jobs whose local deadline, lease or owner is gone (_unknown keeps the slot).
UpstreamWithinCapacity ==
  Cardinality({j \in Job : upstream[j] = "running"}) <= SlotLimit

\* A job is reported failed only when nothing runs upstream for it: local timeouts and
\* cancellations of a possibly accepted submission end in unknown instead.
FailedMeansStopped ==
  \A j \in Job : job[j].status = "failed" => upstream[j] # "running"

\* Of all processes that still work on a claim of a job at most one passes _owned:
\* the others, paused or slow, were fenced by a newer epoch (claim, recover_expired).
SingleOwner ==
  \A v, w \in Worker :
    Owned(v) /\ Owned(w) /\ worker[v].job = worker[w].job => v = w

\* Exactly the completed jobs have an asset, and they have one (complete).
OneAssetPerCompletedJob ==
  \A j \in Job : assets[j] = IF job[j].status = "completed" THEN 1 ELSE 0

\* Occupancy does not leak: from the moment the result is known, and in every final
\* state, the slot is free, although expire_due does not clear it (advance,
\* recover_expired, complete, fail).
SlotFreeOnceFinished ==
  \A j \in Job :
    job[j].slot => /\ job[j].status \in {"running", "unknown"}
                   /\ job[j].phase \in {"submitting", "poll", "reconcile_exhausted"} \cup Recovering

\* begin_submit runs at most once more than max_retries, whatever is claimed, deferred
\* or recovered in between.
AttemptsBounded == \A j \in Job : job[j].attempts <= MaxRetries + 1

\* completed and failed are final: no late owner, scan, cancellation or audit changes
\* such a row (only the cancel mark of cancel_request may still be written).
TerminalIsFinal ==
  [][\A j \in Job : job[j].status \in {"completed", "failed"}
       => job'[j] = [job[j] EXCEPT !.cancel = job'[j].cancel]]_vars

\* After the user's cancellation is recorded no new submission begins.
NoSubmissionAfterCancel ==
  [][\A j \in Job : job[j].cancel /\ job'[j].phase = "submitting"
       => job[j].phase = "submitting"]_vars

\* Only the provider's own answer or an audit turns an uncertain job into a final one:
\* no timer, cancellation or lost owner does.
UnknownNeedsEvidence ==
  [][\A j \in Job : job[j].status = "unknown" /\ job'[j].status \in {"completed", "failed"}
       => \/ upstream[j] = "failed"
          \/ job'[j].phase = "audited_stopped"]_vars

\* The contract: jobs cost one generation, capacity is respected, verdicts are final.
Verdict(row) ==
  CASE row.status = "completed" -> "delivered"
    [] row.status = "failed" -> "failed"
    [] OTHER -> "pending"

Contract == INSTANCE JobContract WITH
  Local <- {j \in Job : Kind[j] = "export"},
  Capacity <- SlotLimit,
  verdict <- [j \in Job |-> Verdict(job[j])],
  generation <- upstream

ImplementsContract == Contract!Spec

\* A lease never outlives its owner for good: crash recovery needs no worker.
EveryLeaseEnds == \A j \in Job : job[j].lease # "none" ~> job[j].lease = "none"

Settled(row) ==
  \/ row.status \in {"completed", "failed"}
  \/ row.status = "unknown" /\ row.phase \in {"submitting", "reconcile_exhausted"}

\* Every accepted job reaches a final state or is parked for an audit, even when no
\* worker ever claims again.
EveryJobSettles == \A j \in Job : []<>Settled(job[j])
=============================================================================
