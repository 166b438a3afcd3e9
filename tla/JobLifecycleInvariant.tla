------------------------ MODULE JobLifecycleInvariant ------------------------
(***************************************************************************)
(* The inductive invariant behind the safety properties of JobLifecycle.   *)
(* It is stated on the values of one row r, its kind k, the provider's     *)
(* task u, the number n of generations begun, and one worker's claim c, so *)
(* that the effect of each row operation is a lemma about values.          *)
(***************************************************************************)
EXTENDS JobLifecycle

Delivered(k, u) == u = "done" \/ k = "export"

RowInv(r, k, u, n) ==
  \* a leased row is not final; an occupied slot belongs to a submission in progress
  /\ r.lease # "none" => r.status \in Live
  /\ r.slot => /\ r.status \in {"running", "unknown"}
               /\ r.phase \in {"submitting", "poll", "reconcile_exhausted"} \cup Recovering
  \* a final phase is left alone, an uncertain one is unknown or final
  /\ r.phase \in {"completed", "failed", "audited_stopped"} => r.status \notin Live
  /\ r.phase \in Recovering \cup {"reconcile_exhausted"} => r.status \notin {"queued", "running"}
  \* only a granted claim leads to a slot, and it fixed the execution deadline
  /\ r.lease # "none" \/ r.slot => r.execD # "unset"
  \* the provider's work is always covered by the slot
  /\ u = "running" => r.slot
  /\ n \in {0, 1} /\ (n = 0 <=> u = "none")
  \* before the submission nothing was begun, after it the phase tells what is known
  /\ r.phase \in {"prepare", "submit", "export"} => n = 0 /\ ~r.external
  /\ r.phase = "submitting" /\ r.status \in Live => r.slot /\ ~r.external
  /\ r.phase \in {"poll"} \cup Recovering => r.external
  /\ r.phase \in Publishing \/ r.status = "completed" => Delivered(k, u)
  /\ r.phase = "export" => k = "export"
  /\ k = "export" => /\ n = 0 /\ ~r.slot /\ ~r.external
                     /\ r.phase \notin {"prepare", "submit", "submitting"}
  \* every begun submission but the last was refused and counted as a failure
  /\ r.phase \in {"prepare", "export"} => r.attempts = 0
  /\ r.phase = "submit" => r.attempts <= r.failures
  /\ r.phase = "submitting" => r.attempts <= r.failures + 1
  /\ r.attempts <= MaxRetries + 1

\* The claim is the newest one and has not been given back.
Current(c, r) == r.lease # "none" /\ c.epoch = r.epoch

\* The phase a row has while its newest claim c is in progress.
RowPhases(c) ==
  IF c.phase # "submit" THEN {c.phase}
  ELSE IF c.at = "claimed" THEN {"submit"}
  ELSE IF c.at = "answered" /\ c.answer = "permanent" THEN {"submit", "submitting"}
  ELSE {"submitting"}

ClaimInv(c, r, k, u, n) ==
  /\ c.epoch <= r.epoch
  /\ r.lease = "none" => c.epoch < r.epoch
  /\ c.phase \in {"prepare", "submit", "poll", "export"} \cup Recovering \cup Publishing
  /\ Current(c, r) => r.phase \in RowPhases(c)
  \* a request that may still be sent is the only one and finds its slot occupied
  /\ c.at = "calling" => /\ c.phase = "submit" /\ r.phase = "submitting"
                         /\ r.status \in Live /\ n = 0
                         /\ r.lease # "none" => c.epoch = r.epoch
  /\ c.at = "accepted" => c.phase = "submit" /\ n = 1
  \* what an answer says of the provider stays true until it is committed
  /\ c.at = "saved" \/ c.phase \in Publishing \cup {"export"} => Delivered(k, u)
  /\ c.at = "answered" =>
       /\ c.answer # "none"
       /\ c.answer = "submit" => c.phase = "prepare"
       /\ c.answer \in {"poll", "download", "failed"} => c.phase \in {"submit", "poll"} \cup Recovering
       /\ c.answer = "download" => u = "done"
       /\ c.answer = "failed" => u = "failed"
       /\ c.answer = "persist" => Delivered(k, u)
       /\ c.answer = "uncertain" => c.phase = "submit"
       /\ c.answer = "retryable" /\ c.phase = "submit" /\ Current(c, r) => n = 0
       /\ c.answer = "permanent" /\ c.phase = "submit" /\ Current(c, r) => u # "running"

RowsInv == \A j \in Job : RowInv(job[j], Kind[j], upstream[j], started[j])

ClaimsInv ==
  \A w \in Worker :
    worker[w].at # "idle" =>
      LET j == worker[w].job IN
      j \in Job /\ ClaimInv(worker[w], job[j], Kind[j], upstream[j], started[j])

\* No two claims of a job have the same epoch.
EpochsDiffer ==
  \A v, w \in Worker :
    v # w /\ worker[v].at # "idle" /\ worker[w].at # "idle" /\ worker[v].job = worker[w].job
      => worker[v].epoch # worker[w].epoch

\* At most one process is about to send a job's request.
OneRequest ==
  \A v, w \in Worker :
    v # w /\ worker[v].at = "calling" /\ worker[w].at = "calling" => worker[v].job # worker[w].job

ReceiptsInv == \A x \in receipts : Delivered(Kind[x[1]], upstream[x[1]])

SlotsBounded == Occupied <= SlotLimit

IInv ==
  /\ TypeOK
  /\ RowsInv
  /\ ClaimsInv
  /\ EpochsDiffer
  /\ OneRequest
  /\ ReceiptsInv
  /\ SlotsBounded
  /\ OneAssetPerCompletedJob
=============================================================================
