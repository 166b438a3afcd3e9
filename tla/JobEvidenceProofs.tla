-------------------------- MODULE JobEvidenceProofs --------------------------
(***************************************************************************)
(* Proofs about single steps of JobLifecycle, for every value of the       *)
(* constants: after a cancellation nothing is submitted, and an uncertain  *)
(* job gets a verdict only from the provider or an audit.  Both need to    *)
(* know more of uncertain rows than IInv says.                             *)
(***************************************************************************)
EXTENDS JobLifecycleProofs

\* An uncertain row: its submission was interrupted, or its handle is being
\* reconciled.  It is leased only for the latter.
UncertainRow(r) ==
  /\ r.external => r.execD # "unset"
  /\ r.status = "unknown" =>
       \/ r.phase = "submitting" /\ r.lease = "none"
       \/ r.phase \in Recovering /\ r.external
       \/ r.phase = "reconcile_exhausted" /\ r.external /\ r.lease = "none"

\* Reconciliation never has an artifact to publish.
ArtifactClaim(c) ==
  c.at = "saved" \/ (c.at = "answered" /\ c.answer = "persist") => c.phase \notin Recovering

\* No receipt is of the claim that reconciles row r.
ReceiptOf(x, r) ==
  /\ x[2] <= r.epoch
  /\ x[2] = r.epoch /\ r.lease # "none" => r.phase \notin Recovering

EvidenceInv ==
  /\ \A j \in Job : UncertainRow(job[j])
  /\ \A w \in Worker : worker[w].at # "idle" => ArtifactClaim(worker[w])
  /\ \A x \in receipts : ReceiptOf(x, job[x[1]])

\* What the row r of a job whose provider task is in state u may become.
Honest(r, s, u) ==
  /\ UncertainRow(s)
  /\ s.phase = "submitting" /\ r.cancel => r.phase = "submitting"
  /\ r.status = "unknown" /\ s.status \in {"completed", "failed"} =>
       u = "failed" \/ s.phase = "audited_stopped"
  /\ \/ s.epoch > r.epoch
     \/ /\ s.epoch = r.epoch
        /\ s.lease # "none" => r.lease # "none" /\ (s.phase \in Recovering => r.phase \in Recovering)

-----------------------------------------------------------------------------
(* The row operations.                                                     *)

LEMMA SameRow ==
  ASSUME NEW r, NEW u, UncertainRow(r)
  PROVE  Honest(r, r, u)
BY DEF Honest

LEMMA UnknownFields ==
  ASSUME NEW r \in Row
  PROVE  /\ Unknown(r).status = "unknown" /\ Unknown(r).lease = "none"
         /\ Unknown(r).epoch = r.epoch /\ Unknown(r).external = r.external
         /\ Unknown(r).execD = r.execD /\ Unknown(r).cancel = r.cancel
         /\ r.external => Unknown(r).phase \in {"reconcile", "reconcile_exhausted"}
         /\ ~r.external => Unknown(r).phase = r.phase
BY DEF Unknown, Row

\* A row whose outcome cannot be told is honest when it has a handle or was
\* interrupted in its submission.
LEMMA UnknownHonest ==
  ASSUME NEW r \in Row, NEW u, UncertainRow(r), r.external \/ r.phase = "submitting"
  PROVE  Honest(r, Unknown(r), u)
<1>1. UncertainRow(Unknown(r))
  BY UnknownFields DEF UncertainRow, Recovering
<1>2. Unknown(r).phase = "submitting" => r.phase = "submitting"
  BY UnknownFields
<1> QED BY <1>1, <1>2, UnknownFields DEF Honest

\* A live row that is not uncertain may fail.
LEMMA FailedHonest ==
  ASSUME NEW r \in Row, NEW u, UncertainRow(r), r.status # "unknown" \/ u = "failed"
  PROVE  Honest(r, Failed(r), u) /\ Honest(r, FailedFree(r), u)
<1>1. /\ UncertainRow(Failed(r)) /\ UncertainRow(FailedFree(r))
      /\ Failed(r).epoch = r.epoch /\ FailedFree(r).epoch = r.epoch
      /\ Failed(r).lease = r.lease /\ FailedFree(r).lease = r.lease
      /\ Failed(r).phase = r.phase /\ FailedFree(r).phase = r.phase
  BY DEF UncertainRow, Failed, FailedFree, Row
<1> QED BY <1>1 DEF Honest

LEMMA AbandonedHonest ==
  ASSUME NEW r \in Row, NEW k, NEW u, NEW n, RowInv(r, k, u, n), UncertainRow(r),
         r.status \in {"queued", "running"} \/ OccupiesUpstream(r), r.phase # "reconcile_exhausted"
  PROVE  Honest(r, Abandoned(r), u)
<1>1. CASE OccupiesUpstream(r)
  <2>1. r.external \/ r.phase = "submitting"
    BY <1>1 DEF OccupiesUpstream, RowInv
  <2> QED BY <1>1, <2>1, UnknownHonest DEF Abandoned
<1>2. CASE ~OccupiesUpstream(r)
  BY <1>2, FailedHonest DEF Abandoned
<1> QED BY <1>1, <1>2

LEMMA DeadlinedHonest ==
  ASSUME NEW r \in Row, NEW k, NEW u, NEW n, RowInv(r, k, u, n), UncertainRow(r)
  PROVE  /\ UncertainRow(Deadlined(r)) /\ Deadlined(r) \in Row /\ Deadlined(r).cancel = r.cancel
         /\ \A s : Honest(Deadlined(r), s, u) => Honest(r, s, u)
<1>1. Deadlined(r).cancel = r.cancel /\ Deadlined(r) \in Row
  BY VerdictTypes DEF Deadlined, Row
<1> QED BY <1>1, DeadlinedRow DEF UncertainRow, Honest

LEMMA RefusedHonest ==
  ASSUME NEW r \in Row, NEW k, NEW u, NEW n, RowInv(r, k, u, n), UncertainRow(r),
         Claimable(r), ~Grants(r)
  PROVE  Honest(r, Refused(r), u)
<1>0. /\ r.lease = "none" /\ r.phase # "reconcile_exhausted"
      /\ r.status = "unknown" => r.phase \in Recovering /\ r.external /\ r.execD # "unset"
      /\ r.phase \in Recovering => r.status = "unknown" /\ r.external
      /\ r.status \in {"queued", "running", "unknown"}
  BY DEF Claimable, RowInv, UncertainRow, Recovering
<1>1. CASE r.phase = "submitting"
  BY <1>1, UnknownHonest DEF Refused
<1>2. CASE r.phase # "submitting" /\ CancelPending(r)
  <2>1. r.status # "unknown"
    BY <1>0, <1>2 DEF CancelPending
  <2>2. Refused(r) = Abandoned(r)
    BY <1>2 DEF Refused
  <2> QED BY <1>0, <2>1, <2>2, AbandonedHonest
<1>3. CASE r.phase # "submitting" /\ ~CancelPending(r) /\ QueueTimeout(r)
  <2>1. r.status # "unknown"
    BY <1>0, <1>3 DEF QueueTimeout
  <2>2. Refused(r) = Failed(r)
    BY <1>3 DEF Refused
  <2> QED BY <2>1, <2>2, FailedHonest
<1>4. CASE r.phase # "submitting" /\ ~CancelPending(r) /\ ~QueueTimeout(r) /\ Unrecoverable(r)
  <2> DEFINE d == Deadlined(r)
  <2>1. d \in Row /\ d.status = "unknown" /\ d.external /\ d.lease = "none" /\ d.execD # "unset"
    BY <1>0, <1>4, DeadlinedRow, DeadlinedHonest DEF Unrecoverable
  <2> HIDE DEF d
  <2>2. /\ Exhausted(d).status = d.status /\ Exhausted(d).phase = "reconcile_exhausted"
        /\ Exhausted(d).lease = d.lease /\ Exhausted(d).external = d.external
        /\ Exhausted(d).execD = d.execD /\ Exhausted(d).epoch = d.epoch
    BY <2>1 DEF Exhausted, Row
  <2>3. Honest(d, Exhausted(d), u)
    BY <2>1, <2>2 DEF Honest, UncertainRow
  <2>4. Refused(r) = Exhausted(d)
    BY <1>4 DEF Refused, d
  <2> QED BY <2>3, <2>4, DeadlinedHonest DEF d
<1>5. CASE r.phase # "submitting" /\ ~CancelPending(r) /\ ~QueueTimeout(r) /\ ~Unrecoverable(r)
  <2> DEFINE d == Deadlined(r)
  <2>1. d \in Row /\ RowInv(d, k, u, n) /\ UncertainRow(d) /\ d.status = r.status /\ d.phase = r.phase
        /\ d.external = r.external /\ d.slot = r.slot
    BY DeadlinedRow, DeadlinedHonest
  <2>2. r.status # "unknown"
    <3>1. CASE r.phase \in Recovering
      <4>1. Deadline(d) = d.recD /\ d.recD = r.recD
        BY <3>1, <2>1 DEF Deadline, Deadlined, Row
      <4>2. r.recD = "open"
        BY <1>5, <3>1 DEF Unrecoverable
      <4> QED BY <1>5, <4>1, <4>2 DEF Grants
    <3> QED BY <1>0, <3>1
  <2> HIDE DEF d
  <2>3. Honest(d, FailedFree(d), u) /\ Honest(d, Abandoned(d), u)
    BY <1>0, <2>1, <2>2, FailedHonest, AbandonedHonest
  <2>4. Refused(r) \in {FailedFree(d), Abandoned(d)}
    BY <1>5 DEF Refused, d
  <2> QED BY <2>3, <2>4, DeadlinedHonest DEF d
<1> QED BY <1>1, <1>2, <1>3, <1>4, <1>5

LEMMA LeasedHonest ==
  ASSUME NEW r \in Row, NEW k, NEW u, NEW n, RowInv(r, k, u, n), UncertainRow(r),
         Claimable(r), Grants(r)
  PROVE  Honest(r, Leased(r), u) /\ Leased(r).epoch = r.epoch + 1
<1>1. Deadlined(r) \in Row /\ Deadlined(r).status = r.status /\ Deadlined(r).phase = r.phase
      /\ Deadlined(r).execD # "unset" /\ Deadlined(r).epoch = r.epoch
      /\ Deadlined(r).external = r.external
  BY DeadlinedRow, DeadlinedHonest
<1>2. /\ Leased(r).phase = r.phase /\ Leased(r).execD # "unset" /\ Leased(r).epoch = r.epoch + 1
      /\ Leased(r).external = r.external
      /\ Leased(r).status = IF r.phase = "export" THEN "running" ELSE r.status
  BY <1>1 DEF Leased, Row
<1>3. r.status = "unknown" => r.phase \in Recovering /\ r.external
  BY DEF Claimable, UncertainRow, Recovering
<1>4. r.status \in {"queued", "running", "unknown"} /\ r.epoch + 1 > r.epoch
  BY DEF Claimable, Row
<1>5. UncertainRow(Leased(r))
  BY <1>2, <1>3 DEF UncertainRow
<1>6. r.phase # "submitting"
  BY DEF Grants
<1> QED BY <1>2, <1>4, <1>5, <1>6 DEF Honest

LEMMA ExpiredHonest ==
  ASSUME NEW r \in Row, NEW k, NEW u, NEW n, RowInv(r, k, u, n), UncertainRow(r),
         r.lease = "none", Overdue(r)
  PROVE  Honest(r, Expired(r), u)
<1>1. CASE r.status = "unknown"
  <2>1. r.phase \in Recovering /\ r.external /\ r.execD # "unset"
    BY <1>1 DEF Overdue, UncertainRow, Recovering
  <2>2. /\ Exhausted(r).status = "unknown" /\ Exhausted(r).phase = "reconcile_exhausted"
        /\ Exhausted(r).lease = "none" /\ Exhausted(r).external
        /\ Exhausted(r).execD = r.execD /\ Exhausted(r).epoch = r.epoch
    BY <1>1, <2>1 DEF Exhausted, Row
  <2> QED BY <1>1, <2>1, <2>2 DEF Honest, UncertainRow, Expired
<1>2. CASE r.status # "unknown"
  <2>1. r.status \in {"queued", "running"} /\ r.phase # "reconcile_exhausted"
    BY <1>2 DEF Overdue, RowInv
  <2>2. Expired(r) \in {Failed(r), Abandoned(r)}
    BY <1>2 DEF Expired
  <2> QED BY <1>2, <2>1, <2>2, FailedHonest, AbandonedHonest
<1> QED BY <1>1, <1>2

\* A mark, a lease that runs out or a deadline that passes.
LEMMA TouchedHonest ==
  ASSUME NEW r \in Row, NEW s \in Row, NEW u, UncertainRow(r),
         s.status = r.status, s.phase = r.phase, s.external = r.external, s.epoch = r.epoch,
         s.lease = "none" <=> r.lease = "none", r.execD # "unset" => s.execD # "unset"
  PROVE  Honest(r, s, u)
BY DEF Honest, UncertainRow

LEMMA CancelledHonest ==
  ASSUME NEW r \in Row, NEW k, NEW u, NEW n, RowInv(r, k, u, n), UncertainRow(r), NEW video \in BOOLEAN
  PROVE  Honest(r, Cancelled(r, video), u)
<1> DEFINE a == [r EXCEPT !.cancel = TRUE]
<1>1. /\ a \in Row /\ a.status = r.status /\ a.phase = r.phase /\ a.lease = r.lease
      /\ a.epoch = r.epoch /\ a.external = r.external /\ a.slot = r.slot /\ a.execD = r.execD
  BY DEF Row
<1>2. UncertainRow(a) /\ Honest(r, a, u)
  <2>1. UncertainRow(a)
    BY <1>1 DEF UncertainRow
  <2> QED BY <1>1, <2>1 DEF Honest
<1>3. Cancelled(r, video) =
        IF r.status \in {"completed", "failed"} THEN r
        ELSE IF r.lease # "none" THEN a
        ELSE IF r.external THEN IF video THEN [Unknown(a) EXCEPT !.phase = "cancel"] ELSE Unknown(a)
        ELSE IF r.slot \/ r.phase = "submitting" THEN Unknown(a)
        ELSE Failed(a)
  BY DEF Cancelled
<1> HIDE DEF a
<1>4. Unknown(a) \in Row
  BY <1>1, UnknownType
<1>5. CASE r.status \in {"completed", "failed"}
  BY <1>3, <1>5, SameRow
<1>6. CASE r.status \notin {"completed", "failed"} /\ r.lease # "none"
  BY <1>2, <1>3, <1>6
<1>7. CASE r.status \notin {"completed", "failed"} /\ r.lease = "none" /\ r.external
  <2>1. Honest(a, Unknown(a), u)
    BY <1>1, <1>2, <1>7, UnknownHonest
  <2>2. Honest(r, Unknown(a), u)
    BY <1>1, <2>1, <1>7, UnknownFields DEF Honest
  <2>3. Honest(r, [Unknown(a) EXCEPT !.phase = "cancel"], u)
    <3> DEFINE c == [Unknown(a) EXCEPT !.phase = "cancel"]
    <3>1. /\ c.phase = "cancel" /\ c.status = "unknown" /\ c.lease = "none" /\ c.external
          /\ c.epoch = r.epoch /\ c.execD = r.execD
      BY <1>1, <1>4, <1>7, UnknownFields DEF Row
    <3> HIDE DEF c
    <3>2. r.execD # "unset"
      BY <1>7 DEF UncertainRow
    <3>3. Honest(r, c, u)
      BY <3>1, <3>2 DEF Honest, UncertainRow, Recovering
    <3> QED BY <3>3 DEF c
  <2> QED BY <1>3, <1>7, <2>2, <2>3
<1>8. CASE r.status \notin {"completed", "failed"} /\ r.lease = "none" /\ ~r.external
  <2>1. CASE r.slot \/ r.phase = "submitting"
    <3>1. r.phase = "submitting"
      <4>1. CASE r.status = "unknown"
        BY <1>8, <4>1 DEF UncertainRow
      <4>2. CASE r.status # "unknown"
        BY <1>8, <2>1, <4>2 DEF RowInv, Row, Live
      <4> QED BY <4>1, <4>2
    <3>2. Honest(a, Unknown(a), u)
      BY <1>1, <1>2, <3>1, UnknownHonest
    <3>3. Honest(r, Unknown(a), u)
      BY <1>1, <3>1, <3>2, UnknownFields DEF Honest
    <3> QED BY <1>3, <1>8, <2>1, <3>3
  <2>2. CASE ~(r.slot \/ r.phase = "submitting")
    <3>1. r.status # "unknown"
      BY <1>8, <2>2 DEF UncertainRow
    <3>2. Honest(a, Failed(a), u)
      BY <1>1, <1>2, <3>1, FailedHonest
    <3>3. Failed(a).phase = r.phase
      BY <1>1 DEF Failed, Row
    <3>4. Honest(r, Failed(a), u)
      BY <1>1, <2>2, <3>1, <3>2, <3>3 DEF Honest
    <3> QED BY <1>3, <1>8, <2>2, <3>4
  <2> QED BY <2>1, <2>2
<1> QED BY <1>5, <1>6, <1>7, <1>8

\* seen may be true only for a row that is not under reconciliation.
LEMMA RecoveredHonest ==
  ASSUME NEW r \in Row, NEW k, NEW u, NEW n, RowInv(r, k, u, n), UncertainRow(r),
         r.lease # "none", NEW seen \in BOOLEAN, seen => r.phase \notin Recovering
  PROVE  Honest(r, Recovered(r, seen), u) /\ Recovered(r, seen).epoch = r.epoch + 1
<1> DEFINE f == [r EXCEPT !.epoch = @ + 1, !.lease = "none"]
           p == [f EXCEPT !.phase = "persist", !.slot = FALSE,
                          !.downD = IF @ = "unset" THEN "open" ELSE @]
<1>1. /\ f \in Row /\ f.status = r.status /\ f.phase = r.phase /\ f.lease = "none"
      /\ f.epoch = r.epoch + 1 /\ f.external = r.external /\ f.execD = r.execD
      /\ f.cancel = r.cancel
  <2>1. r.epoch + 1 \in Nat
    BY DEF Row
  <2>2. f \in Row
    BY <2>1 DEF Row
  <2> QED BY <2>2 DEF Row
<1>2. Recovered(r, seen) = IF seen THEN p ELSE IF r.phase = "submitting" THEN Unknown(f) ELSE f
  BY <1>1 DEF Recovered
<1>3. /\ p.status = f.status /\ p.phase = "persist" /\ p.lease = "none" /\ p.epoch = f.epoch
      /\ p.external = f.external /\ p.execD = f.execD
  BY <1>1 DEF Row
<1> HIDE DEF f, p
<1>4. UncertainRow(f) /\ r.epoch + 1 > r.epoch
  BY <1>1 DEF UncertainRow, Row
<1>5. CASE seen
  <2>1. r.status # "unknown"
    BY <1>5 DEF UncertainRow
  <2>2. UncertainRow(p)
    BY <1>1, <1>3, <2>1, <1>4 DEF UncertainRow
  <2> QED BY <1>1, <1>2, <1>3, <1>4, <1>5, <2>1, <2>2 DEF Honest
<1>6. CASE ~seen /\ r.phase = "submitting"
  <2>1. Honest(f, Unknown(f), u)
    BY <1>1, <1>4, <1>6, UnknownHonest
  <2>2. Unknown(f).epoch = r.epoch + 1 /\ Unknown(f).status = "unknown"
    BY <1>1, UnknownFields
  <2> QED BY <1>2, <1>4, <1>6, <2>1, <2>2 DEF Honest
<1>7. CASE ~seen /\ r.phase # "submitting"
  BY <1>1, <1>2, <1>4, <1>7 DEF Honest
<1> QED BY <1>5, <1>6, <1>7

\* An owner's row is under reconciliation or not uncertain at all.
LEMMA LeasedRowFacts ==
  ASSUME NEW r \in Row, NEW k, NEW u, NEW n, RowInv(r, k, u, n), UncertainRow(r), r.lease # "none"
  PROVE  /\ r.execD # "unset"
         /\ r.status = "unknown" => r.phase \in Recovering /\ r.external
BY DEF RowInv, UncertainRow

LEMMA AdvancedHonest ==
  ASSUME NEW r \in Row, NEW k, NEW u, NEW n, RowInv(r, k, u, n), UncertainRow(r), r.lease # "none",
         NEW claimed, NEW next \in {"submit", "poll", "download", "failed"},
         NEW handle \in BOOLEAN, NEW finished \in BOOLEAN,
         r.status = "unknown" => claimed \in Recovering /\ next # "submit", next = "poll" => handle,
         next = "failed" => u = "failed" \/ r.status # "unknown"
  PROVE  Honest(r, Advanced(r, claimed, next, handle, finished), u)
<1> DEFINE m == [r EXCEPT !.failures = 0, !.lease = "none",
                          !.external = r.external \/ handle, !.slot = r.slot /\ ~finished]
           s == Advanced(r, claimed, next, handle, finished)
<1>1. /\ m \in Row /\ m.status = r.status /\ m.phase = r.phase /\ m.lease = "none"
      /\ m.epoch = r.epoch /\ m.external = (r.external \/ handle) /\ m.execD = r.execD
      /\ m.cancel = r.cancel
  <2>1. 0 \in 0..MaxRetries
    BY ConstantsAssumption
  <2>2. (r.external \/ handle) \in BOOLEAN /\ (r.slot /\ ~finished) \in BOOLEAN
    BY DEF Row
  <2> QED BY <2>1, <2>2 DEF Row
<1>2. s = IF claimed \in Recovering /\ next = "poll"
            THEN [m EXCEPT !.phase = "reconcile", !.status = "unknown"]
          ELSE IF next = "download"
            THEN [m EXCEPT !.phase = next, !.status = "running",
                           !.downD = IF @ = "unset" THEN "open" ELSE @]
          ELSE IF next = "failed" THEN [m EXCEPT !.phase = next, !.status = "failed"]
          ELSE [m EXCEPT !.phase = next]
  BY DEF Advanced
<1> HIDE DEF m, s
<1>3. /\ r.execD # "unset"
      /\ r.status = "unknown" => r.phase \in Recovering /\ r.external
  BY LeasedRowFacts
<1>4. CASE claimed \in Recovering /\ next = "poll"
  <2>1. /\ s.phase = "reconcile" /\ s.status = "unknown" /\ s.lease = "none" /\ s.epoch = r.epoch
        /\ s.external = m.external /\ s.execD = r.execD
    BY <1>1, <1>2, <1>4 DEF Row
  <2>2. s.external
    BY <1>1, <1>4, <2>1
  <2> QED BY <1>3, <2>1, <2>2 DEF Honest, UncertainRow, Recovering, s
<1>5. CASE next = "download"
  <2>1. /\ s.phase = "download" /\ s.status = "running" /\ s.lease = "none" /\ s.epoch = r.epoch
        /\ s.execD = r.execD
    BY <1>1, <1>2, <1>5 DEF Row
  <2> QED BY <1>3, <2>1 DEF Honest, UncertainRow, s
<1>6. CASE next = "failed"
  <2>1. /\ s.phase = "failed" /\ s.status = "failed" /\ s.lease = "none" /\ s.epoch = r.epoch
        /\ s.execD = r.execD
    BY <1>1, <1>2, <1>6 DEF Row
  <2> QED BY <1>3, <1>6, <2>1 DEF Honest, UncertainRow, s
<1>7. CASE next \in {"submit", "poll"} /\ ~(claimed \in Recovering /\ next = "poll")
  <2>1. r.status # "unknown"
    BY <1>7
  <2>2. /\ s.phase = next /\ s.status = r.status /\ s.lease = "none" /\ s.epoch = r.epoch
        /\ s.execD = r.execD
    BY <1>1, <1>2, <1>7 DEF Row
  <2> QED BY <1>3, <1>7, <2>1, <2>2 DEF Honest, UncertainRow, s
<1> QED BY <1>4, <1>5, <1>6, <1>7 DEF s

LEMMA CompletedHonest ==
  ASSUME NEW r \in Row, NEW u, UncertainRow(r), r.status # "unknown"
  PROVE  Honest(r, Completed(r), u)
<1>1. /\ Completed(r).status = "completed" /\ Completed(r).phase = "completed"
      /\ Completed(r).lease = "none" /\ Completed(r).epoch = r.epoch
      /\ Completed(r).external = r.external /\ Completed(r).execD = r.execD
  BY DEF Completed, Row
<1> QED BY <1>1 DEF Honest, UncertainRow

LEMMA DeferredHonest ==
  ASSUME NEW r \in Row, NEW u, UncertainRow(r)
  PROVE  Honest(r, Deferred(r), u)
<1>1. /\ Deferred(r).status = r.status /\ Deferred(r).phase = r.phase
      /\ Deferred(r).lease = "none" /\ Deferred(r).epoch = r.epoch
      /\ Deferred(r).external = r.external /\ Deferred(r).execD = r.execD
      /\ Deferred(r).cancel = r.cancel
  BY DEF Deferred, Row
<1> QED BY <1>1 DEF Honest, UncertainRow

\* An uncertain answer is only given to a submission in progress.
LEMMA AfterFailureHonest ==
  ASSUME NEW r \in Row, NEW k, NEW u, NEW n, RowInv(r, k, u, n), UncertainRow(r), r.lease # "none",
         NEW failure \in Failures, failure = "uncertain" => r.phase = "submitting"
  PROVE  Honest(r, AfterFailure(r, failure), u)
<1> DEFINE free == [r EXCEPT !.lease = "none"]
           more == [free EXCEPT !.failures = @ + 1]
           again == [free EXCEPT !.failures = @ + 1, !.phase = "submit", !.slot = FALSE]
<1>1. AfterFailure(r, failure) =
        IF failure = "uncertain" THEN Unknown(r)
        ELSE IF failure = "retryable" /\ r.failures < MaxRetries
          THEN IF r.phase = "submitting" THEN again ELSE more
        ELSE IF r.external /\ r.phase \in {"poll", "cancel", "reconcile"} THEN Unknown(r)
        ELSE FailedFree(free)
  BY DEF AfterFailure
<1>2. /\ free \in Row /\ free.status = r.status /\ free.phase = r.phase /\ free.lease = "none"
      /\ free.epoch = r.epoch /\ free.external = r.external /\ free.execD = r.execD
      /\ free.cancel = r.cancel
  BY DEF Row
<1>3. /\ more.status = r.status /\ more.phase = r.phase /\ more.lease = "none"
      /\ more.epoch = r.epoch /\ more.external = r.external /\ more.execD = r.execD
      /\ again.status = r.status /\ again.phase = "submit" /\ again.lease = "none"
      /\ again.epoch = r.epoch /\ again.execD = r.execD
  BY <1>2 DEF Row
<1> HIDE DEF free, more, again
<1>4. /\ r.execD # "unset"
      /\ r.status = "unknown" => r.phase \in Recovering /\ r.external
  BY LeasedRowFacts
<1>5. Honest(r, more, u)
  BY <1>3, <1>4 DEF Honest, UncertainRow
<1>6. r.phase = "submitting" => Honest(r, again, u)
  BY <1>3, <1>4 DEF Honest, UncertainRow, Recovering
<1>7. r.external \/ r.phase = "submitting" => Honest(r, Unknown(r), u)
  BY UnknownHonest
<1>8. ~(r.external /\ r.phase \in {"poll", "cancel", "reconcile"}) => Honest(r, FailedFree(free), u)
  <2> SUFFICES ASSUME ~(r.external /\ r.phase \in {"poll", "cancel", "reconcile"})
               PROVE  Honest(r, FailedFree(free), u)
    OBVIOUS
  <2>1. r.status # "unknown"
    BY <1>4 DEF Recovering
  <2>2. UncertainRow(free)
    BY <1>2, <1>4, <2>1 DEF UncertainRow
  <2>3. Honest(free, FailedFree(free), u)
    BY <1>2, <2>1, <2>2, FailedHonest
  <2>4. FailedFree(free).lease = "none"
    BY <1>2 DEF FailedFree, Row
  <2> QED BY <1>2, <2>1, <2>3, <2>4 DEF Honest
<1> QED BY <1>1, <1>5, <1>6, <1>7, <1>8

LEMMA SubmittingHonest ==
  ASSUME NEW r \in Row, NEW k, NEW u, NEW n, RowInv(r, k, u, n), UncertainRow(r),
         r.lease # "none", ~r.cancel, r.phase = "submit"
  PROVE  /\ Honest(r, Submitting(r), u)
         /\ Honest(r, [Failed(r) EXCEPT !.phase = "failed", !.lease = "none"], u)
<1>1. r.status # "unknown" /\ r.execD # "unset"
  BY LeasedRowFacts DEF Recovering
<1>2. /\ Submitting(r).status = "running" /\ Submitting(r).phase = "submitting"
      /\ Submitting(r).lease = r.lease /\ Submitting(r).epoch = r.epoch
      /\ Submitting(r).execD = r.execD
  BY SubmittingType DEF Submitting, Row
<1>3. Honest(r, Submitting(r), u)
  BY <1>1, <1>2 DEF Honest, UncertainRow, Recovering
<1> DEFINE f == [Failed(r) EXCEPT !.phase = "failed", !.lease = "none"]
<1>4. f.status = "failed" /\ f.phase = "failed" /\ f.lease = "none" /\ f.epoch = r.epoch
      /\ f.execD = r.execD
  BY VerdictTypes DEF Failed, Row
<1> HIDE DEF f
<1>5. Honest(r, f, u)
  BY <1>1, <1>4 DEF Honest, UncertainRow
<1> QED BY <1>3, <1>5 DEF f

LEMMA AuditedHonest ==
  ASSUME NEW r \in Row, NEW u, UncertainRow(r)
  PROVE  /\ Honest(r, [FailedFree(r) EXCEPT !.phase = "audited_stopped", !.epoch = @ + 1], u)
         /\ r.external => Honest(r, [r EXCEPT !.phase = "reconcile", !.recD = "open", !.epoch = @ + 1], u)
<1> DEFINE a == [FailedFree(r) EXCEPT !.phase = "audited_stopped", !.epoch = @ + 1]
           c == [r EXCEPT !.phase = "reconcile", !.recD = "open", !.epoch = @ + 1]
<1>1. r.epoch + 1 > r.epoch /\ r.epoch + 1 \in Nat
  BY DEF Row
<1>2. /\ a.status = "failed" /\ a.phase = "audited_stopped" /\ a.epoch = r.epoch + 1
      /\ a.external = r.external /\ a.execD = r.execD
  BY VerdictTypes DEF FailedFree, Row
<1>3. /\ c.status = r.status /\ c.phase = "reconcile" /\ c.epoch = r.epoch + 1
      /\ c.external = r.external /\ c.execD = r.execD
  BY DEF Row
<1> HIDE DEF a, c
<1>4. Honest(r, a, u)
  BY <1>1, <1>2 DEF Honest, UncertainRow
<1>5. r.external => Honest(r, c, u)
  BY <1>1, <1>3 DEF Honest, UncertainRow, Recovering
<1> QED BY <1>4, <1>5 DEF a, c

-----------------------------------------------------------------------------
(* The steps.                                                              *)

HonestRows == \A j \in Job : Honest(job[j], job'[j], upstream[j])

LEMMA EvidenceFacts ==
  ASSUME IInv, EvidenceInv, NEW j \in Job
  PROVE  /\ job[j] \in Row /\ UncertainRow(job[j])
         /\ RowInv(job[j], Kind[j], upstream[j], started[j])
BY RowFacts DEF EvidenceInv

LEMMA SameJobs == ASSUME EvidenceInv, UNCHANGED job PROVE HonestRows
BY SameRow DEF EvidenceInv, HonestRows

LEMMA PutHonest ==
  ASSUME IInv, EvidenceInv, NEW j \in Job, NEW s, job' = [job EXCEPT ![j] = s],
         Honest(job[j], s, upstream[j])
  PROVE  HonestRows
<1>1. job'[j] = s /\ \A i \in Job \ {j} : job'[i] = job[i]
  BY DEF IInv, TypeOK
<1> QED BY <1>1, SameRow DEF EvidenceInv, HonestRows

LEMMA CommitHonest ==
  ASSUME IInv, EvidenceInv, NEW w \in Worker, NEW s, Commit(w, s),
         Owned(w) => Honest(job[worker[w].job], s, upstream[worker[w].job])
  PROVE  HonestRows
<1>1. CASE ~Owned(w)
  BY <1>1, SameJobs DEF Commit
<1>2. CASE Owned(w)
  <2>1. worker[w].job \in Job
    BY <1>2, OwnedFacts
  <2> QED BY <1>2, <2>1, PutHonest DEF Commit
<1> QED BY <1>1, <1>2

\* What an owner knows of its row and of its claim.
LEMMA OwnerFacts ==
  ASSUME IInv, EvidenceInv, NEW w \in Worker, Owned(w)
  PROVE  LET j == worker[w].job
             r == job[j]
         IN  /\ j \in Job /\ worker[w] \in WorkerState /\ worker[w].at # "idle"
             /\ r \in Row /\ UncertainRow(r) /\ r.lease # "none"
             /\ RowInv(r, Kind[j], upstream[j], started[j])
             /\ ClaimInv(worker[w], r, Kind[j], upstream[j], started[j])
             /\ ArtifactClaim(worker[w])
             /\ r.phase \in RowPhases(worker[w])
             /\ r.status = "unknown" => worker[w].phase \in Recovering
<1> DEFINE j == worker[w].job
<1>1. /\ j \in Job /\ worker[w].at # "idle" /\ job[j].lease # "none"
      /\ job[j].phase \in RowPhases(worker[w])
  BY OwnedFacts
<1>2. job[j] \in Row /\ UncertainRow(job[j]) /\ RowInv(job[j], Kind[j], upstream[j], started[j])
  BY <1>1, EvidenceFacts
<1>3. worker[w] \in WorkerState /\ ClaimInv(worker[w], job[j], Kind[j], upstream[j], started[j])
  BY <1>1, ClaimFacts
<1>4. ArtifactClaim(worker[w])
  BY <1>1 DEF EvidenceInv
<1>5. job[j].status = "unknown" => job[j].phase \in Recovering
  BY <1>1, <1>2, LeasedRowFacts
<1>6. job[j].status = "unknown" => worker[w].phase \in Recovering
  BY <1>1, <1>5 DEF RowPhases, Recovering
<1> QED BY <1>1, <1>2, <1>3, <1>4, <1>6

LEMMA ClaimHonest ==
  ASSUME IInv, EvidenceInv, NEW w \in Worker, NEW j \in Job, Claim(w, j) PROVE HonestRows
<1>1. job[j] \in Row /\ UncertainRow(job[j]) /\ RowInv(job[j], Kind[j], upstream[j], started[j])
  BY EvidenceFacts
<1>2. CASE Grants(job[j])
  <2>1. job' = [job EXCEPT ![j] = Leased(job[j])] /\ Claimable(job[j])
    BY <1>2 DEF Claim, Put
  <2> QED BY <1>1, <1>2, <2>1, LeasedHonest, PutHonest
<1>3. CASE ~Grants(job[j])
  <2>1. job' = [job EXCEPT ![j] = Refused(job[j])] /\ Claimable(job[j])
    BY <1>3 DEF Claim, Put
  <2> QED BY <1>1, <1>3, <2>1, RefusedHonest, PutHonest
<1> QED BY <1>2, <1>3

LEMMA BeginSubmitHonest ==
  ASSUME IInv, EvidenceInv, NEW w \in Worker, BeginSubmit(w) PROVE HonestRows
<1> DEFINE j == worker[w].job
<1>1. CASE ~MaySubmit(w)
  BY <1>1, SameJobs DEF BeginSubmit
<1>2. CASE MaySubmit(w)
  <2>1. /\ j \in Job /\ job[j] \in Row /\ UncertainRow(job[j]) /\ job[j].lease # "none"
        /\ RowInv(job[j], Kind[j], upstream[j], started[j]) /\ ~job[j].cancel /\ job[j].phase = "submit"
    BY <1>2, OwnerFacts DEF MaySubmit
  <2>2. PICK s \in {[Failed(job[j]) EXCEPT !.phase = "failed", !.lease = "none"],
                    Deferred(job[j]), Submitting(job[j])} : job' = [job EXCEPT ![j] = s]
    BY <1>2 DEF BeginSubmit, Put
  <2>3. Honest(job[j], s, upstream[j])
    BY <2>1, <2>2, SubmittingHonest, DeferredHonest
  <2> QED BY <2>1, <2>2, <2>3, PutHonest
<1> QED BY <1>1, <1>2

LEMMA AdvanceHonest ==
  ASSUME IInv, EvidenceInv, NEW w \in Worker, Advance(w) PROVE HonestRows
<1> DEFINE j == worker[w].job
           a == worker[w].answer
           ph == worker[w].phase
           s == Advanced(job[j], ph, a, a = "poll", a \in {"download", "failed"})
<1>1. worker[w].at = "answered" /\ a \in {"submit", "poll", "download", "failed"} /\ Commit(w, s)
  BY DEF Advance
<1>2. ASSUME Owned(w) PROVE Honest(job[j], s, upstream[j])
  <2>1. /\ job[j] \in Row /\ UncertainRow(job[j]) /\ job[j].lease # "none"
        /\ RowInv(job[j], Kind[j], upstream[j], started[j])
        /\ ClaimInv(worker[w], job[j], Kind[j], upstream[j], started[j])
        /\ job[j].status = "unknown" => ph \in Recovering
    BY <1>2, OwnerFacts
  <2>2. /\ a = "submit" => ph \notin Recovering
        /\ a = "failed" => upstream[j] = "failed"
    BY <1>1, <2>1 DEF ClaimInv, Recovering
  <2>3. (a = "poll") \in BOOLEAN /\ (a \in {"download", "failed"}) \in BOOLEAN
    OBVIOUS
  <2> QED BY <1>1, <2>1, <2>2, <2>3, AdvancedHonest
<1> HIDE DEF s
<1> QED BY <1>1, <1>2, CommitHonest

LEMMA InvalidArtifactHonest ==
  ASSUME IInv, EvidenceInv, NEW w \in Worker, InvalidArtifact(w) PROVE HonestRows
<1> DEFINE j == worker[w].job
           s == Advanced(job[j], worker[w].phase, "failed", FALSE, TRUE)
<1>1. worker[w].at = "answered" /\ worker[w].answer = "persist" /\ Commit(w, s)
  BY DEF InvalidArtifact
<1>2. ASSUME Owned(w) PROVE Honest(job[j], s, upstream[j])
  <2>1. /\ job[j] \in Row /\ UncertainRow(job[j]) /\ job[j].lease # "none"
        /\ RowInv(job[j], Kind[j], upstream[j], started[j])
        /\ job[j].status # "unknown"
    BY <1>1, <1>2, OwnerFacts DEF ArtifactClaim
  <2> QED BY <2>1, AdvancedHonest
<1> HIDE DEF s
<1> QED BY <1>1, <1>2, CommitHonest

LEMMA CompleteHonest ==
  ASSUME IInv, EvidenceInv, NEW w \in Worker, Complete(w) PROVE HonestRows
<1> DEFINE j == worker[w].job
<1>1. /\ worker[w].at = "saved" \/ (worker[w].at = "claimed" /\ worker[w].phase = "persist")
      /\ Commit(w, Completed(job[j]))
  BY DEF Complete
<1>2. ASSUME Owned(w) PROVE Honest(job[j], Completed(job[j]), upstream[j])
  <2>1. job[j] \in Row /\ UncertainRow(job[j]) /\ job[j].status # "unknown"
    BY <1>1, <1>2, OwnerFacts DEF ArtifactClaim, Recovering
  <2> QED BY <2>1, CompletedHonest
<1> QED BY <1>1, <1>2, CommitHonest

LEMMA FailHonest ==
  ASSUME IInv, EvidenceInv, NEW w \in Worker, Fail(w) PROVE HonestRows
<1> DEFINE j == worker[w].job
           a == worker[w].answer
<1>1. worker[w].at = "answered" /\ a \in Failures /\ Commit(w, AfterFailure(job[j], a))
  BY DEF Fail
<1>2. ASSUME Owned(w) PROVE Honest(job[j], AfterFailure(job[j], a), upstream[j])
  <2>1. /\ job[j] \in Row /\ UncertainRow(job[j]) /\ job[j].lease # "none"
        /\ RowInv(job[j], Kind[j], upstream[j], started[j])
        /\ ClaimInv(worker[w], job[j], Kind[j], upstream[j], started[j])
        /\ job[j].phase \in RowPhases(worker[w])
    BY <1>2, OwnerFacts
  <2>2. a = "uncertain" => job[j].phase = "submitting"
    BY <1>1, <2>1 DEF ClaimInv, RowPhases
  <2> QED BY <1>1, <2>1, <2>2, AfterFailureHonest
<1> QED BY <1>1, <1>2, CommitHonest

LEMMA DeferHonest ==
  ASSUME IInv, EvidenceInv, NEW w \in Worker, Defer(w) PROVE HonestRows
<1>1. Owned(w) => Honest(job[worker[w].job], Deferred(job[worker[w].job]), upstream[worker[w].job])
  BY OwnerFacts, DeferredHonest
<1> QED BY <1>1, CommitHonest DEF Defer

LEMMA RecoverHonest ==
  ASSUME IInv, EvidenceInv, NEW j \in Job, RecoverExpired(j) PROVE HonestRows
<1>1. PICK seen \in BOOLEAN : /\ seen => <<j, job[j].epoch>> \in receipts
                              /\ job' = [job EXCEPT ![j] = Recovered(job[j], seen)]
  BY DEF RecoverExpired, Put
<1>2. job[j].lease # "none"
  BY DEF RecoverExpired
<1>3. job[j] \in Row /\ UncertainRow(job[j]) /\ RowInv(job[j], Kind[j], upstream[j], started[j])
  BY EvidenceFacts
<1>4. seen => job[j].phase \notin Recovering
  <2> DEFINE x == <<j, job[j].epoch>>
  <2>1. x[1] = j /\ x[2] = job[j].epoch
    OBVIOUS
  <2>2. seen => ReceiptOf(x, job[x[1]])
    BY <1>1 DEF EvidenceInv
  <2> QED BY <1>2, <2>1, <2>2 DEF ReceiptOf
<1> QED BY <1>1, <1>2, <1>3, <1>4, RecoveredHonest, PutHonest

LEMMA ScanHonest ==
  ASSUME IInv, EvidenceInv, NEW j \in Job,
         ExpireDue(j) \/ RequestCancel(j) \/ ConfirmStopped(j) \/ ResumeReconciliation(j)
  PROVE  HonestRows
<1>1. job[j] \in Row /\ UncertainRow(job[j]) /\ RowInv(job[j], Kind[j], upstream[j], started[j])
  BY EvidenceFacts
<1>2. CASE ExpireDue(j)
  BY <1>1, <1>2, ExpiredHonest, PutHonest DEF ExpireDue, Put
<1>3. CASE RequestCancel(j)
  <2>1. (Kind[j] = "video") \in BOOLEAN
    OBVIOUS
  <2> QED BY <1>1, <1>3, <2>1, CancelledHonest, PutHonest DEF RequestCancel, Put
<1>4. CASE ConfirmStopped(j)
  BY <1>1, <1>4, AuditedHonest, PutHonest DEF ConfirmStopped, Put
<1>5. CASE ResumeReconciliation(j)
  BY <1>1, <1>5, AuditedHonest, PutHonest DEF ResumeReconciliation, Put
<1> QED BY <1>2, <1>3, <1>4, <1>5

LEMMA MarkHonest ==
  ASSUME IInv, EvidenceInv, NEW j \in Job, LeaseExpires(j) \/ DeadlinePasses(j) \/ FlagCancel(j)
  PROVE  HonestRows
<1>1. job[j] \in Row /\ UncertainRow(job[j])
  BY EvidenceFacts
<1>2. PICK s : /\ job' = [job EXCEPT ![j] = s]
               /\ \/ s = [job[j] EXCEPT !.cancel = TRUE]
                  \/ job[j].lease # "none" /\ s = [job[j] EXCEPT !.lease = "expired"]
                  \/ s = [job[j] EXCEPT !.queueD = "past"]
                  \/ s = [job[j] EXCEPT !.execD = "past"]
                  \/ s = [job[j] EXCEPT !.downD = "past"]
                  \/ s = [job[j] EXCEPT !.recD = "past"]
  BY DEF LeaseExpires, DeadlinePasses, FlagCancel, Put
<1>3. /\ s \in Row /\ s.status = job[j].status /\ s.phase = job[j].phase
      /\ s.external = job[j].external /\ s.epoch = job[j].epoch
      /\ s.lease = "none" <=> job[j].lease = "none"
      /\ job[j].execD # "unset" => s.execD # "unset"
  BY <1>1, <1>2, ClockFacts DEF Row
<1> QED BY <1>1, <1>2, <1>3, TouchedHonest, PutHonest

LEMMA StepHonest == ASSUME IInv, EvidenceInv, [Next]_vars PROVE HonestRows
<1>1. ASSUME NEW w \in Worker, WorkerStep(w) PROVE HonestRows
  <2>1. CASE \E j \in Job : Claim(w, j)
    BY <2>1, ClaimHonest
  <2>2. CASE Defer(w) \/ BeginSubmit(w) \/ Advance(w)
    BY <2>2, DeferHonest, BeginSubmitHonest, AdvanceHonest
  <2>3. CASE InvalidArtifact(w) \/ Complete(w) \/ Fail(w)
    BY <2>3, InvalidArtifactHonest, CompleteHonest, FailHonest
  <2>4. CASE \/ ProviderAccepts(w) \/ SubmitRefused(w) \/ SubmitUncertain(w) \/ SubmitReplies(w)
             \/ Operate(w) \/ OperationFails(w) \/ SaveArtifact(w) \/ SaveFails(w)
             \/ HeartbeatLost(w) \/ Crash(w)
    <3>1. UNCHANGED job
      BY <2>4 DEF ProviderAccepts, SubmitRefused, SubmitUncertain, SubmitReplies, Operate,
                  OperationFails, SaveArtifact, SaveFails, HeartbeatLost, Crash
    <3> QED BY <3>1, SameJobs
  <2> QED BY <1>1, <2>1, <2>2, <2>3, <2>4 DEF WorkerStep
<1>2. ASSUME NEW j \in Job, JobStep(j) PROVE HonestRows
  <2>1. CASE UpstreamEnds(j)
    BY <2>1, SameJobs DEF UpstreamEnds
  <2> QED BY <1>2, <2>1, MarkHonest, RecoverHonest, ScanHonest DEF JobStep
<1>3. CASE UNCHANGED vars
  BY <1>3, SameJobs DEF vars
<1> QED BY <1>1, <1>2, <1>3 DEF Next

-----------------------------------------------------------------------------
(* The invariant.                                                          *)

\* A step gives a worker's claim an artifact only outside of reconciliation.
LEMMA ClaimsStayHonest ==
  ASSUME IInv, EvidenceInv, [Next]_vars, NEW v \in Worker, worker'[v].at # "idle"
  PROVE  ArtifactClaim(worker'[v])
<1>0. /\ worker[v].at # "idle" => ArtifactClaim(worker[v])
      /\ worker \in [Worker -> WorkerState]
  BY DEF EvidenceInv, IInv, TypeOK
<1>1. ASSUME NEW w \in Worker, WorkerStep(w) PROVE ArtifactClaim(worker'[v])
  <2> DEFINE c == worker[w]
  <2>1. CASE worker' = [worker EXCEPT ![w] = Idle] \/ worker' = worker
    BY <1>0, <2>1 DEF Idle
  <2>2. ASSUME NEW at, worker' = [worker EXCEPT ![w].at = at], at # "answered",
               at = "saved" => c.at = "answered" /\ c.answer = "persist"
        PROVE  ArtifactClaim(worker'[v])
    <3>1. CASE v # w
      BY <1>0, <2>2, <3>1
    <3>2. CASE v = w
      <4>1. worker'[v] = [c EXCEPT !.at = at]
        BY <1>0, <2>2, <3>2
      <4>2. worker'[v].at = at /\ worker'[v].phase = c.phase
        BY <1>0, <4>1 DEF WorkerState
      <4> QED BY <1>0, <2>2, <3>2, <4>2 DEF ArtifactClaim
    <3> QED BY <3>1, <3>2
  <2>3. ASSUME NEW a, Answered(w, a), a = "persist" => c.phase \notin Recovering
        PROVE  ArtifactClaim(worker'[v])
    <3>1. CASE v # w
      BY <1>0, <2>3, <3>1 DEF Answered
    <3>2. CASE v = w
      <4>1. worker'[v] = [c EXCEPT !.at = "answered", !.answer = a]
        BY <1>0, <2>3, <3>2 DEF Answered
      <4>2. worker'[v].at = "answered" /\ worker'[v].answer = a /\ worker'[v].phase = c.phase
        BY <1>0, <4>1 DEF WorkerState
      <4> QED BY <2>3, <4>2 DEF ArtifactClaim
    <3> QED BY <3>1, <3>2
  <2>4. CASE \E j \in Job : Claim(w, j)
    <3>1. PICK j \in Job : Claim(w, j)
      BY <2>4
    <3>2. worker' = worker \/ worker' = [worker EXCEPT ![w] =
             [at |-> "claimed", job |-> j, epoch |-> job[j].epoch + 1,
              phase |-> job[j].phase, answer |-> "none"]]
      BY <3>1 DEF Claim
    <3> QED BY <1>0, <2>1, <3>2 DEF ArtifactClaim
  <2>5. CASE \/ Defer(w) \/ Advance(w) \/ InvalidArtifact(w) \/ Complete(w) \/ Fail(w)
             \/ HeartbeatLost(w) \/ Crash(w)
    BY <2>1, <2>5 DEF Defer, Advance, InvalidArtifact, Complete, Fail, HeartbeatLost, Crash, Commit
  <2>6. CASE BeginSubmit(w) \/ ProviderAccepts(w) \/ SaveArtifact(w)
    BY <2>1, <2>2, <2>6 DEF BeginSubmit, ProviderAccepts, SaveArtifact, Goes
  <2>7. CASE SubmitRefused(w) \/ SubmitUncertain(w) \/ OperationFails(w) \/ SaveFails(w)
    BY <2>3, <2>7 DEF SubmitRefused, SubmitUncertain, OperationFails, SaveFails
  <2>8. CASE SubmitReplies(w)
    <3>1. c.phase \notin Recovering
      BY <2>8, ClaimFacts DEF SubmitReplies, ClaimInv, Recovering
    <3> QED BY <2>3, <2>8, <3>1 DEF SubmitReplies
  <2>9. CASE Operate(w)
    <3>1. PICK a \in Reports(c.job, c.phase) : Answered(w, a)
      BY <2>9 DEF Operate
    <3>2. a = "persist" => c.phase \notin Recovering
      BY <3>1 DEF Reports, Recovering
    <3> QED BY <2>3, <3>1, <3>2
  <2> QED BY <1>1, <2>4, <2>5, <2>6, <2>7, <2>8, <2>9 DEF WorkerStep
<1>2. CASE \A w \in Worker : ~WorkerStep(w)
  <2>1. UNCHANGED worker
    BY <1>2 DEF Next, vars, JobStep, UpstreamEnds, LeaseExpires, DeadlinePasses, RecoverExpired,
                ExpireDue, FlagCancel, RequestCancel, ConfirmStopped, ResumeReconciliation
  <2> QED BY <1>0, <2>1
<1> QED BY <1>1, <1>2

\* A step writes a receipt only for a claim outside of reconciliation.
LEMMA ReceiptsStayHonest ==
  ASSUME IInv, EvidenceInv, HonestRows, [Next]_vars, NEW x \in receipts', job' \in [Job -> Row]
  PROVE  ReceiptOf(x, job'[x[1]])
<1>1. CASE x \in receipts
  <2>1. x[1] \in Job /\ x[2] \in Nat /\ ReceiptOf(x, job[x[1]])
    BY <1>1 DEF IInv, TypeOK, EvidenceInv
  <2>2. /\ Honest(job[x[1]], job'[x[1]], upstream[x[1]])
        /\ job[x[1]].epoch \in Nat /\ job'[x[1]].epoch \in Nat
    BY <2>1, RowFacts DEF HonestRows, Row
  <2> QED BY <2>1, <2>2 DEF ReceiptOf, Honest
<1>2. CASE x \notin receipts
  <2>1. PICK w \in Worker : SaveArtifact(w)
    BY <1>2 DEF Next, vars, WorkerStep, JobStep, Claim, Defer, BeginSubmit, ProviderAccepts,
                SubmitRefused, SubmitUncertain, SubmitReplies, Operate, OperationFails, Advance,
                InvalidArtifact, SaveFails, Complete, Fail, HeartbeatLost, Crash, UpstreamEnds,
                LeaseExpires, DeadlinePasses, RecoverExpired, ExpireDue, FlagCancel,
                RequestCancel, ConfirmStopped, ResumeReconciliation
  <2> DEFINE c == worker[w]
  <2>2. /\ x = <<c.job, c.epoch>> /\ c.at = "answered" /\ c.answer = "persist" /\ job' = job
    BY <1>2, <2>1 DEF SaveArtifact
  <2>3. /\ c.job \in Job /\ ArtifactClaim(c)
        /\ ClaimInv(c, job[c.job], Kind[c.job], upstream[c.job], started[c.job])
    BY <2>2, ClaimFacts DEF EvidenceInv
  <2>4. c.phase \notin Recovering
    BY <2>2, <2>3 DEF ArtifactClaim
  <2>5. /\ c.epoch <= job[c.job].epoch
        /\ c.epoch = job[c.job].epoch /\ job[c.job].lease # "none" => job[c.job].phase \notin Recovering
    BY <2>3, <2>4 DEF ClaimInv, Current, RowPhases, Recovering
  <2>6. x[1] = c.job /\ x[2] = c.epoch
    BY <2>2
  <2> QED BY <2>2, <2>5, <2>6 DEF ReceiptOf
<1> QED BY <1>1, <1>2

LEMMA EvidenceKept == ASSUME IInv, IInv', EvidenceInv, [Next]_vars PROVE EvidenceInv'
<1>1. HonestRows
  BY StepHonest
<1>2. \A j \in Job : UncertainRow(job'[j])
  BY <1>1 DEF HonestRows, Honest
<1>3. \A w \in Worker : worker'[w].at # "idle" => ArtifactClaim(worker'[w])
  BY ClaimsStayHonest
<1>4. job' \in [Job -> Row]
  BY DEF IInv, TypeOK
<1>5. \A x \in receipts' : ReceiptOf(x, job'[x[1]])
  BY <1>1, <1>4, ReceiptsStayHonest
<1> QED BY <1>2, <1>3, <1>5 DEF EvidenceInv

LEMMA EvidenceInit == Init => EvidenceInv
BY DEF Init, EvidenceInv, Accepted, Idle, UncertainRow

LEMMA EvidenceHolds == Spec => []EvidenceInv
<1>1. IInv /\ IInv' /\ EvidenceInv /\ [Next]_vars => EvidenceInv'
  BY EvidenceKept
<1> QED BY <1>1, EvidenceInit, Invariance, PTL DEF Spec

-----------------------------------------------------------------------------
(* The theorems.                                                           *)

\* Once a cancellation is recorded, begin_submit starts no new submission: whoever
\* claimed the job before, the row is read again under its lock.
THEOREM SubmissionsStop == Spec => NoSubmissionAfterCancel
<1> DEFINE Stops == \A j \in Job : job[j].cancel /\ job'[j].phase = "submitting"
                      => job[j].phase = "submitting"
<1>1. IInv /\ EvidenceInv /\ [Next]_vars => [Stops]_vars
  BY StepHonest DEF HonestRows, Honest
<1> QED BY <1>1, Invariance, EvidenceHolds, PTL DEF NoSubmissionAfterCancel, Spec

\* An uncertain job gets its verdict from the provider's own answer or from an audit,
\* never from a timer, a cancellation, a recovery or a late owner.
THEOREM EvidenceNeeded == Spec => UnknownNeedsEvidence
<1> DEFINE Told == \A j \in Job :
                     job[j].status = "unknown" /\ job'[j].status \in {"completed", "failed"}
                       => \/ upstream[j] = "failed"
                          \/ job'[j].phase = "audited_stopped"
<1>1. IInv /\ EvidenceInv /\ [Next]_vars => [Told]_vars
  BY StepHonest DEF HonestRows, Honest
<1> QED BY <1>1, Invariance, EvidenceHolds, PTL DEF UnknownNeedsEvidence, Spec
=============================================================================
