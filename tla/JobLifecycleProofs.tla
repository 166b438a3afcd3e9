------------------------- MODULE JobLifecycleProofs -------------------------
(***************************************************************************)
(* Proofs about JobLifecycle, for any jobs, workers, kinds, slot limit,    *)
(* retry budget and epoch bound: IInv of JobLifecycleInvariant is          *)
(* inductive, and the safety properties follow from it.                    *)
(***************************************************************************)
EXTENDS JobLifecycleInvariant, FiniteSetTheorems, TLAPS

-----------------------------------------------------------------------------
(* The row operations return rows.                                         *)

LEMMA PhaseFacts ==
  /\ {"reconcile", "reconcile_exhausted", "submitting", "submit", "completed", "persist",
      "download", "cancel", "failed", "poll", "prepare", "export", "audited_stopped"} \subseteq Phases
  /\ Recovering \subseteq Phases /\ Publishing \subseteq Phases
BY DEF Phases, Recovering, Publishing

LEMMA ClockFacts == {"unset", "open", "past"} \subseteq Clock
BY DEF Clock

LEMMA LiveFacts == {"queued", "running", "unknown"} \subseteq Live
BY DEF Live

LEMMA UnknownType == ASSUME NEW r \in Row PROVE Unknown(r) \in Row
<1>1. CASE ~r.external
  BY <1>1 DEF Unknown, Row, Live
<1>2. CASE r.external /\ r.recD = "unset"
  BY <1>2, PhaseFacts, ClockFacts DEF Unknown, Row, Live
<1>3. CASE r.external /\ r.recD # "unset"
  BY <1>3, PhaseFacts, ClockFacts DEF Unknown, Row, Live
<1> QED BY <1>1, <1>2, <1>3 DEF Row

LEMMA VerdictTypes ==
  ASSUME NEW r \in Row
  PROVE  /\ Failed(r) \in Row /\ FailedFree(r) \in Row /\ Exhausted(r) \in Row
         /\ Deadlined(r) \in Row /\ Deferred(r) \in Row /\ Completed(r) \in Row
         /\ Abandoned(r) \in Row
<1>1. Failed(r) \in Row /\ FailedFree(r) \in Row
  BY DEF Failed, FailedFree, Row
<1>2. Exhausted(r) \in Row
  BY PhaseFacts DEF Exhausted, Row
<1>3. Deadlined(r) \in Row
  BY ClockFacts DEF Deadlined, Row
<1>4. Deferred(r) \in Row
  BY DEF Deferred, Row
<1>5. Completed(r) \in Row
  BY PhaseFacts DEF Completed, Row
<1>6. Abandoned(r) \in Row
  BY <1>1, UnknownType DEF Abandoned
<1> QED BY <1>1, <1>2, <1>3, <1>4, <1>5, <1>6

LEMMA LeasedType == ASSUME NEW r \in Row PROVE Leased(r) \in Row
<1>1. PICK d \in Row : d = Deadlined(r) /\ d.epoch + 1 \in Nat
  BY VerdictTypes DEF Row
<1>2. Leased(r) = [d EXCEPT !.lease = "live", !.epoch = d.epoch + 1,
                            !.status = IF r.phase = "export" THEN "running" ELSE d.status]
  BY <1>1 DEF Leased
<1> QED BY <1>1, <1>2, LiveFacts DEF Row

LEMMA SubmittingType == ASSUME NEW r \in Row PROVE Submitting(r) \in Row
<1>1. r.attempts \in Nat /\ r.attempts + 1 \in Nat
  BY DEF Row
<1>2. Submitting(r) = [r EXCEPT !.phase = "submitting", !.status = "running",
                                !.slot = TRUE, !.attempts = r.attempts + 1]
  BY DEF Submitting
<1> QED BY <1>1, <1>2, PhaseFacts, LiveFacts DEF Row

LEMMA RefusedType == ASSUME NEW r \in Row PROVE Refused(r) \in Row
<1>1. PICK d \in Row : d = Deadlined(r)
  BY VerdictTypes
<1> QED BY <1>1, UnknownType, VerdictTypes DEF Refused

LEMMA ExpiredType == ASSUME NEW r \in Row PROVE Expired(r) \in Row
BY VerdictTypes DEF Expired

LEMMA AdvancedType ==
  ASSUME NEW r \in Row, NEW claimed \in Phases, NEW next \in {"submit", "poll", "download", "failed"},
         NEW handle \in BOOLEAN, NEW finished \in BOOLEAN
  PROVE  Advanced(r, claimed, next, handle, finished) \in Row
<1> DEFINE m == [r EXCEPT !.failures = 0, !.lease = "none",
                          !.external = r.external \/ handle, !.slot = r.slot /\ ~finished]
<1>1. m \in Row
  <2>1. 0 \in 0..MaxRetries
    BY ConstantsAssumption
  <2>2. (r.external \/ handle) \in BOOLEAN /\ (r.slot /\ ~finished) \in BOOLEAN
    BY DEF Row
  <2> QED BY <2>1, <2>2 DEF Row
<1>2. next \in Phases /\ "reconcile" \in Phases
  BY PhaseFacts
<1> HIDE DEF m
<1>3. /\ [m EXCEPT !.phase = "reconcile", !.status = "unknown"] \in Row
      /\ [m EXCEPT !.phase = next, !.status = "running",
                   !.downD = IF m.downD = "unset" THEN "open" ELSE m.downD] \in Row
      /\ [m EXCEPT !.phase = next, !.status = "failed"] \in Row
      /\ [m EXCEPT !.phase = next] \in Row
  BY <1>1, <1>2, ClockFacts, LiveFacts DEF Row
<1>4. Advanced(r, claimed, next, handle, finished) =
        IF claimed \in Recovering /\ next = "poll"
          THEN [m EXCEPT !.phase = "reconcile", !.status = "unknown"]
        ELSE IF next = "download"
          THEN [m EXCEPT !.phase = next, !.status = "running",
                         !.downD = IF m.downD = "unset" THEN "open" ELSE m.downD]
        ELSE IF next = "failed" THEN [m EXCEPT !.phase = next, !.status = "failed"]
        ELSE [m EXCEPT !.phase = next]
  BY DEF Advanced, m
<1> QED BY <1>3, <1>4

LEMMA AfterFailureType ==
  ASSUME NEW r \in Row, NEW failure \in Failures PROVE AfterFailure(r, failure) \in Row
<1> DEFINE free == [r EXCEPT !.lease = "none"]
<1>1. free \in Row /\ free.failures = r.failures
  BY DEF Row
<1>2. ASSUME r.failures < MaxRetries
      PROVE  /\ [free EXCEPT !.failures = free.failures + 1, !.phase = "submit", !.slot = FALSE] \in Row
             /\ [free EXCEPT !.failures = free.failures + 1] \in Row
  <2>1. free.failures + 1 \in 0..MaxRetries
    BY <1>1, <1>2, ConstantsAssumption DEF Row
  <2> HIDE DEF free
  <2> QED BY <1>1, <2>1, PhaseFacts DEF Row
<1>3. FailedFree(free) \in Row
  BY <1>1, VerdictTypes
<1> QED BY <1>2, <1>3, UnknownType DEF AfterFailure

LEMMA CancelledType ==
  ASSUME NEW r \in Row, NEW video \in BOOLEAN PROVE Cancelled(r, video) \in Row
<1> DEFINE asked == [r EXCEPT !.cancel = TRUE]
<1>1. asked \in Row
  BY DEF Row
<1>2. [Unknown(asked) EXCEPT !.phase = "cancel"] \in Row
  BY <1>1, UnknownType, PhaseFacts DEF Row
<1>3. Failed(asked) \in Row /\ Unknown(asked) \in Row
  BY <1>1, UnknownType, VerdictTypes
<1> QED BY <1>1, <1>2, <1>3 DEF Cancelled

LEMMA RecoveredType ==
  ASSUME NEW r \in Row, NEW seen \in BOOLEAN PROVE Recovered(r, seen) \in Row
<1> DEFINE fenced == [r EXCEPT !.epoch = r.epoch + 1, !.lease = "none"]
<1>1. fenced \in Row
  <2>1. r.epoch + 1 \in Nat
    BY DEF Row
  <2> QED BY <2>1 DEF Row
<1> HIDE DEF fenced
<1>2. [fenced EXCEPT !.phase = "persist", !.slot = FALSE,
                     !.downD = IF fenced.downD = "unset" THEN "open" ELSE fenced.downD] \in Row
  BY <1>1, PhaseFacts, ClockFacts DEF Row
<1>3. Unknown(fenced) \in Row
  BY <1>1, UnknownType
<1> QED BY <1>1, <1>2, <1>3 DEF Recovered, fenced

-----------------------------------------------------------------------------
(* The row operations preserve RowInv.                                     *)

LEMMA UnknownRow ==
  ASSUME NEW r \in Row, NEW k, NEW u, NEW n, RowInv(r, k, u, n), r.status \in Live
  PROVE  /\ RowInv(Unknown(r), k, u, n)
         /\ Unknown(r).lease = "none" /\ Unknown(r).epoch = r.epoch /\ Unknown(r).slot = r.slot
         /\ Unknown(r).status = "unknown"
         /\ r.phase = "submitting" => Unknown(r).phase = "submitting"
<1>1. CASE ~r.external
  BY <1>1 DEF Unknown, Row, RowInv, Live
<1>2. CASE r.external /\ r.recD \in {"unset", "open"}
  BY <1>2 DEF Unknown, Row, RowInv, Live, Recovering, Publishing
<1>3. CASE r.external /\ r.recD = "past"
  BY <1>3 DEF Unknown, Row, RowInv, Live, Recovering, Publishing
<1> QED BY <1>1, <1>2, <1>3 DEF Row, Clock

LEMMA DeadlinedRow ==
  ASSUME NEW r \in Row, NEW k, NEW u, NEW n, RowInv(r, k, u, n)
  PROVE  /\ RowInv(Deadlined(r), k, u, n)
         /\ Deadlined(r).status = r.status /\ Deadlined(r).phase = r.phase
         /\ Deadlined(r).lease = r.lease /\ Deadlined(r).epoch = r.epoch
         /\ Deadlined(r).slot = r.slot /\ Deadlined(r).external = r.external
         /\ Deadlined(r).execD # "unset"
BY DEF Deadlined, Row, RowInv

LEMMA FailedRow ==
  ASSUME NEW r \in Row, NEW k, NEW u, NEW n, RowInv(r, k, u, n), r.lease = "none", ~r.slot, r.status \in Live
  PROVE  RowInv(Failed(r), k, u, n) /\ Failed(r).lease = "none" /\ Failed(r).epoch = r.epoch
BY DEF Failed, Row, RowInv, Live

LEMMA FailedFreeRow ==
  ASSUME NEW r \in Row, NEW k, NEW u, NEW n, RowInv(r, k, u, n), r.lease = "none", u # "running", r.status \in Live
  PROVE  RowInv(FailedFree(r), k, u, n) /\ FailedFree(r).lease = "none" /\ FailedFree(r).epoch = r.epoch
BY DEF FailedFree, Row, RowInv, Live

LEMMA ExhaustedRow ==
  ASSUME NEW r \in Row, NEW k, NEW u, NEW n, RowInv(r, k, u, n), r.phase \in Recovering
  PROVE  /\ RowInv(Exhausted(r), k, u, n) /\ Exhausted(r).lease = r.lease
         /\ Exhausted(r).epoch = r.epoch /\ Exhausted(r).slot = r.slot
         /\ Exhausted(r).status = r.status
BY DEF Exhausted, Row, RowInv, Recovering, Publishing

LEMMA LeasedRow ==
  ASSUME NEW r \in Row, NEW k, NEW u, NEW n, RowInv(r, k, u, n), r.status \in Live
  PROVE  /\ RowInv(Leased(r), k, u, n)
         /\ Leased(r).lease = "live" /\ Leased(r).epoch = r.epoch + 1
         /\ Leased(r).phase = r.phase /\ Leased(r).slot = r.slot /\ Leased(r).status \in Live
<1>1. PICK d \in Row : d = Deadlined(r)
  BY VerdictTypes
<1>2. /\ RowInv(d, k, u, n) /\ d.status = r.status /\ d.phase = r.phase
      /\ d.epoch = r.epoch /\ d.slot = r.slot /\ d.execD # "unset"
  BY <1>1, DeadlinedRow
<1>3. PICK s \in {"running", d.status} :
        (s # d.status => r.phase = "export") /\ Leased(r) = [d EXCEPT !.lease = "live", !.epoch = d.epoch + 1, !.status = s]
  BY <1>1 DEF Leased
<1>4. Leased(r).lease = "live" /\ Leased(r).epoch = r.epoch + 1
      /\ Leased(r).phase = r.phase /\ Leased(r).slot = r.slot /\ Leased(r).status \in Live
  BY <1>1, <1>2, <1>3 DEF Row, Live
<1>5. RowInv([d EXCEPT !.lease = "live", !.epoch = d.epoch + 1, !.status = s], k, u, n)
  BY <1>1, <1>2, <1>3 DEF Row, RowInv, Live, Recovering
<1> QED BY <1>3, <1>4, <1>5

LEMMA SubmittingRow ==
  ASSUME NEW r \in Row, NEW k, NEW u, NEW n, RowInv(r, k, u, n), r.phase = "submit", r.lease # "none"
  PROVE  /\ RowInv(Submitting(r), k, u, n)
         /\ Submitting(r).lease = r.lease /\ Submitting(r).epoch = r.epoch
         /\ Submitting(r).phase = "submitting" /\ Submitting(r).status = "running"
<1>1. r.attempts + 1 <= r.failures + 1 /\ r.attempts + 1 <= MaxRetries + 1
  BY ConstantsAssumption DEF Row, RowInv
<1> QED BY <1>1 DEF Submitting, Row, RowInv, Live, Recovering, Publishing

\* What a scan, an early return or a cancellation does to an unleased, unfinished row.
Parked(r, s) == /\ s.lease = "none" /\ s.epoch = r.epoch /\ (s.slot => r.slot)
                /\ s.status # "completed"
                /\ r.phase = "submitting" /\ r.slot => s.phase = "submitting" /\ s.status = "unknown"

LEMMA AbandonedRow ==
  ASSUME NEW r \in Row, NEW k, NEW u, NEW n, RowInv(r, k, u, n), r.status \in Live, r.lease = "none"
  PROVE  RowInv(Abandoned(r), k, u, n) /\ Parked(r, Abandoned(r))
<1>1. CASE OccupiesUpstream(r)
  BY <1>1, UnknownRow DEF Abandoned, Parked
<1>2. CASE ~OccupiesUpstream(r)
  BY <1>2, FailedRow DEF Abandoned, Parked, OccupiesUpstream, Failed, Row
<1> QED BY <1>1, <1>2

LEMMA RefusedRow ==
  ASSUME NEW r \in Row, NEW k, NEW u, NEW n, RowInv(r, k, u, n), Claimable(r), ~Grants(r)
  PROVE  RowInv(Refused(r), k, u, n) /\ Parked(r, Refused(r))
<1>1. r.status \in Live /\ r.lease = "none"
  BY DEF Claimable, Live
<1>2. PICK d \in Row : d = Deadlined(r)
  BY VerdictTypes
<1>3. /\ RowInv(d, k, u, n) /\ d.status = r.status /\ d.lease = "none" /\ d.epoch = r.epoch
      /\ d.slot = r.slot /\ d.phase = r.phase
  BY <1>1, <1>2, DeadlinedRow
<1>4. CASE r.phase = "submitting"
  BY <1>1, <1>4, UnknownRow DEF Refused, Parked
<1>5. CASE r.phase # "submitting" /\ CancelPending(r)
  BY <1>1, <1>5, AbandonedRow DEF Refused
<1>6. CASE r.phase # "submitting" /\ ~CancelPending(r) /\ QueueTimeout(r)
  <2>1. ~r.slot
    BY <1>6 DEF QueueTimeout, RowInv
  <2> QED BY <1>1, <1>6, <2>1, FailedRow DEF Refused, Parked, Failed, Row
<1>7. CASE r.phase # "submitting" /\ ~CancelPending(r) /\ ~QueueTimeout(r) /\ Unrecoverable(r)
  <2>1. Refused(r) = Exhausted(d)
    BY <1>2, <1>7 DEF Refused
  <2>2. d.phase \in Recovering
    BY <1>3, <1>7 DEF Unrecoverable
  <2> QED BY <1>1, <1>3, <1>7, <2>1, <2>2, ExhaustedRow DEF Parked, Live
<1>8. CASE /\ r.phase # "submitting" /\ ~CancelPending(r) /\ ~QueueTimeout(r) /\ ~Unrecoverable(r)
           /\ r.phase \in Publishing
  <2>1. Refused(r) = FailedFree(d)
    BY <1>2, <1>8 DEF Refused
  <2>2. u # "running" /\ ~r.slot
    BY <1>8 DEF RowInv, Publishing, Recovering
  <2>3. RowInv(FailedFree(d), k, u, n) /\ FailedFree(d).lease = "none" /\ FailedFree(d).epoch = d.epoch
    BY <1>1, <1>3, <2>2, FailedFreeRow
  <2>4. FailedFree(d).status = "failed" /\ ~FailedFree(d).slot
    BY DEF FailedFree, Row
  <2> QED BY <1>3, <1>8, <2>1, <2>2, <2>3, <2>4 DEF Parked
<1>9. CASE /\ r.phase # "submitting" /\ ~CancelPending(r) /\ ~QueueTimeout(r) /\ ~Unrecoverable(r)
           /\ r.phase \notin Publishing
  <2>1. Refused(r) = Abandoned(d)
    BY <1>2, <1>9 DEF Refused
  <2>2. RowInv(Abandoned(d), k, u, n) /\ Parked(d, Abandoned(d))
    BY <1>1, <1>3, AbandonedRow
  <2> QED BY <1>3, <2>1, <2>2 DEF Parked
<1> QED BY <1>4, <1>5, <1>6, <1>7, <1>8, <1>9

LEMMA ExpiredRow ==
  ASSUME NEW r \in Row, NEW k, NEW u, NEW n, RowInv(r, k, u, n), r.lease = "none", Overdue(r)
  PROVE  RowInv(Expired(r), k, u, n) /\ Parked(r, Expired(r))
<1>1. r.status \in Live
  BY DEF Overdue, Live
<1>2. CASE r.status = "unknown"
  <2>1. r.phase \in Recovering /\ Expired(r) = Exhausted(r)
    BY <1>2 DEF Overdue, Expired
  <2> QED BY <1>2, <2>1, ExhaustedRow DEF Parked, Recovering
<1>3. CASE r.status # "unknown" /\ r.phase \in Publishing
  <2>1. Expired(r) = Failed(r) /\ ~r.slot
    BY <1>3 DEF Expired, RowInv, Publishing, Recovering
  <2> QED BY <1>1, <2>1, FailedRow DEF Parked, Failed, Row
<1>4. CASE r.status # "unknown" /\ r.phase \notin Publishing
  BY <1>1, <1>4, AbandonedRow DEF Expired
<1> QED BY <1>2, <1>3, <1>4

\* What an owner's commit does to the row it leased.
Released(r, s) == /\ s.lease = "none" /\ s.epoch = r.epoch /\ (s.slot => r.slot)
                  /\ s.status # "completed"

LEMMA AdvancedRow ==
  ASSUME NEW r \in Row, NEW k, NEW u, NEW n, RowInv(r, k, u, n), r.lease # "none",
         NEW claimed, NEW next, NEW handle \in BOOLEAN, NEW finished \in BOOLEAN,
         next \in {"submit", "poll", "download", "failed"},
         handle <=> next = "poll",
         finished <=> next \in {"download", "failed"},
         next = "submit" => r.phase = "prepare",
         next = "poll" => r.phase \in {"submitting", "poll"} \cup Recovering,
         next = "download" => u = "done",
         next = "failed" => u # "running"
  PROVE  /\ RowInv(Advanced(r, claimed, next, handle, finished), k, u, n)
         /\ Released(r, Advanced(r, claimed, next, handle, finished))
<1> DEFINE m == [r EXCEPT !.failures = 0, !.lease = "none",
                          !.external = r.external \/ handle, !.slot = r.slot /\ ~finished]
<1>1. /\ m.lease = "none" /\ m.epoch = r.epoch /\ m.slot = (r.slot /\ ~finished) /\ m.status = r.status
      /\ m.failures = 0 /\ m.external = (r.external \/ handle) /\ m.attempts = r.attempts
      /\ m.execD = r.execD /\ m.phase = r.phase /\ r.status \in Live /\ m.downD = r.downD
  BY DEF Row, RowInv
<1>2. Advanced(r, claimed, next, handle, finished) =
        IF claimed \in Recovering /\ next = "poll"
          THEN [m EXCEPT !.phase = "reconcile", !.status = "unknown"]
        ELSE IF next = "download"
          THEN [m EXCEPT !.phase = next, !.status = "running",
                         !.downD = IF m.downD = "unset" THEN "open" ELSE m.downD]
        ELSE IF next = "failed" THEN [m EXCEPT !.phase = next, !.status = "failed"]
        ELSE [m EXCEPT !.phase = next]
  BY DEF Advanced
<1>3. k = "export" => next # "poll"
  BY DEF RowInv, Recovering
<1>4. m \in Row
  <2>1. 0 \in 0..MaxRetries
    BY ConstantsAssumption
  <2>2. (r.external \/ handle) \in BOOLEAN /\ (r.slot /\ ~finished) \in BOOLEAN
    BY DEF Row
  <2> QED BY <2>1, <2>2 DEF Row
<1> HIDE DEF m
<1>5. CASE next = "poll" /\ claimed \in Recovering
  <2>1. Advanced(r, claimed, next, handle, finished) = [m EXCEPT !.phase = "reconcile", !.status = "unknown"]
    BY <1>2, <1>5
  <2> DEFINE s == [m EXCEPT !.phase = "reconcile", !.status = "unknown"]
  <2>2. /\ s.phase = "reconcile" /\ s.status = "unknown" /\ s.lease = "none" /\ s.epoch = r.epoch
        /\ s.slot = r.slot /\ s.external /\ s.attempts = r.attempts /\ s.execD = r.execD /\ k # "export"
    BY <1>1, <1>3, <1>4, <1>5 DEF Row
  <2> HIDE DEF s
  <2>3. RowInv(s, k, u, n) /\ Released(r, s)
    BY <2>2 DEF RowInv, Released, Live, Recovering, Publishing
  <2> QED BY <2>1, <2>3 DEF s
<1>6. CASE next = "poll" /\ claimed \notin Recovering
  <2>1. Advanced(r, claimed, next, handle, finished) = [m EXCEPT !.phase = "poll"]
    BY <1>2, <1>6
  <2> DEFINE s == [m EXCEPT !.phase = "poll"]
  <2>2. /\ s.phase = "poll" /\ s.status = r.status /\ s.lease = "none" /\ s.epoch = r.epoch
        /\ s.slot = r.slot /\ s.external /\ s.attempts = r.attempts /\ s.execD = r.execD /\ k # "export"
    BY <1>1, <1>3, <1>4, <1>6 DEF Row
  <2> HIDE DEF s
  <2>3. RowInv(s, k, u, n) /\ Released(r, s)
    BY <1>1, <2>2 DEF RowInv, Released, Live, Recovering, Publishing
  <2> QED BY <2>1, <2>3 DEF s
<1>7. CASE next = "download"
  <2>1. Advanced(r, claimed, next, handle, finished)
          = [m EXCEPT !.phase = "download", !.status = "running",
                      !.downD = IF m.downD = "unset" THEN "open" ELSE m.downD]
    BY <1>2, <1>7
  <2> DEFINE s == [m EXCEPT !.phase = "download", !.status = "running",
                            !.downD = IF m.downD = "unset" THEN "open" ELSE m.downD]
  <2>2. /\ s.phase = "download" /\ s.status = "running" /\ s.lease = "none" /\ s.epoch = r.epoch
        /\ ~s.slot /\ s.external = r.external /\ s.attempts = r.attempts /\ s.execD = r.execD
    BY <1>1, <1>4, <1>7 DEF Row
  <2> HIDE DEF s
  <2>3. RowInv(s, k, u, n) /\ Released(r, s)
    BY <1>7, <2>2 DEF RowInv, Released, Live, Recovering, Publishing, Delivered
  <2> QED BY <2>1, <2>3 DEF s
<1>8. CASE next = "failed"
  <2>1. Advanced(r, claimed, next, handle, finished) = [m EXCEPT !.phase = "failed", !.status = "failed"]
    BY <1>2, <1>8
  <2> DEFINE s == [m EXCEPT !.phase = "failed", !.status = "failed"]
  <2>2. /\ s.phase = "failed" /\ s.status = "failed" /\ s.lease = "none" /\ s.epoch = r.epoch
        /\ ~s.slot /\ s.external = r.external /\ s.attempts = r.attempts
    BY <1>1, <1>4, <1>8 DEF Row
  <2> HIDE DEF s
  <2>3. RowInv(s, k, u, n) /\ Released(r, s)
    BY <1>8, <2>2 DEF RowInv, Released, Live, Recovering, Publishing
  <2> QED BY <2>1, <2>3 DEF s
<1>9. CASE next = "submit"
  <2>1. Advanced(r, claimed, next, handle, finished) = [m EXCEPT !.phase = "submit"]
    BY <1>2, <1>9
  <2> QED BY <1>1, <1>4, <1>9, <2>1 DEF Row, RowInv, Released, Live, Recovering, Publishing, Delivered
<1> QED BY <1>5, <1>6, <1>7, <1>8, <1>9

LEMMA CompletedRow ==
  ASSUME NEW r \in Row, NEW k, NEW u, NEW n, RowInv(r, k, u, n), Delivered(k, u)
  PROVE  /\ RowInv(Completed(r), k, u, n) /\ Completed(r).lease = "none"
         /\ Completed(r).epoch = r.epoch /\ ~Completed(r).slot
         /\ Completed(r).status = "completed"
BY DEF Completed, Row, RowInv, Live, Recovering, Publishing, Delivered

LEMMA DeferredRow ==
  ASSUME NEW r \in Row, NEW k, NEW u, NEW n, RowInv(r, k, u, n), r.lease # "none"
  PROVE  RowInv(Deferred(r), k, u, n) /\ Released(r, Deferred(r))
BY DEF Deferred, Row, RowInv, Released, Live

LEMMA RefusedAdmissionRow ==
  ASSUME NEW r \in Row, NEW k, NEW u, NEW n, RowInv(r, k, u, n), r.phase = "submit"
  PROVE  LET s == [Failed(r) EXCEPT !.phase = "failed", !.lease = "none"]
         IN  s \in Row /\ RowInv(s, k, u, n) /\ Released(r, s)
<1> DEFINE s == [Failed(r) EXCEPT !.phase = "failed", !.lease = "none"]
<1>1. s = [r EXCEPT !.status = "failed", !.phase = "failed", !.lease = "none"]
  BY DEF Failed, Row
<1>2. s \in Row
  BY <1>1, PhaseFacts DEF Row
<1>3. /\ s.phase = "failed" /\ s.status = "failed" /\ s.lease = "none" /\ s.epoch = r.epoch
      /\ s.slot = r.slot /\ s.external = r.external /\ s.attempts = r.attempts /\ ~r.slot
  BY <1>1 DEF Row, RowInv, Recovering
<1> HIDE DEF s
<1>4. RowInv(s, k, u, n) /\ Released(r, s)
  BY <1>3 DEF RowInv, Released, Live, Recovering, Publishing
<1> USE DEF s
<1> QED BY <1>2, <1>4

LEMMA AfterFailureRow ==
  ASSUME NEW r \in Row, NEW k, NEW u, NEW n, RowInv(r, k, u, n), r.lease # "none",
         NEW failure \in Failures,
         failure = "retryable" /\ r.phase = "submitting" => n = 0,
         failure = "permanent" /\ r.phase = "submitting" => u # "running",
         r.phase \in {"prepare", "submit", "submitting", "poll", "export"} \cup Recovering \cup Publishing
  PROVE  RowInv(AfterFailure(r, failure), k, u, n) /\ Released(r, AfterFailure(r, failure))
<1>0. r.status \in Live
  BY DEF RowInv
<1>1. CASE failure = "uncertain"
  BY <1>0, <1>1, UnknownRow DEF AfterFailure, Released
<1> DEFINE free == [r EXCEPT !.lease = "none"]
<1>2. CASE failure = "retryable" /\ r.failures < MaxRetries /\ r.phase = "submitting"
  <2>1. AfterFailure(r, failure) = [free EXCEPT !.failures = free.failures + 1, !.phase = "submit", !.slot = FALSE]
    BY <1>2 DEF AfterFailure
  <2> DEFINE s == [free EXCEPT !.failures = free.failures + 1, !.phase = "submit", !.slot = FALSE]
  <2>2. /\ s.phase = "submit" /\ s.status = r.status /\ s.lease = "none" /\ s.epoch = r.epoch
        /\ ~s.slot /\ s.external = r.external /\ s.attempts = r.attempts /\ s.failures = r.failures + 1
        /\ r.attempts \in Nat /\ r.failures \in Nat
    BY ConstantsAssumption DEF Row
  <2> HIDE DEF s
  <2>3. RowInv(s, k, u, n) /\ Released(r, s)
    BY <1>0, <1>2, <2>2 DEF RowInv, Released, Live, Recovering, Publishing
  <2> QED BY <2>1, <2>3 DEF s
<1>3. CASE failure = "retryable" /\ r.failures < MaxRetries /\ r.phase # "submitting"
  <2>1. AfterFailure(r, failure) = [free EXCEPT !.failures = free.failures + 1]
    BY <1>3 DEF AfterFailure
  <2> DEFINE s == [free EXCEPT !.failures = free.failures + 1]
  <2>2. /\ s.phase = r.phase /\ s.status = r.status /\ s.lease = "none" /\ s.epoch = r.epoch
        /\ s.slot = r.slot /\ s.external = r.external /\ s.attempts = r.attempts /\ s.failures = r.failures + 1
        /\ r.attempts \in Nat /\ r.failures \in Nat /\ s.execD = r.execD
    BY ConstantsAssumption DEF Row
  <2> HIDE DEF s
  <2>3. RowInv(s, k, u, n) /\ Released(r, s)
    BY <1>0, <1>3, <2>2 DEF RowInv, Released, Live, Recovering, Publishing
  <2> QED BY <2>1, <2>3 DEF s
<1>4. ASSUME failure # "uncertain", ~(failure = "retryable" /\ r.failures < MaxRetries),
             r.external /\ r.phase \in {"poll", "cancel", "reconcile"}
      PROVE  RowInv(AfterFailure(r, failure), k, u, n) /\ Released(r, AfterFailure(r, failure))
  BY <1>0, <1>4, UnknownRow DEF AfterFailure, Released
<1>5. ASSUME failure # "uncertain", ~(failure = "retryable" /\ r.failures < MaxRetries),
             ~(r.external /\ r.phase \in {"poll", "cancel", "reconcile"})
      PROVE  RowInv(AfterFailure(r, failure), k, u, n) /\ Released(r, AfterFailure(r, failure))
  <2>1. AfterFailure(r, failure) = FailedFree(free)
    BY <1>5 DEF AfterFailure
  <2>2. u # "running"
    BY <1>0, <1>5 DEF RowInv, Failures, Recovering, Publishing
  <2>3. FailedFree(free) = [r EXCEPT !.lease = "none", !.status = "failed", !.slot = FALSE]
    BY DEF FailedFree, Row
  <2>4. /\ RowInv([r EXCEPT !.lease = "none", !.status = "failed", !.slot = FALSE], k, u, n)
        /\ Released(r, [r EXCEPT !.lease = "none", !.status = "failed", !.slot = FALSE])
    BY <1>0, <2>2 DEF Row, RowInv, Released, Live, Recovering, Publishing
  <2> QED BY <2>1, <2>3, <2>4
<1> QED BY <1>1, <1>2, <1>3, <1>4, <1>5

\* What leaves a row to its owner: only marks and clocks change.
Kept(r, s) == /\ (s.lease = "none") = (r.lease = "none") /\ s.epoch = r.epoch
              /\ s.slot = r.slot /\ s.status = r.status /\ s.phase = r.phase

LEMMA MarkedRow ==
  ASSUME NEW r \in Row, NEW k, NEW u, NEW n, RowInv(r, k, u, n), NEW s \in Row,
         NEW d \in Clock,
         \/ s = [r EXCEPT !.cancel = TRUE]
         \/ r.lease # "none" /\ s = [r EXCEPT !.lease = "expired"]
         \/ s = [r EXCEPT !.queueD = d]
         \/ d # "unset" /\ s = [r EXCEPT !.execD = d]
         \/ s = [r EXCEPT !.downD = d]
         \/ s = [r EXCEPT !.recD = d]
  PROVE  RowInv(s, k, u, n) /\ Kept(r, s)
<1>1. /\ Kept(r, s) /\ s.external = r.external /\ s.attempts = r.attempts
      /\ s.failures = r.failures /\ (r.execD # "unset" => s.execD # "unset")
  BY DEF Row, Kept
<1> QED BY <1>1 DEF RowInv, Kept

LEMMA CancelledRow ==
  ASSUME NEW r \in Row, NEW k, NEW u, NEW n, RowInv(r, k, u, n), NEW video \in BOOLEAN
  PROVE  /\ RowInv(Cancelled(r, video), k, u, n)
         /\ \/ Kept(r, Cancelled(r, video))
            \/ r.lease = "none" /\ r.status \in Live /\ Parked(r, Cancelled(r, video))
<1>1. CASE r.status \in {"completed", "failed"}
  BY <1>1 DEF Cancelled, Kept
<1> DEFINE asked == [r EXCEPT !.cancel = TRUE]
<1>2. asked \in Row /\ RowInv(asked, k, u, n) /\ Kept(r, asked) /\ asked.external = r.external
  <2>1. asked \in Row /\ asked.external = r.external
    BY DEF Row
  <2> QED BY <2>1, MarkedRow, ClockFacts DEF Clock
<1> HIDE DEF asked
<1>3. CASE r.status \notin {"completed", "failed"} /\ r.lease # "none"
  BY <1>2, <1>3 DEF Cancelled, asked
<1>4. ASSUME r.status \notin {"completed", "failed"}, r.lease = "none", r.external
      PROVE  RowInv(Cancelled(r, video), k, u, n) /\ Parked(r, Cancelled(r, video)) /\ r.status \in Live
  <2>1. r.status \in Live
    BY <1>4 DEF Row
  <2>2. PICK p \in Row : p = Unknown(asked)
    BY <1>2, UnknownType
  <2>3. /\ RowInv(p, k, u, n) /\ p.lease = "none" /\ p.epoch = r.epoch /\ p.slot = r.slot
        /\ p.status = "unknown" /\ (r.phase = "submitting" => p.phase = "submitting")
    BY <1>2, <2>1, <2>2, UnknownRow DEF Kept
  <2>4. p.external
    BY <1>2, <1>4, <2>2 DEF Unknown, Row
  <2>5. CASE video
    <3>1. Cancelled(r, video) = [p EXCEPT !.phase = "cancel"]
      BY <1>4, <2>2, <2>5 DEF Cancelled, asked
    <3> DEFINE s == [p EXCEPT !.phase = "cancel"]
    <3>2. /\ s.phase = "cancel" /\ s.status = "unknown" /\ s.lease = "none" /\ s.epoch = r.epoch
          /\ s.slot = r.slot /\ s.external /\ s.attempts = p.attempts /\ s.execD = p.execD
      BY <2>3, <2>4 DEF Row
    <3> HIDE DEF s
    <3>3. RowInv(s, k, u, n)
      BY <2>3, <3>2, <2>4 DEF RowInv, Live, Recovering, Publishing
    <3>4. r.phase # "submitting"
      BY <1>4, <2>1 DEF RowInv
    <3> QED BY <2>1, <3>1, <3>2, <3>3, <3>4 DEF s, Parked
  <2>6. CASE ~video
    <3>1. Cancelled(r, video) = p
      BY <1>4, <2>2, <2>6 DEF Cancelled, asked
    <3> QED BY <2>1, <2>3, <3>1 DEF Parked
  <2> QED BY <2>5, <2>6
<1>5. ASSUME r.status \notin {"completed", "failed"}, r.lease = "none", ~r.external,
             r.slot \/ r.phase = "submitting"
      PROVE  RowInv(Cancelled(r, video), k, u, n) /\ Parked(r, Cancelled(r, video)) /\ r.status \in Live
  <2>1. r.status \in Live
    BY <1>5 DEF Row
  <2>2. Cancelled(r, video) = Unknown(asked)
    BY <1>5 DEF Cancelled, asked
  <2> QED BY <1>2, <2>1, <2>2, UnknownRow DEF Parked, Kept
<1>6. ASSUME r.status \notin {"completed", "failed"}, r.lease = "none", ~r.external,
             ~(r.slot \/ r.phase = "submitting")
      PROVE  RowInv(Cancelled(r, video), k, u, n) /\ Parked(r, Cancelled(r, video)) /\ r.status \in Live
  <2>1. r.status \in Live
    BY <1>6 DEF Row
  <2>2. Cancelled(r, video) = Failed(asked)
    BY <1>6 DEF Cancelled, asked
  <2>3. RowInv(Failed(asked), k, u, n) /\ Failed(asked).lease = "none" /\ Failed(asked).epoch = r.epoch
    BY <1>2, <1>6, <2>1, FailedRow DEF Kept
  <2>4. Failed(asked).status = "failed" /\ ~Failed(asked).slot
    BY <1>2, <1>6 DEF Failed, Row, Kept
  <2> QED BY <1>6, <2>1, <2>2, <2>3, <2>4 DEF Parked
<1> QED BY <1>1, <1>3, <1>4, <1>5, <1>6

LEMMA RecoveredRow ==
  ASSUME NEW r \in Row, NEW k, NEW u, NEW n, RowInv(r, k, u, n), NEW seen \in BOOLEAN,
         r.status \in Live, seen => Delivered(k, u)
  PROVE  LET s == Recovered(r, seen)
         IN  /\ RowInv(s, k, u, n) /\ s.lease = "none" /\ s.epoch = r.epoch + 1 /\ (s.slot => r.slot)
             /\ s.status # "completed"
             /\ ~seen /\ r.phase = "submitting" => s.phase = "submitting" /\ s.status \in Live
<1> DEFINE fenced == [r EXCEPT !.epoch = r.epoch + 1, !.lease = "none"]
<1>1. /\ fenced.phase = r.phase /\ fenced.status = r.status /\ fenced.lease = "none"
      /\ fenced.epoch = r.epoch + 1 /\ fenced.slot = r.slot /\ fenced.external = r.external
      /\ fenced.attempts = r.attempts /\ fenced.failures = r.failures /\ fenced.execD = r.execD
  BY DEF Row
<1>2. fenced \in Row
  <2>1. r.epoch + 1 \in Nat
    BY DEF Row
  <2> QED BY <2>1 DEF Row
<1> HIDE DEF fenced
<1>3. RowInv(fenced, k, u, n)
  BY <1>1 DEF RowInv
<1>4. CASE seen
  <2>1. Recovered(r, seen) =
          [fenced EXCEPT !.phase = "persist", !.slot = FALSE,
                         !.downD = IF fenced.downD = "unset" THEN "open" ELSE fenced.downD]
    BY <1>4 DEF Recovered, fenced
  <2> DEFINE s == [fenced EXCEPT !.phase = "persist", !.slot = FALSE,
                         !.downD = IF fenced.downD = "unset" THEN "open" ELSE fenced.downD]
  <2>2. /\ s.phase = "persist" /\ s.status = r.status /\ s.lease = "none" /\ s.epoch = r.epoch + 1
        /\ ~s.slot /\ s.external = r.external /\ s.attempts = r.attempts
    BY <1>1, <1>2 DEF Row
  <2> HIDE DEF s
  <2>3. RowInv(s, k, u, n)
    BY <1>4, <2>2 DEF RowInv, Live, Recovering, Publishing, Delivered
  <2> QED BY <1>4, <2>1, <2>2, <2>3 DEF s, Live
<1>5. CASE ~seen /\ r.phase = "submitting"
  <2>1. Recovered(r, seen) = Unknown(fenced)
    BY <1>1, <1>5 DEF Recovered, fenced
  <2> QED BY <1>1, <1>2, <1>3, <1>5, <2>1, UnknownRow DEF Live
<1>6. CASE ~seen /\ r.phase # "submitting"
  <2>1. Recovered(r, seen) = fenced
    BY <1>1, <1>6 DEF Recovered, fenced
  <2> QED BY <1>1, <1>3, <1>6, <2>1 DEF Live
<1> QED BY <1>4, <1>5, <1>6

LEMMA StoppedRow ==
  ASSUME NEW r \in Row, NEW k, NEW u, NEW n, RowInv(r, k, u, n), r.lease = "none",
         r.status = "unknown", u # "running"
  PROVE  LET s == [FailedFree(r) EXCEPT !.phase = "audited_stopped", !.epoch = @ + 1]
         IN  /\ s \in Row /\ RowInv(s, k, u, n) /\ s.lease = "none" /\ s.epoch = r.epoch + 1
             /\ ~s.slot /\ s.status = "failed"
<1> DEFINE s == [FailedFree(r) EXCEPT !.phase = "audited_stopped", !.epoch = @ + 1]
<1>1. s = [r EXCEPT !.status = "failed", !.slot = FALSE, !.phase = "audited_stopped",
                    !.epoch = r.epoch + 1]
  BY DEF FailedFree, Row
<1>2. s \in Row
  <2>1. r.epoch + 1 \in Nat
    BY DEF Row
  <2> QED BY <1>1, <2>1, PhaseFacts DEF Row
<1>3. /\ s.phase = "audited_stopped" /\ s.status = "failed" /\ s.lease = "none" /\ s.epoch = r.epoch + 1
      /\ ~s.slot /\ s.external = r.external /\ s.attempts = r.attempts
  BY <1>1 DEF Row
<1> HIDE DEF s
<1>4. RowInv(s, k, u, n)
  BY <1>3 DEF RowInv, Live, Recovering, Publishing
<1> USE DEF s
<1> QED BY <1>2, <1>3, <1>4

LEMMA ResumedRow ==
  ASSUME NEW r \in Row, NEW k, NEW u, NEW n, RowInv(r, k, u, n), r.lease = "none",
         r.status = "unknown", r.external
  PROVE  LET s == [r EXCEPT !.phase = "reconcile", !.recD = "open", !.epoch = @ + 1]
         IN  /\ s \in Row /\ RowInv(s, k, u, n) /\ s.lease = "none" /\ s.epoch = r.epoch + 1
             /\ s.slot = r.slot /\ s.status = "unknown"
<1> DEFINE s == [r EXCEPT !.phase = "reconcile", !.recD = "open", !.epoch = @ + 1]
<1>1. s \in Row
  <2>1. r.epoch + 1 \in Nat
    BY DEF Row
  <2> QED BY <2>1, PhaseFacts, ClockFacts DEF Row
<1>2. /\ s.phase = "reconcile" /\ s.status = "unknown" /\ s.lease = "none" /\ s.epoch = r.epoch + 1
      /\ s.slot = r.slot /\ s.external /\ s.attempts = r.attempts /\ s.execD = r.execD
  BY DEF Row
<1> HIDE DEF s
<1>3. RowInv(s, k, u, n)
  BY <1>2 DEF RowInv, Live, Recovering, Publishing
<1> USE DEF s
<1> QED BY <1>1, <1>2, <1>3

-----------------------------------------------------------------------------
(* A claim under a step of somebody else.                                  *)

LEMMA KeptClaim ==
  ASSUME NEW c, NEW r, NEW s, NEW k, NEW u, NEW n, ClaimInv(c, r, k, u, n), Kept(r, s)
  PROVE  ClaimInv(c, s, k, u, n)
<1>1. /\ s.epoch = r.epoch /\ s.status = r.status /\ s.phase = r.phase
      /\ s.lease = "none" <=> r.lease = "none"
  BY DEF Kept
<1>2. Current(c, s) <=> Current(c, r)
  BY <1>1 DEF Current
<1> QED BY <1>1, <1>2 DEF ClaimInv

\* A claim that is not the newest any more only has to remember what it was told.
LEMMA FencedClaim ==
  ASSUME NEW c, NEW r, NEW s, NEW k, NEW u, NEW n, ClaimInv(c, r, k, u, n),
         c.epoch \in Nat, s.epoch \in Nat, c.epoch < s.epoch,
         c.at = "calling" => s.phase = "submitting" /\ s.status \in Live /\ s.lease = "none"
  PROVE  ClaimInv(c, s, k, u, n)
<1>1. ~Current(c, s)
  BY DEF Current
<1>2. c.epoch <= s.epoch
  OBVIOUS
<1> QED BY <1>1, <1>2 DEF ClaimInv

LEMMA EndedUpstream ==
  ASSUME NEW r, NEW k, NEW n, NEW end \in {"done", "failed"}
  PROVE  /\ RowInv(r, k, "running", n) => RowInv(r, k, end, n)
         /\ \A c : ClaimInv(c, r, k, "running", n) => ClaimInv(c, r, k, end, n)
         /\ Delivered(k, "running") => Delivered(k, end)
<1>1. Delivered(k, "running") => Delivered(k, end)
  BY DEF Delivered
<1>2. RowInv(r, k, "running", n) => RowInv(r, k, end, n)
  BY <1>1 DEF RowInv
<1>3. ASSUME NEW c, ClaimInv(c, r, k, "running", n) PROVE ClaimInv(c, r, k, end, n)
  BY <1>1, <1>3 DEF ClaimInv
<1> QED BY <1>1, <1>2, <1>3

-----------------------------------------------------------------------------
(* Occupancy.                                                              *)

LEMMA SlotsShrink ==
  ASSUME SlotsBounded, NEW j \in Job, NEW s, TypeOK, job' = [job EXCEPT ![j] = s],
         s.slot => job[j].slot
  PROVE  SlotsBounded'
<1> DEFINE S == {i \in Job : job[i].slot}
           T == {i \in Job : job'[i].slot}
<1>1. T \subseteq S
  BY DEF TypeOK
<1>2. IsFiniteSet(S)
  BY FiniteJobs, FS_Subset
<1>3. Cardinality(T) <= Cardinality(S) /\ Cardinality(T) \in Nat /\ Cardinality(S) \in Nat
  BY <1>1, <1>2, FS_Subset, FS_CardinalityType
<1> QED BY <1>3, ConstantsAssumption DEF SlotsBounded, Occupied

LEMMA SlotTaken ==
  ASSUME NEW j \in Job, NEW s, TypeOK, job' = [job EXCEPT ![j] = s], Occupied < SlotLimit
  PROVE  SlotsBounded'
<1> DEFINE S == {i \in Job : job[i].slot}
           T == {i \in Job : job'[i].slot}
<1>1. T \subseteq S \cup {j}
  BY DEF TypeOK
<1>2. IsFiniteSet(S) /\ IsFiniteSet(S \cup {j})
  BY FiniteJobs, FS_Subset, FS_AddElement
<1> HIDE DEF S, T
<1>3. Cardinality(S \cup {j}) <= Cardinality(S) + 1 /\ Cardinality(S) \in Nat
  BY <1>2, FS_AddElement, FS_CardinalityType
<1>4. Cardinality(T) <= Cardinality(S \cup {j}) /\ Cardinality(T) \in Nat
       /\ Cardinality(S \cup {j}) \in Nat
  BY <1>1, <1>2, FS_Subset, FS_CardinalityType
<1> QED BY <1>3, <1>4, ConstantsAssumption DEF SlotsBounded, Occupied, S, T

-----------------------------------------------------------------------------
(* Kinds of steps that keep IInv.                                          *)

\* A scan, a cancellation, an audit or an early return changes one row.
LEMMA RowStep ==
  ASSUME IInv, NEW j \in Job, NEW s \in Row, job' = [job EXCEPT ![j] = s],
         UNCHANGED <<worker, upstream, started, receipts, assets>>,
         RowInv(s, Kind[j], upstream[j], started[j]),
         s.slot => job[j].slot,
         s.status = "completed" <=> job[j].status = "completed",
         \A w \in Worker : worker[w].at # "idle" /\ worker[w].job = j
           => ClaimInv(worker[w], s, Kind[j], upstream[j], started[j])
  PROVE  IInv'
<1>1. TypeOK'
  BY DEF IInv, TypeOK
<1>2. job'[j] = s /\ \A i \in Job : i # j => job'[i] = job[i]
  BY DEF IInv, TypeOK
<1>3. RowsInv'
  BY <1>2 DEF IInv, RowsInv
<1>4. ClaimsInv'
  BY <1>2 DEF IInv, ClaimsInv
<1>5. EpochsDiffer' /\ OneRequest' /\ ReceiptsInv'
  BY DEF IInv, EpochsDiffer, OneRequest, ReceiptsInv
<1>6. SlotsBounded'
  BY SlotsShrink DEF IInv
<1>7. OneAssetPerCompletedJob'
  BY <1>2 DEF IInv, OneAssetPerCompletedJob
<1> QED BY <1>1, <1>3, <1>4, <1>5, <1>6, <1>7 DEF IInv

\* The row is left unleased: nobody's claim is the newest any more.
LEMMA UnleasedStep ==
  ASSUME IInv, NEW j \in Job, NEW s \in Row, job' = [job EXCEPT ![j] = s],
         UNCHANGED <<worker, upstream, started, receipts, assets>>,
         RowInv(s, Kind[j], upstream[j], started[j]),
         s.slot => job[j].slot,
         job[j].status # "completed", s.status # "completed",
         s.lease = "none", s.epoch >= job[j].epoch,
         job[j].lease # "none" => s.epoch > job[j].epoch,
         \A w \in Worker : worker[w].at = "calling" /\ worker[w].job = j
           => s.phase = "submitting" /\ s.status \in Live
  PROVE  IInv'
<1>1. ASSUME NEW w \in Worker, worker[w].at # "idle", worker[w].job = j
      PROVE  ClaimInv(worker[w], s, Kind[j], upstream[j], started[j])
  <2>1. ClaimInv(worker[w], job[j], Kind[j], upstream[j], started[j])
    BY <1>1 DEF IInv, ClaimsInv
  <2>2. worker[w].epoch \in Nat /\ s.epoch \in Nat /\ job[j].epoch \in Nat
    BY DEF IInv, TypeOK, WorkerState, Row
  <2>3. worker[w].epoch < s.epoch
    BY <2>1, <2>2 DEF ClaimInv
  <2> QED BY <1>1, <2>1, <2>2, <2>3, FencedClaim
<1> QED BY <1>1, RowStep

LEMMA CallingFacts ==
  ASSUME IInv, NEW w \in Worker, worker[w].at = "calling"
  PROVE  LET j == worker[w].job IN
         /\ j \in Job /\ job[j].phase = "submitting" /\ job[j].status \in Live
         /\ job[j].slot /\ ~job[j].external /\ started[j] = 0 /\ upstream[j] = "none"
<1>1. /\ worker[w].job \in Job
      /\ ClaimInv(worker[w], job[worker[w].job], Kind[worker[w].job],
                  upstream[worker[w].job], started[worker[w].job])
      /\ RowInv(job[worker[w].job], Kind[worker[w].job],
                  upstream[worker[w].job], started[worker[w].job])
  BY DEF IInv, ClaimsInv, RowsInv
<1> QED BY <1>1 DEF ClaimInv, RowInv

LEMMA ParkedStep ==
  ASSUME IInv, NEW j \in Job, NEW s \in Row, job' = [job EXCEPT ![j] = s],
         UNCHANGED <<worker, upstream, started, receipts, assets>>,
         RowInv(s, Kind[j], upstream[j], started[j]),
         job[j].lease = "none", job[j].status \in Live, Parked(job[j], s)
  PROVE  IInv'
<1>1. \A w \in Worker : worker[w].at = "calling" /\ worker[w].job = j
        => s.phase = "submitting" /\ s.status \in Live
  BY CallingFacts DEF Parked, Live
<1>2. s.epoch \in Nat /\ job[j].epoch \in Nat
  BY DEF IInv, TypeOK, Row
<1>3. /\ s.lease = "none" /\ s.epoch = job[j].epoch /\ (s.slot => job[j].slot)
      /\ s.status # "completed" /\ job[j].status # "completed"
  BY DEF Parked, Live
<1>4. s.epoch >= job[j].epoch
  BY <1>2, <1>3
<1> QED BY <1>1, <1>3, <1>4, UnleasedStep

LEMMA KeptStep ==
  ASSUME IInv, NEW j \in Job, NEW s \in Row, job' = [job EXCEPT ![j] = s],
         UNCHANGED <<worker, upstream, started, receipts, assets>>,
         RowInv(s, Kind[j], upstream[j], started[j]), Kept(job[j], s)
  PROVE  IInv'
<1>1. ASSUME NEW w \in Worker, worker[w].at # "idle", worker[w].job = j
      PROVE  ClaimInv(worker[w], s, Kind[j], upstream[j], started[j])
  BY <1>1, KeptClaim DEF IInv, ClaimsInv
<1>2. (s.slot => job[j].slot) /\ (s.status = "completed" <=> job[j].status = "completed")
  BY DEF Kept
<1> QED BY <1>1, <1>2, RowStep

\* A process drops its claim.
LEMMA DropStep ==
  ASSUME IInv, NEW w \in Worker, worker' = [worker EXCEPT ![w] = Idle],
         UNCHANGED <<job, upstream, started, receipts, assets>>
  PROVE  IInv'
<1>1. Idle \in WorkerState
  BY PhaseFacts DEF Idle, WorkerState
<1>2. TypeOK'
  BY <1>1 DEF IInv, TypeOK
<1>3. worker'[w].at = "idle" /\ \A v \in Worker : v # w => worker'[v] = worker[v]
  BY DEF IInv, TypeOK, Idle
<1>4. RowsInv' /\ ReceiptsInv' /\ SlotsBounded' /\ OneAssetPerCompletedJob'
  BY DEF IInv, RowsInv, ReceiptsInv, SlotsBounded, Occupied, OneAssetPerCompletedJob
<1>5. ClaimsInv'
  BY <1>3 DEF IInv, ClaimsInv
<1>6. EpochsDiffer' /\ OneRequest'
  BY <1>3 DEF IInv, EpochsDiffer, OneRequest
<1> QED BY <1>2, <1>4, <1>5, <1>6 DEF IInv

\* A process goes on with its claim and learns something.
LEMMA ClaimStep ==
  ASSUME IInv, NEW w \in Worker, NEW c \in WorkerState, worker' = [worker EXCEPT ![w] = c],
         UNCHANGED <<job, upstream, started, assets>>,
         receipts' \subseteq Job \X Nat, ReceiptsInv',
         worker[w].at # "idle", c.job = worker[w].job, c.epoch = worker[w].epoch,
         c.at # "calling",
         ClaimInv(c, job[c.job], Kind[c.job], upstream[c.job], started[c.job])
  PROVE  IInv'
<1>1. TypeOK'
  BY DEF IInv, TypeOK
<1>2. worker'[w] = c /\ \A v \in Worker : v # w => worker'[v] = worker[v]
  BY DEF IInv, TypeOK
<1>3. RowsInv' /\ SlotsBounded' /\ OneAssetPerCompletedJob'
  BY DEF IInv, RowsInv, SlotsBounded, Occupied, OneAssetPerCompletedJob
<1>4. ClaimsInv'
  BY <1>2 DEF IInv, ClaimsInv
<1>5. EpochsDiffer' /\ OneRequest'
  BY <1>2 DEF IInv, EpochsDiffer, OneRequest
<1> QED BY <1>1, <1>3, <1>4, <1>5 DEF IInv

\* The owner commits and gives the lease back.
LEMMA CommitStep ==
  ASSUME IInv, NEW w \in Worker, Owned(w), NEW s \in Row,
         job' = [job EXCEPT ![worker[w].job] = s],
         worker' = [worker EXCEPT ![w] = Idle],
         UNCHANGED <<upstream, started, receipts>>,
         RowInv(s, Kind[worker[w].job], upstream[worker[w].job], started[worker[w].job]),
         s.slot => job[worker[w].job].slot,
         s.lease = "none", s.epoch = job[worker[w].job].epoch,
         assets' = [assets EXCEPT ![worker[w].job] = IF s.status = "completed" THEN @ + 1 ELSE @]
  PROVE  IInv'
<1> DEFINE j == worker[w].job
<1>1. j \in Job /\ job[j].lease = "live" /\ worker[w].epoch = job[j].epoch /\ worker[w].at # "idle"
  BY DEF Owned, IInv, ClaimsInv
<1>2. job[j].status # "completed"
  BY <1>1 DEF IInv, RowsInv, RowInv, Live
<1>3. assets[j] = 0
  BY <1>1, <1>2 DEF IInv, OneAssetPerCompletedJob
<1>4. Idle \in WorkerState
  BY PhaseFacts DEF Idle, WorkerState
<1>5. TypeOK'
  <2>1. assets' \in [Job -> Nat]
    BY <1>1, <1>3 DEF IInv, TypeOK
  <2> QED BY <1>1, <1>4, <2>1 DEF IInv, TypeOK
<1>6. job'[j] = s /\ \A i \in Job : i # j => job'[i] = job[i]
  BY <1>1 DEF IInv, TypeOK
<1>7. worker'[w].at = "idle" /\ \A v \in Worker : v # w => worker'[v] = worker[v]
  BY DEF IInv, TypeOK, Idle
<1>8. RowsInv'
  BY <1>1, <1>6 DEF IInv, RowsInv
<1>9. ClaimsInv'
  <2>1. ASSUME NEW v \in Worker, worker'[v].at # "idle", worker'[v].job = j
        PROVE  ClaimInv(worker[v], s, Kind[j], upstream[j], started[j])
    <3>1. v # w /\ worker'[v] = worker[v]
      BY <1>7, <2>1
    <3>2. ClaimInv(worker[v], job[j], Kind[j], upstream[j], started[j])
      BY <2>1, <3>1 DEF IInv, ClaimsInv
    <3>3. worker[v].epoch # job[j].epoch
      BY <1>1, <2>1, <3>1 DEF IInv, EpochsDiffer
    <3>4. worker[v].epoch \in Nat /\ s.epoch \in Nat
      BY DEF IInv, TypeOK, WorkerState, Row
    <3>5. worker[v].epoch < s.epoch
      BY <3>2, <3>3, <3>4 DEF ClaimInv
    <3>6. worker[v].at # "calling"
      BY <1>1, <3>2, <3>3 DEF ClaimInv
    <3> QED BY <3>2, <3>4, <3>5, <3>6, FencedClaim
  <2>2. ASSUME NEW v \in Worker, worker'[v].at # "idle"
        PROVE  worker'[v] = worker[v] /\ worker[v].job \in Job
               /\ ClaimInv(worker[v], job[worker[v].job], Kind[worker[v].job],
                           upstream[worker[v].job], started[worker[v].job])
    BY <1>7, <2>2 DEF IInv, ClaimsInv
  <2> QED BY <1>6, <2>1, <2>2 DEF ClaimsInv
<1>10. EpochsDiffer' /\ OneRequest'
  BY <1>7 DEF IInv, EpochsDiffer, OneRequest
<1>11. ReceiptsInv'
  BY DEF IInv, ReceiptsInv
<1>12. SlotsBounded'
  BY <1>1, SlotsShrink DEF IInv
<1>13. OneAssetPerCompletedJob'
  BY <1>1, <1>2, <1>3, <1>6 DEF IInv, TypeOK, OneAssetPerCompletedJob
<1> QED BY <1>5, <1>8, <1>9, <1>10, <1>11, <1>12, <1>13 DEF IInv

-----------------------------------------------------------------------------
(* The actions.                                                            *)

\* What IInv says of one row and of one claim.
LEMMA RowFacts ==
  ASSUME IInv, NEW j \in Job
  PROVE  /\ job[j] \in Row /\ RowInv(job[j], Kind[j], upstream[j], started[j])
         /\ Kind[j] \in Kinds /\ upstream[j] \in {"none", "running", "done", "failed"}
         /\ started[j] \in Nat
BY ConstantsAssumption DEF IInv, TypeOK, RowsInv

LEMMA ClaimFacts ==
  ASSUME IInv, NEW w \in Worker, worker[w].at # "idle"
  PROVE  /\ worker[w] \in WorkerState /\ worker[w].job \in Job
         /\ ClaimInv(worker[w], job[worker[w].job], Kind[worker[w].job],
                     upstream[worker[w].job], started[worker[w].job])
BY DEF IInv, TypeOK, ClaimsInv

LEMMA InitIInv == Init => IInv
<1> SUFFICES ASSUME Init PROVE IInv
  OBVIOUS
<1>1. \A j \in Job : Accepted(j) \in Row
  BY ConstantsAssumption, PhaseFacts, ClockFacts, LiveFacts DEF Accepted, Row
<1>2. Idle \in WorkerState
  BY PhaseFacts DEF Idle, WorkerState
<1>3. TypeOK
  BY <1>1, <1>2 DEF Init, TypeOK
<1>4. RowsInv
  <2>1. ASSUME NEW j \in Job PROVE RowInv(Accepted(j), Kind[j], "none", 0)
    BY ConstantsAssumption DEF Accepted, RowInv, Live, Recovering, Publishing, Delivered
  <2> QED BY <2>1 DEF Init, RowsInv
<1>5. ClaimsInv /\ EpochsDiffer /\ OneRequest /\ ReceiptsInv
  BY DEF Init, ClaimsInv, EpochsDiffer, OneRequest, ReceiptsInv, Idle
<1>6. SlotsBounded
  <2>1. {j \in Job : job[j].slot} = {}
    BY DEF Init, Accepted
  <2> QED BY <2>1, FS_EmptySet, ConstantsAssumption DEF SlotsBounded, Occupied
<1>7. OneAssetPerCompletedJob
  BY DEF Init, OneAssetPerCompletedJob, Accepted
<1> QED BY <1>3, <1>4, <1>5, <1>6, <1>7 DEF IInv

LEMMA ClaimKeeps ==
  ASSUME IInv, NEW w \in Worker, NEW j \in Job, Claim(w, j) PROVE IInv'
<1> USE RowFacts
<1>1. job[j].lease = "none" /\ job[j].status \in Live
  BY DEF Claim, Claimable, Live
<1>2. CASE ~Grants(job[j])
  <2>1. job' = [job EXCEPT ![j] = Refused(job[j])] /\ worker' = worker /\ Claimable(job[j])
    BY <1>2 DEF Claim, Put
  <2>2. RowInv(Refused(job[j]), Kind[j], upstream[j], started[j]) /\ Parked(job[j], Refused(job[j]))
    BY <1>2, <2>1, RefusedRow
  <2>3. Refused(job[j]) \in Row
    BY RefusedType
  <2>4. UNCHANGED <<worker, upstream, started, receipts, assets>>
    BY <2>1 DEF Claim
  <2> QED BY <1>1, <2>1, <2>2, <2>3, <2>4, ParkedStep
<1>3. CASE Grants(job[j])
  <2> DEFINE s == Leased(job[j])
             c == [at |-> "claimed", job |-> j, epoch |-> job[j].epoch + 1,
                   phase |-> job[j].phase, answer |-> "none"]
  <2>1. /\ job' = [job EXCEPT ![j] = s] /\ worker' = [worker EXCEPT ![w] = c]
        /\ worker[w].at = "idle" /\ UNCHANGED <<upstream, started, receipts, assets>>
    BY <1>3 DEF Claim, Put
  <2>2. s \in Row /\ RowInv(s, Kind[j], upstream[j], started[j])
    BY <1>1, LeasedRow, LeasedType
  <2>3. /\ s.lease = "live" /\ s.epoch = job[j].epoch + 1 /\ s.phase = job[j].phase
        /\ s.slot = job[j].slot /\ s.status \in Live
    BY <1>1, LeasedRow
  <2>4. job[j].epoch \in Nat /\ job[j].epoch + 1 \in Nat /\ job[j].phase \in Phases
    BY DEF Row
  <2>5. c \in WorkerState
    BY <2>4 DEF WorkerState
  <2> HIDE DEF s
  <2>6. job'[j] = s /\ \A i \in Job : i # j => job'[i] = job[i]
    BY <2>1 DEF IInv, TypeOK
  <2>7. worker'[w] = c /\ \A v \in Worker : v # w => worker'[v] = worker[v]
    BY <2>1 DEF IInv, TypeOK
  <2>8. ASSUME NEW v \in Worker, v # w, worker[v].at # "idle", worker[v].job = j
        PROVE  worker[v].epoch < s.epoch /\ worker[v].epoch # c.epoch
               /\ ClaimInv(worker[v], s, Kind[j], upstream[j], started[j])
    <3>1. worker[v].epoch < job[j].epoch /\ worker[v].epoch \in Nat
      BY <1>1, <2>8, ClaimFacts DEF ClaimInv, WorkerState
    <3>2. worker[v].at # "calling"
      BY <1>3, <2>8, CallingFacts DEF Grants
    <3> QED BY <2>3, <2>4, <2>8, <3>1, <3>2, ClaimFacts, FencedClaim
  <2>9. ClaimInv(c, s, Kind[j], upstream[j], started[j])
    <3>1. c.epoch = s.epoch /\ c.phase = s.phase /\ c.at = "claimed"
      BY <2>3
    <3>2. s.phase \in {"prepare", "submit", "poll", "export"} \cup Recovering \cup Publishing
      <4>1. job[j].phase # "submitting"
        BY <1>3 DEF Grants
      <4>2. job[j].phase \in {"prepare", "submit", "poll", "export"} \cup Recovering \cup Publishing
        BY <4>1, <1>1 DEF Row, Phases, RowInv, Claim, Claimable, Live
      <4> QED BY <4>2, <2>3
    <3>3. s.phase \in Publishing \cup {"export"} => Delivered(Kind[j], upstream[j])
      BY <2>2 DEF RowInv, Delivered
    <3> QED BY <2>3, <2>4, <3>1, <3>2, <3>3 DEF ClaimInv, RowPhases, Current
  <2>10. TypeOK'
    BY <2>1, <2>2, <2>5 DEF IInv, TypeOK
  <2>11. RowsInv'
    BY <2>1, <2>2, <2>6 DEF IInv, RowsInv
  <2>12. ClaimsInv'
    BY <2>1, <2>6, <2>7, <2>8, <2>9, ClaimFacts DEF ClaimsInv
  <2>13. EpochsDiffer' /\ OneRequest'
    BY <2>7, <2>8 DEF IInv, EpochsDiffer, OneRequest
  <2>14. ReceiptsInv'
    BY <2>1 DEF IInv, ReceiptsInv
  <2>15. SlotsBounded'
    BY <2>1, <2>3, SlotsShrink DEF IInv
  <2>16. OneAssetPerCompletedJob'
    BY <1>1, <2>1, <2>3, <2>6 DEF IInv, OneAssetPerCompletedJob, Live
  <2> QED BY <2>10, <2>11, <2>12, <2>13, <2>14, <2>15, <2>16 DEF IInv
<1> QED BY <1>2, <1>3

LEMMA OwnedFacts ==
  ASSUME IInv, NEW w \in Worker, Owned(w)
  PROVE  LET j == worker[w].job IN
         /\ worker[w].at # "idle" /\ j \in Job
         /\ job[j].lease = "live" /\ job[j].epoch = worker[w].epoch
         /\ job[j].status \in Live /\ job[j].phase \in RowPhases(worker[w])
<1>1. worker[w].at # "idle" /\ job[worker[w].job].lease = "live"
      /\ job[worker[w].job].epoch = worker[w].epoch
  BY DEF Owned
<1>2. worker[w].job \in Job /\ RowInv(job[worker[w].job], Kind[worker[w].job],
         upstream[worker[w].job], started[worker[w].job])
  BY <1>1, ClaimFacts, RowFacts
<1>3. job[worker[w].job].status \in Live
  BY <1>1, <1>2 DEF RowInv
<1>4. job[worker[w].job].phase \in RowPhases(worker[w])
  BY <1>1, ClaimFacts DEF ClaimInv, Current
<1> QED BY <1>1, <1>2, <1>3, <1>4

LEMMA CommitKeeps ==
  ASSUME IInv, NEW w \in Worker, worker[w].at # "idle", NEW s, Commit(w, s),
         UNCHANGED <<upstream, started, receipts, assets>>,
         Owned(w) =>
           /\ s \in Row /\ Released(job[worker[w].job], s)
           /\ RowInv(s, Kind[worker[w].job], upstream[worker[w].job], started[worker[w].job])
  PROVE  IInv'
<1>1. CASE ~Owned(w)
  <2>1. worker' = [worker EXCEPT ![w] = Idle] /\ UNCHANGED <<job, upstream, started, receipts, assets>>
    BY <1>1 DEF Commit
  <2> QED BY <2>1, DropStep
<1>2. CASE Owned(w)
  <2> DEFINE j == worker[w].job
  <2>1. j \in Job
    BY <1>2, OwnedFacts
  <2>2. worker' = [worker EXCEPT ![w] = Idle] /\ job' = [job EXCEPT ![j] = s]
    BY <1>2 DEF Commit
  <2>3. s.lease = "none" /\ s.epoch = job[j].epoch /\ (s.slot => job[j].slot) /\ s.status # "completed"
    BY <1>2 DEF Released
  <2>4. assets' = [assets EXCEPT ![j] = IF s.status = "completed" THEN @ + 1 ELSE @]
    BY <2>1, <2>3 DEF IInv, TypeOK
  <2>5. UNCHANGED <<upstream, started, receipts>>
    OBVIOUS
  <2> QED BY <1>2, <2>2, <2>3, <2>4, <2>5, CommitStep
<1> QED BY <1>1, <1>2

LEMMA BeginSubmitKeeps ==
  ASSUME IInv, NEW w \in Worker, BeginSubmit(w) PROVE IInv'
<1> DEFINE j == worker[w].job
           row == job[j]
<1>1. worker[w].at = "claimed" /\ worker[w].phase = "submit"
      /\ UNCHANGED <<upstream, started, receipts, assets>>
  BY DEF BeginSubmit
<1>2. CASE ~MaySubmit(w)
  <2>1. worker' = [worker EXCEPT ![w] = Idle] /\ UNCHANGED job
    BY <1>2 DEF BeginSubmit
  <2> QED BY <1>1, <2>1, DropStep
<1>3. ASSUME MaySubmit(w)
      PROVE  /\ Owned(w) /\ j \in Job /\ row \in Row /\ row.phase = "submit" /\ row.lease = "live"
             /\ row.epoch = worker[w].epoch
             /\ RowInv(row, Kind[j], upstream[j], started[j])
  BY <1>3, OwnedFacts, RowFacts DEF MaySubmit
<1>4. CASE MaySubmit(w) /\ Put(j, [Failed(row) EXCEPT !.phase = "failed", !.lease = "none"])
           /\ worker' = [worker EXCEPT ![w] = Idle]
  <2> DEFINE s == [Failed(row) EXCEPT !.phase = "failed", !.lease = "none"]
  <2>1. s \in Row /\ RowInv(s, Kind[j], upstream[j], started[j]) /\ Released(row, s)
    BY <1>3, <1>4, RefusedAdmissionRow
  <2> HIDE DEF s
  <2>2. Commit(w, s)
    BY <1>3, <1>4 DEF Commit, Put, s
  <2> QED BY <1>1, <2>1, <2>2, CommitKeeps
<1>5. CASE MaySubmit(w) /\ Put(j, Deferred(row)) /\ worker' = [worker EXCEPT ![w] = Idle]
  <2>1. Deferred(row) \in Row /\ RowInv(Deferred(row), Kind[j], upstream[j], started[j])
        /\ Released(row, Deferred(row))
    BY <1>3, <1>5, DeferredRow, VerdictTypes
  <2>2. Commit(w, Deferred(row))
    BY <1>3, <1>5 DEF Commit, Put
  <2> QED BY <1>1, <2>1, <2>2, CommitKeeps
<1>6. CASE MaySubmit(w) /\ Occupied < SlotLimit /\ Put(j, Submitting(row)) /\ Goes(w, "calling")
  <2> DEFINE s == Submitting(row)
             c == [worker[w] EXCEPT !.at = "calling"]
  <2>1. s \in Row /\ RowInv(s, Kind[j], upstream[j], started[j]) /\ s.lease = "live"
        /\ s.epoch = row.epoch /\ s.phase = "submitting" /\ s.status = "running"
    BY <1>3, <1>6, SubmittingType, SubmittingRow
  <2>2. job' = [job EXCEPT ![j] = s] /\ worker' = [worker EXCEPT ![w] = c]
    BY <1>6 DEF Put, Goes
  <2>3. worker[w] \in WorkerState /\ worker[w].epoch \in Nat
    BY DEF IInv, TypeOK, WorkerState
  <2>4. c \in WorkerState /\ c.at = "calling" /\ c.job = j /\ c.phase = "submit"
        /\ c.epoch = worker[w].epoch
    BY <1>1, <2>3 DEF WorkerState
  <2>5. started[j] = 0
    BY <1>3, <1>6 DEF RowInv
  <2> HIDE DEF s, c
  <2>6. job'[j] = s /\ \A i \in Job : i # j => job'[i] = job[i]
    BY <1>3, <1>6, <2>2 DEF IInv, TypeOK
  <2>7. worker'[w] = c /\ \A v \in Worker : v # w => worker'[v] = worker[v]
    BY <2>2 DEF IInv, TypeOK
  <2>8. ClaimInv(c, s, Kind[j], upstream[j], started[j])
    <3>1. c.epoch <= s.epoch /\ c.epoch = s.epoch
      BY <1>3, <1>6, <2>1, <2>3, <2>4
    <3>2. s.phase \in RowPhases(c)
      BY <2>1, <2>4 DEF RowPhases
    <3> QED BY <2>1, <2>4, <2>5, <3>1, <3>2 DEF ClaimInv, Live, Publishing
  <2>9. ASSUME NEW v \in Worker, v # w, worker[v].at # "idle", worker[v].job = j
        PROVE  worker[v].at # "calling" /\ ClaimInv(worker[v], s, Kind[j], upstream[j], started[j])
    <3>1. worker[v].epoch < s.epoch
      <4>1. worker[v].epoch <= row.epoch
        BY <2>9, ClaimFacts DEF ClaimInv
      <4>2. worker[v].epoch # row.epoch
        BY <1>1, <1>3, <1>6, <2>9 DEF IInv, EpochsDiffer
      <4>3. worker[v].epoch \in Nat /\ row.epoch \in Nat
        BY <1>3, <1>6 DEF IInv, TypeOK, WorkerState, Row
      <4> QED BY <2>1, <4>1, <4>2, <4>3
    <3>2. worker[v].at # "calling"
      BY <1>3, <1>6, <2>9, CallingFacts
    <3>3. worker[v].epoch \in Nat /\ s.epoch \in Nat
      BY <2>1 DEF IInv, TypeOK, WorkerState, Row
    <3> QED BY <2>9, <3>1, <3>2, <3>3, ClaimFacts, FencedClaim
  <2>10. TypeOK'
    BY <1>1, <2>1, <2>2, <2>4 DEF IInv, TypeOK
  <2>11. RowsInv'
    BY <1>1, <2>1, <2>6 DEF IInv, RowsInv
  <2>12. ClaimsInv'
    BY <1>1, <1>3, <1>6, <2>4, <2>6, <2>7, <2>8, <2>9, ClaimFacts DEF ClaimsInv
  <2>13. EpochsDiffer' /\ OneRequest'
    BY <1>1, <2>4, <2>7, <2>9 DEF IInv, EpochsDiffer, OneRequest
  <2>14. ReceiptsInv'
    BY <1>1 DEF IInv, ReceiptsInv
  <2>15. SlotsBounded'
    BY <1>3, <1>6, <2>2, SlotTaken DEF IInv
  <2>16. OneAssetPerCompletedJob'
    <3>1. row.status # "completed"
      BY <1>3, <1>6 DEF RowInv, Live
    <3> QED BY <1>1, <1>3, <1>6, <2>1, <2>6, <3>1 DEF IInv, OneAssetPerCompletedJob
  <2> QED BY <2>10, <2>11, <2>12, <2>13, <2>14, <2>15, <2>16 DEF IInv
<1> QED BY <1>2, <1>4, <1>5, <1>6 DEF BeginSubmit

\* A process learns how its call ended.
LEMMA AnsweredKeeps ==
  ASSUME IInv, NEW w \in Worker, NEW answer \in Successes \cup Failures, Answered(w, answer),
         UNCHANGED <<job, upstream, started, receipts, assets>>,
         worker[w].at \in {"claimed", "calling", "accepted"} \/ worker[w].answer = "persist",
         worker[w].at \in {"claimed", "calling", "accepted", "answered"},
         worker[w].at = "claimed" /\ worker[w].phase = "submit" => answer = "permanent",
         LET c == worker[w]
             r == job[c.job]
             u == upstream[c.job]
         IN  /\ answer = "submit" => c.phase = "prepare"
             /\ answer \in {"poll", "download", "failed"} => c.phase \in {"submit", "poll"} \cup Recovering
             /\ answer = "download" => u = "done"
             /\ answer = "failed" => u = "failed"
             /\ answer = "persist" => Delivered(Kind[c.job], u)
             /\ answer = "uncertain" => c.phase = "submit"
             /\ answer = "retryable" /\ c.phase = "submit" /\ Current(c, r) => started[c.job] = 0
             /\ answer = "permanent" /\ c.phase = "submit" /\ Current(c, r) => u # "running"
  PROVE  IInv'
<1> DEFINE c == [worker[w] EXCEPT !.at = "answered", !.answer = answer]
<1>1. worker[w].at # "idle"
  OBVIOUS
<1>2. worker[w] \in WorkerState /\ worker[w].job \in Job
      /\ ClaimInv(worker[w], job[worker[w].job], Kind[worker[w].job],
                  upstream[worker[w].job], started[worker[w].job])
  BY <1>1, ClaimFacts
<1>3. /\ c \in WorkerState /\ c.at = "answered" /\ c.answer = answer /\ c.job = worker[w].job
      /\ c.epoch = worker[w].epoch /\ c.phase = worker[w].phase
  BY <1>2 DEF WorkerState
<1>4. worker' = [worker EXCEPT ![w] = c]
  BY <1>2 DEF Answered, IInv, TypeOK, WorkerState
<1>5. ReceiptsInv' /\ receipts' \subseteq Job \X Nat
  BY DEF IInv, TypeOK, ReceiptsInv
<1> HIDE DEF c
<1>6. \A r : Current(c, r) <=> Current(worker[w], r)
  BY <1>3 DEF Current
<1>7. RowPhases(worker[w]) \subseteq RowPhases(c)
  BY <1>3 DEF RowPhases
<1>8. answer # "none"
  BY DEF Successes, Failures
<1>9. ClaimInv(c, job[c.job], Kind[c.job], upstream[c.job], started[c.job])
  BY <1>2, <1>3, <1>6, <1>7, <1>8 DEF ClaimInv
<1> QED BY <1>1, <1>3, <1>4, <1>5, <1>9, ClaimStep

LEMMA SubmitRefusedKeeps ==
  ASSUME IInv, NEW w \in Worker, SubmitRefused(w) PROVE IInv'
<1>1. PICK failure \in {"retryable", "permanent"} : Answered(w, failure)
  BY DEF SubmitRefused
<1>2. worker[w].at = "calling" /\ UNCHANGED <<job, upstream, started, receipts, assets>>
  BY DEF SubmitRefused
<1>3. started[worker[w].job] = 0 /\ upstream[worker[w].job] = "none"
  BY <1>2, CallingFacts
<1> QED BY <1>1, <1>2, <1>3, AnsweredKeeps DEF Failures

LEMMA SubmitUncertainKeeps ==
  ASSUME IInv, NEW w \in Worker, SubmitUncertain(w) PROVE IInv'
<1>1. /\ worker[w].at \in {"calling", "accepted"} /\ Answered(w, "uncertain")
      /\ UNCHANGED <<job, upstream, started, receipts, assets>>
  BY DEF SubmitUncertain
<1>2. worker[w].phase = "submit"
  BY <1>1, ClaimFacts DEF ClaimInv
<1> QED BY <1>1, <1>2, AnsweredKeeps DEF Failures

LEMMA SubmitRepliesKeeps ==
  ASSUME IInv, NEW w \in Worker, SubmitReplies(w) PROVE IInv'
<1>1. worker[w].at = "accepted" /\ UNCHANGED <<job, upstream, started, receipts, assets>>
  BY DEF SubmitReplies
<1>2. worker[w].phase = "submit"
  BY <1>1, ClaimFacts DEF ClaimInv
<1>3. CASE Answered(w, "poll")
  BY <1>1, <1>2, <1>3, AnsweredKeeps DEF Successes
<1>4. ASSUME upstream[worker[w].job] = "done", NEW result \in {"persist", "download"}, Answered(w, result)
      PROVE  IInv'
  BY <1>1, <1>2, <1>4, AnsweredKeeps DEF Successes, Delivered
<1>5. CASE upstream[worker[w].job] = "failed" /\ Answered(w, "permanent")
  BY <1>1, <1>2, <1>5, AnsweredKeeps DEF Failures
<1> QED BY <1>3, <1>4, <1>5 DEF SubmitReplies

LEMMA OperateKeeps ==
  ASSUME IInv, NEW w \in Worker, Operate(w) PROVE IInv'
<1> DEFINE j == worker[w].job
<1>1. worker[w].at = "claimed" /\ UNCHANGED <<job, upstream, started, receipts, assets>>
  BY DEF Operate
<1>2. PICK report \in Reports(j, worker[w].phase) : Answered(w, report)
  BY DEF Operate
<1>3. ClaimInv(worker[w], job[j], Kind[j], upstream[j], started[j])
      /\ RowInv(job[j], Kind[j], upstream[j], started[j])
  BY <1>1, ClaimFacts, RowFacts
<1>4. CASE worker[w].phase = "prepare"
  <2>1. report = "submit"
    BY <1>2, <1>4 DEF Reports
  <2> QED BY <1>1, <1>2, <1>4, <2>1, AnsweredKeeps DEF Successes
<1>5. CASE worker[w].phase \in {"poll"} \cup Recovering
  <2>1. /\ report \in {"poll", "download", "failed"}
        /\ report = "download" => upstream[j] = "done"
        /\ report = "failed" => upstream[j] = "failed"
    BY <1>2, <1>5 DEF Reports, Recovering
  <2> QED BY <1>1, <1>2, <1>5, <2>1, AnsweredKeeps DEF Successes, Recovering
<1>6. CASE worker[w].phase \in {"download", "export"}
  <2>1. report = "persist"
    BY <1>2, <1>6 DEF Reports
  <2>2. Delivered(Kind[j], upstream[j])
    BY <1>3, <1>6 DEF ClaimInv, Publishing
  <2> QED BY <1>1, <1>2, <1>6, <2>1, <2>2, AnsweredKeeps DEF Successes
<1>7. worker[w].phase \notin {"submit", "persist"}
  BY <1>2 DEF Reports
<1> QED BY <1>3, <1>4, <1>5, <1>6, <1>7 DEF ClaimInv, Publishing

LEMMA OperationFailsKeeps ==
  ASSUME IInv, NEW w \in Worker, OperationFails(w) PROVE IInv'
<1> DEFINE j == worker[w].job
<1>1. worker[w].at = "claimed" /\ UNCHANGED <<job, upstream, started, receipts, assets>>
  BY DEF OperationFails
<1>2. ClaimInv(worker[w], job[j], Kind[j], upstream[j], started[j])
      /\ RowInv(job[j], Kind[j], upstream[j], started[j])
  BY <1>1, ClaimFacts, RowFacts
<1>3. CASE Answered(w, "permanent")
  <2>1. worker[w].phase = "submit" /\ Current(worker[w], job[j]) => upstream[j] # "running"
    BY <1>1, <1>2 DEF ClaimInv, RowInv, RowPhases
  <2> QED BY <1>1, <1>3, <2>1, AnsweredKeeps DEF Failures
<1>4. CASE worker[w].phase \notin {"submit", "export"} /\ Answered(w, "retryable")
  BY <1>1, <1>4, AnsweredKeeps DEF Failures
<1> QED BY <1>3, <1>4 DEF OperationFails

LEMMA SaveFailsKeeps ==
  ASSUME IInv, NEW w \in Worker, SaveFails(w) PROVE IInv'
<1>1. /\ worker[w].at = "answered" /\ worker[w].answer = "persist"
      /\ UNCHANGED <<job, upstream, started, receipts, assets>>
      /\ Answered(w, IF worker[w].phase = "submit" THEN "uncertain" ELSE "permanent")
  BY DEF SaveFails
<1>2. CASE worker[w].phase = "submit"
  BY <1>1, <1>2, AnsweredKeeps DEF Failures
<1>3. CASE worker[w].phase # "submit"
  BY <1>1, <1>3, AnsweredKeeps DEF Failures
<1> QED BY <1>2, <1>3

LEMMA ProviderAcceptsKeeps ==
  ASSUME IInv, NEW w \in Worker, ProviderAccepts(w) PROVE IInv'
<1> DEFINE j == worker[w].job
           c == [worker[w] EXCEPT !.at = "accepted"]
<1>1. worker[w].at = "calling" /\ UNCHANGED <<job, receipts, assets>>
  BY DEF ProviderAccepts
<1>2. /\ j \in Job /\ job[j].phase = "submitting" /\ job[j].status \in Live
      /\ job[j].slot /\ started[j] = 0 /\ upstream[j] = "none"
  BY <1>1, CallingFacts
<1>3. upstream' = [upstream EXCEPT ![j] = "running"] /\ started' = [started EXCEPT ![j] = 1]
  BY <1>2 DEF ProviderAccepts
<1>4. worker[w] \in WorkerState /\ worker' = [worker EXCEPT ![w] = c]
  BY DEF ProviderAccepts, Goes, IInv, TypeOK
<1>5. c \in WorkerState /\ c.at = "accepted" /\ c.job = j /\ c.epoch = worker[w].epoch
      /\ c.phase = worker[w].phase
  BY <1>4 DEF WorkerState
<1> HIDE DEF c
<1>6. worker'[w] = c /\ \A v \in Worker : v # w => worker'[v] = worker[v]
  BY <1>4 DEF IInv, TypeOK
<1>7. /\ upstream'[j] = "running" /\ started'[j] = 1
      /\ \A i \in Job : i # j => upstream'[i] = upstream[i] /\ started'[i] = started[i]
  BY <1>2, <1>3 DEF IInv, TypeOK
<1>8. RowInv(job[j], Kind[j], "running", 1)
  BY <1>2, RowFacts DEF RowInv, Recovering, Publishing, Live
<1>9. ClaimInv(c, job[j], Kind[j], "running", 1)
  <2>1. ClaimInv(worker[w], job[j], Kind[j], "none", 0) /\ worker[w].phase = "submit"
    BY <1>1, <1>2, ClaimFacts DEF ClaimInv
  <2>2. Current(c, job[j]) => job[j].phase \in RowPhases(c)
    BY <1>2, <1>5, <2>1 DEF RowPhases
  <2> QED BY <1>5, <2>1, <2>2 DEF ClaimInv, Publishing
<1>10. ASSUME NEW v \in Worker, v # w, worker[v].at # "idle", worker[v].job = j
       PROVE  ClaimInv(worker[v], job[j], Kind[j], "running", 1)
  <2>1. ClaimInv(worker[v], job[j], Kind[j], "none", 0)
    BY <1>2, <1>10, ClaimFacts
  <2>2. worker[v].at # "calling"
    BY <1>1, <1>10 DEF IInv, OneRequest
  <2>3. ~Current(worker[v], job[j])
    <3>1. job[j].lease # "none" => worker[w].epoch = job[j].epoch
      BY <1>1, ClaimFacts DEF ClaimInv
    <3>2. worker[v].epoch # worker[w].epoch
      BY <1>1, <1>10 DEF IInv, EpochsDiffer
    <3> QED BY <3>1, <3>2 DEF Current
  <2>4. Delivered(Kind[j], "none") => Delivered(Kind[j], "running")
    BY DEF Delivered
  <2> QED BY <2>1, <2>2, <2>3, <2>4 DEF ClaimInv
<1>11. TypeOK'
  BY <1>1, <1>3, <1>4, <1>5 DEF IInv, TypeOK
<1>12. RowsInv'
  BY <1>1, <1>7, <1>8 DEF IInv, RowsInv
<1>13. ClaimsInv'
  <2>1. ASSUME NEW v \in Worker, v # w, worker[v].at # "idle"
        PROVE  ClaimInv(worker[v], job[worker[v].job], Kind[worker[v].job],
                        upstream'[worker[v].job], started'[worker[v].job])
               /\ worker[v].job \in Job
    BY <1>7, <1>10, <2>1, ClaimFacts
  <2> QED BY <1>1, <1>2, <1>5, <1>6, <1>7, <1>9, <2>1 DEF ClaimsInv
<1>14. EpochsDiffer' /\ OneRequest'
  BY <1>1, <1>5, <1>6 DEF IInv, EpochsDiffer, OneRequest
<1>15. ReceiptsInv'
  <2>1. \A x \in receipts : x[1] \in Job
    BY DEF IInv, TypeOK
  <2>2. Delivered(Kind[j], "none") => Delivered(Kind[j], "running")
    BY DEF Delivered
  <2> QED BY <1>1, <1>2, <1>7, <2>1, <2>2 DEF IInv, ReceiptsInv
<1>16. SlotsBounded' /\ OneAssetPerCompletedJob'
  BY <1>1 DEF IInv, SlotsBounded, Occupied, OneAssetPerCompletedJob
<1> QED BY <1>11, <1>12, <1>13, <1>14, <1>15, <1>16 DEF IInv

LEMMA UpstreamEndsKeeps ==
  ASSUME IInv, NEW j \in Job, UpstreamEnds(j) PROVE IInv'
<1>1. PICK end \in {"done", "failed"} : upstream' = [upstream EXCEPT ![j] = end]
  BY DEF UpstreamEnds
<1>2. upstream[j] = "running" /\ UNCHANGED <<job, worker, started, receipts, assets>>
  BY DEF UpstreamEnds
<1>3. upstream'[j] = end /\ \A i \in Job : i # j => upstream'[i] = upstream[i]
  BY <1>1 DEF IInv, TypeOK
<1>4. TypeOK'
  BY <1>1, <1>2 DEF IInv, TypeOK
<1>5. RowsInv'
  BY <1>2, <1>3, EndedUpstream DEF IInv, RowsInv
<1>6. ClaimsInv'
  BY <1>2, <1>3, EndedUpstream DEF IInv, ClaimsInv
<1>7. ReceiptsInv'
  <2>1. \A x \in receipts : x[1] \in Job
    BY DEF IInv, TypeOK
  <2> QED BY <1>2, <1>3, <2>1, EndedUpstream DEF IInv, ReceiptsInv
<1>8. EpochsDiffer' /\ OneRequest' /\ SlotsBounded' /\ OneAssetPerCompletedJob'
  BY <1>2 DEF IInv, EpochsDiffer, OneRequest, SlotsBounded, Occupied, OneAssetPerCompletedJob
<1> QED BY <1>4, <1>5, <1>6, <1>7, <1>8 DEF IInv

LEMMA SaveArtifactKeeps ==
  ASSUME IInv, NEW w \in Worker, SaveArtifact(w) PROVE IInv'
<1> DEFINE j == worker[w].job
           c == [worker[w] EXCEPT !.at = "saved"]
<1>1. /\ worker[w].at = "answered" /\ worker[w].answer = "persist"
      /\ UNCHANGED <<job, upstream, started, assets>>
      /\ receipts' = receipts \cup {<<j, worker[w].epoch>>}
      /\ worker' = [worker EXCEPT ![w] = c]
  BY DEF SaveArtifact, Goes
<1>2. /\ worker[w] \in WorkerState /\ j \in Job
      /\ ClaimInv(worker[w], job[j], Kind[j], upstream[j], started[j])
  BY <1>1, ClaimFacts
<1>3. /\ c \in WorkerState /\ c.at = "saved" /\ c.job = j
      /\ c.epoch = worker[w].epoch /\ c.phase = worker[w].phase
  BY <1>2 DEF WorkerState
<1> HIDE DEF c
<1>4. Delivered(Kind[j], upstream[j])
  BY <1>1, <1>2 DEF ClaimInv
<1>5. receipts' \subseteq Job \X Nat
  BY <1>1, <1>2 DEF IInv, TypeOK, WorkerState
<1>6. ReceiptsInv'
  BY <1>1, <1>4 DEF IInv, ReceiptsInv
<1>7. ClaimInv(c, job[j], Kind[j], upstream[j], started[j])
  <2>1. Current(c, job[j]) <=> Current(worker[w], job[j])
    BY <1>3 DEF Current
  <2>2. RowPhases(worker[w]) \subseteq RowPhases(c)
    BY <1>1, <1>3 DEF RowPhases
  <2> QED BY <1>2, <1>3, <1>4, <2>1, <2>2 DEF ClaimInv
<1> QED BY <1>1, <1>3, <1>5, <1>6, <1>7, ClaimStep

LEMMA DeferKeeps ==
  ASSUME IInv, NEW w \in Worker, Defer(w) PROVE IInv'
<1> DEFINE j == worker[w].job
<1>1. /\ worker[w].at = "claimed" /\ Commit(w, Deferred(job[j]))
      /\ UNCHANGED <<upstream, started, receipts, assets>>
  BY DEF Defer
<1>2. ASSUME Owned(w)
      PROVE  /\ Deferred(job[j]) \in Row /\ Released(job[j], Deferred(job[j]))
             /\ RowInv(Deferred(job[j]), Kind[j], upstream[j], started[j])
  BY <1>2, OwnedFacts, RowFacts, DeferredRow, VerdictTypes
<1> QED BY <1>1, <1>2, CommitKeeps

LEMMA AdvanceKeeps ==
  ASSUME IInv, NEW w \in Worker, Advance(w) PROVE IInv'
<1> DEFINE j == worker[w].job
           a == worker[w].answer
           ph == worker[w].phase
           s == Advanced(job[j], ph, a, a = "poll", a \in {"download", "failed"})
<1>1. /\ worker[w].at = "answered" /\ a \in {"submit", "poll", "download", "failed"}
      /\ Commit(w, s) /\ UNCHANGED <<upstream, started, receipts, assets>>
  BY DEF Advance
<1>2. ASSUME Owned(w)
      PROVE  s \in Row /\ Released(job[j], s) /\ RowInv(s, Kind[j], upstream[j], started[j])
  <2>1. j \in Job /\ job[j].lease # "none" /\ job[j].phase \in RowPhases(worker[w])
    BY <1>2, OwnedFacts
  <2>2. job[j] \in Row /\ RowInv(job[j], Kind[j], upstream[j], started[j])
    BY <2>1, RowFacts
  <2>3. ClaimInv(worker[w], job[j], Kind[j], upstream[j], started[j]) /\ ph \in Phases
    BY <1>1, ClaimFacts DEF WorkerState
  <2>4. /\ a = "submit" => job[j].phase = "prepare"
        /\ a = "poll" => job[j].phase \in {"submitting", "poll"} \cup Recovering
        /\ a = "download" => upstream[j] = "done"
        /\ a = "failed" => upstream[j] # "running"
    BY <1>1, <2>1, <2>3 DEF ClaimInv, RowPhases
  <2>5. (a = "poll") \in BOOLEAN /\ (a \in {"download", "failed"}) \in BOOLEAN
    OBVIOUS
  <2>6. s \in Row
    BY <1>1, <2>2, <2>3, <2>5, AdvancedType
  <2>7. RowInv(s, Kind[j], upstream[j], started[j]) /\ Released(job[j], s)
    BY <1>1, <2>1, <2>2, <2>4, <2>5, AdvancedRow
  <2> QED BY <2>6, <2>7
<1> HIDE DEF s
<1> QED BY <1>1, <1>2, CommitKeeps

LEMMA InvalidArtifactKeeps ==
  ASSUME IInv, NEW w \in Worker, InvalidArtifact(w) PROVE IInv'
<1> DEFINE j == worker[w].job
           ph == worker[w].phase
           s == Advanced(job[j], ph, "failed", FALSE, TRUE)
<1>1. /\ worker[w].at = "answered" /\ worker[w].answer = "persist" /\ Kind[j] # "export"
      /\ Commit(w, s) /\ UNCHANGED <<upstream, started, receipts, assets>>
  BY DEF InvalidArtifact
<1>2. ASSUME Owned(w)
      PROVE  s \in Row /\ Released(job[j], s) /\ RowInv(s, Kind[j], upstream[j], started[j])
  <2>1. j \in Job /\ job[j].lease # "none"
    BY <1>2, OwnedFacts
  <2>2. job[j] \in Row /\ RowInv(job[j], Kind[j], upstream[j], started[j])
    BY <2>1, RowFacts
  <2>3. upstream[j] = "done" /\ ph \in Phases
    BY <1>1, ClaimFacts DEF ClaimInv, Delivered, WorkerState
  <2>4. s \in Row
    BY <2>2, <2>3, AdvancedType
  <2>5. RowInv(s, Kind[j], upstream[j], started[j]) /\ Released(job[j], s)
    BY <2>1, <2>2, <2>3, AdvancedRow
  <2> QED BY <2>4, <2>5
<1> HIDE DEF s
<1> QED BY <1>1, <1>2, CommitKeeps

LEMMA FailKeeps ==
  ASSUME IInv, NEW w \in Worker, Fail(w) PROVE IInv'
<1> DEFINE j == worker[w].job
           a == worker[w].answer
           s == AfterFailure(job[j], a)
<1>1. /\ worker[w].at = "answered" /\ a \in Failures
      /\ Commit(w, s) /\ UNCHANGED <<upstream, started, receipts, assets>>
  BY DEF Fail
<1>2. ASSUME Owned(w)
      PROVE  s \in Row /\ Released(job[j], s) /\ RowInv(s, Kind[j], upstream[j], started[j])
  <2>1. j \in Job /\ job[j].lease # "none" /\ job[j].phase \in RowPhases(worker[w])
        /\ Current(worker[w], job[j])
    BY <1>2, OwnedFacts DEF Current
  <2>2. job[j] \in Row /\ RowInv(job[j], Kind[j], upstream[j], started[j])
    BY <2>1, RowFacts
  <2>3. ClaimInv(worker[w], job[j], Kind[j], upstream[j], started[j])
    BY <1>1, ClaimFacts
  <2>4. /\ a = "retryable" /\ job[j].phase = "submitting" => started[j] = 0
        /\ a = "permanent" /\ job[j].phase = "submitting" => upstream[j] # "running"
    BY <1>1, <2>1, <2>3 DEF ClaimInv, RowPhases, Recovering, Publishing
  <2>5. job[j].phase \in {"prepare", "submit", "submitting", "poll", "export"} \cup Recovering \cup Publishing
    BY <2>1, <2>3 DEF ClaimInv, RowPhases
  <2>6. s \in Row
    BY <1>1, <2>2, AfterFailureType
  <2>7. RowInv(s, Kind[j], upstream[j], started[j]) /\ Released(job[j], s)
    BY <1>1, <2>1, <2>2, <2>4, <2>5, AfterFailureRow
  <2> QED BY <2>6, <2>7
<1> HIDE DEF s
<1> QED BY <1>1, <1>2, CommitKeeps

LEMMA CompleteKeeps ==
  ASSUME IInv, NEW w \in Worker, Complete(w) PROVE IInv'
<1> DEFINE j == worker[w].job
           s == Completed(job[j])
<1>1. /\ worker[w].at = "saved" \/ (worker[w].at = "claimed" /\ worker[w].phase = "persist")
      /\ Commit(w, s) /\ UNCHANGED <<upstream, started, receipts>>
      /\ assets' = [assets EXCEPT ![j] = IF Owned(w) THEN @ + 1 ELSE @]
  BY DEF Complete
<1>2. j \in Job /\ Delivered(Kind[j], upstream[j])
  BY <1>1, ClaimFacts DEF ClaimInv, Publishing
<1>3. CASE ~Owned(w)
  <2>1. assets' = assets
    BY <1>1, <1>2, <1>3 DEF IInv, TypeOK
  <2>2. worker' = [worker EXCEPT ![w] = Idle] /\ UNCHANGED <<job, upstream, started, receipts, assets>>
    BY <1>1, <1>3, <2>1 DEF Commit
  <2> QED BY <2>2, DropStep
<1>4. CASE Owned(w)
  <2>1. s \in Row /\ RowInv(s, Kind[j], upstream[j], started[j]) /\ s.lease = "none"
        /\ s.epoch = job[j].epoch /\ ~s.slot /\ s.status = "completed"
    BY <1>2, RowFacts, CompletedRow, VerdictTypes
  <2> HIDE DEF s
  <2>2. job' = [job EXCEPT ![j] = s] /\ worker' = [worker EXCEPT ![w] = Idle]
    BY <1>1, <1>4 DEF Commit
  <2>3. assets' = [assets EXCEPT ![j] = IF s.status = "completed" THEN @ + 1 ELSE @]
    BY <1>1, <1>4, <2>1
  <2> QED BY <1>1, <1>4, <2>1, <2>2, <2>3, CommitStep
<1> QED BY <1>3, <1>4

LEMMA MarkedKeeps ==
  ASSUME IInv, NEW j \in Job, LeaseExpires(j) \/ DeadlinePasses(j) \/ FlagCancel(j) PROVE IInv'
<1>1. /\ UNCHANGED <<worker, upstream, started, receipts, assets>>
      /\ job[j] \in Row /\ RowInv(job[j], Kind[j], upstream[j], started[j])
  BY RowFacts DEF LeaseExpires, DeadlinePasses, FlagCancel
<1>2. PICK s : /\ job' = [job EXCEPT ![j] = s]
               /\ \/ s = [job[j] EXCEPT !.cancel = TRUE]
                  \/ job[j].lease # "none" /\ s = [job[j] EXCEPT !.lease = "expired"]
                  \/ s = [job[j] EXCEPT !.queueD = "past"]
                  \/ s = [job[j] EXCEPT !.execD = "past"]
                  \/ s = [job[j] EXCEPT !.downD = "past"]
                  \/ s = [job[j] EXCEPT !.recD = "past"]
  BY DEF LeaseExpires, DeadlinePasses, FlagCancel, Put
<1>3. s \in Row
  BY <1>1, <1>2, ClockFacts DEF Row
<1>4. RowInv(s, Kind[j], upstream[j], started[j]) /\ Kept(job[j], s)
  BY <1>1, <1>2, <1>3, ClockFacts, MarkedRow
<1> QED BY <1>1, <1>2, <1>3, <1>4, KeptStep

LEMMA RecoverExpiredKeeps ==
  ASSUME IInv, NEW j \in Job, RecoverExpired(j) PROVE IInv'
<1>1. PICK seen \in BOOLEAN : /\ seen => <<j, job[j].epoch>> \in receipts
                              /\ job' = [job EXCEPT ![j] = Recovered(job[j], seen)]
  BY DEF RecoverExpired, Put
<1> DEFINE s == Recovered(job[j], seen)
<1>2. /\ UNCHANGED <<worker, upstream, started, receipts, assets>>
      /\ job[j].status \in Live /\ job[j].lease = "expired"
      /\ job[j] \in Row /\ RowInv(job[j], Kind[j], upstream[j], started[j])
  BY RowFacts DEF RecoverExpired
<1>3. seen => Delivered(Kind[j], upstream[j])
  BY <1>1 DEF IInv, ReceiptsInv
<1>4. /\ s \in Row /\ RowInv(s, Kind[j], upstream[j], started[j])
      /\ s.lease = "none" /\ s.epoch = job[j].epoch + 1 /\ (s.slot => job[j].slot)
      /\ s.status # "completed"
      /\ ~seen /\ job[j].phase = "submitting" => s.phase = "submitting" /\ s.status \in Live
  BY <1>2, <1>3, RecoveredRow, RecoveredType
<1> HIDE DEF s
<1>5. \A w \in Worker : worker[w].at = "calling" /\ worker[w].job = j
        => s.phase = "submitting" /\ s.status \in Live
  <2> SUFFICES ASSUME NEW w \in Worker, worker[w].at = "calling", worker[w].job = j
               PROVE  s.phase = "submitting" /\ s.status \in Live
    OBVIOUS
  <2>1. job[j].phase = "submitting" /\ upstream[j] = "none" /\ job[j].status \in Live
    BY CallingFacts
  <2>2. Kind[j] # "export"
    BY <1>2, <2>1 DEF RowInv
  <2> QED BY <1>3, <1>4, <2>1, <2>2 DEF Delivered
<1>6. s.epoch >= job[j].epoch /\ s.epoch > job[j].epoch /\ job[j].status # "completed"
  BY <1>2, <1>4 DEF Row, Live
<1>7. job' = [job EXCEPT ![j] = s]
  BY <1>1 DEF s
<1> QED BY <1>2, <1>4, <1>5, <1>6, <1>7, UnleasedStep

LEMMA ExpireDueKeeps ==
  ASSUME IInv, NEW j \in Job, ExpireDue(j) PROVE IInv'
<1>1. /\ UNCHANGED <<worker, upstream, started, receipts, assets>>
      /\ job' = [job EXCEPT ![j] = Expired(job[j])] /\ job[j].lease = "none" /\ Overdue(job[j])
      /\ job[j] \in Row /\ RowInv(job[j], Kind[j], upstream[j], started[j])
  BY RowFacts DEF ExpireDue, Put
<1>2. job[j].status \in Live
  BY <1>1 DEF Overdue, Live
<1>3. Expired(job[j]) \in Row /\ Parked(job[j], Expired(job[j]))
      /\ RowInv(Expired(job[j]), Kind[j], upstream[j], started[j])
  BY <1>1, ExpiredRow, ExpiredType
<1> QED BY <1>1, <1>2, <1>3, ParkedStep

LEMMA RequestCancelKeeps ==
  ASSUME IInv, NEW j \in Job, RequestCancel(j) PROVE IInv'
<1> DEFINE s == Cancelled(job[j], Kind[j] = "video")
<1>1. /\ UNCHANGED <<worker, upstream, started, receipts, assets>>
      /\ job' = [job EXCEPT ![j] = s]
      /\ job[j] \in Row /\ RowInv(job[j], Kind[j], upstream[j], started[j])
  BY RowFacts DEF RequestCancel, Put
<1>2. (Kind[j] = "video") \in BOOLEAN
  OBVIOUS
<1>3. s \in Row /\ RowInv(s, Kind[j], upstream[j], started[j])
  BY <1>1, <1>2, CancelledRow, CancelledType
<1>4. \/ Kept(job[j], s)
      \/ job[j].lease = "none" /\ job[j].status \in Live /\ Parked(job[j], s)
  BY <1>1, <1>2, CancelledRow
<1> HIDE DEF s
<1> QED BY <1>1, <1>3, <1>4, KeptStep, ParkedStep

LEMMA ConfirmStoppedKeeps ==
  ASSUME IInv, NEW j \in Job, ConfirmStopped(j) PROVE IInv'
<1> DEFINE s == [FailedFree(job[j]) EXCEPT !.phase = "audited_stopped", !.epoch = @ + 1]
<1>1. /\ UNCHANGED <<worker, upstream, started, receipts, assets>>
      /\ job' = [job EXCEPT ![j] = s] /\ job[j].lease = "none" /\ job[j].status = "unknown"
      /\ upstream[j] # "running" /\ \A w \in Worker : worker[w].job = j => worker[w].at # "calling"
      /\ job[j] \in Row /\ RowInv(job[j], Kind[j], upstream[j], started[j])
  BY RowFacts DEF ConfirmStopped, EvidenceOfStop, Put
<1>2. /\ s \in Row /\ RowInv(s, Kind[j], upstream[j], started[j]) /\ s.lease = "none"
      /\ s.epoch = job[j].epoch + 1 /\ ~s.slot /\ s.status = "failed"
  BY <1>1, StoppedRow
<1> HIDE DEF s
<1>3. s.epoch >= job[j].epoch
  BY <1>1, <1>2 DEF Row
<1> QED BY <1>1, <1>2, <1>3, UnleasedStep

LEMMA ResumeReconciliationKeeps ==
  ASSUME IInv, NEW j \in Job, ResumeReconciliation(j) PROVE IInv'
<1> DEFINE s == [job[j] EXCEPT !.phase = "reconcile", !.recD = "open", !.epoch = @ + 1]
<1>1. /\ UNCHANGED <<worker, upstream, started, receipts, assets>>
      /\ job' = [job EXCEPT ![j] = s] /\ job[j].lease = "none" /\ job[j].status = "unknown"
      /\ job[j].external
      /\ job[j] \in Row /\ RowInv(job[j], Kind[j], upstream[j], started[j])
  BY RowFacts DEF ResumeReconciliation, Put
<1>2. /\ s \in Row /\ RowInv(s, Kind[j], upstream[j], started[j]) /\ s.lease = "none"
      /\ s.epoch = job[j].epoch + 1 /\ s.slot = job[j].slot /\ s.status = "unknown"
  BY <1>1, ResumedRow
<1> HIDE DEF s
<1>3. s.epoch >= job[j].epoch
  BY <1>1, <1>2 DEF Row
<1>4. \A w \in Worker : worker[w].at = "calling" => worker[w].job # j
  BY <1>1, CallingFacts
<1> QED BY <1>1, <1>2, <1>3, <1>4, UnleasedStep

LEMMA NextKeeps == IInv /\ [Next]_vars => IInv'
<1> SUFFICES ASSUME IInv, [Next]_vars PROVE IInv'
  OBVIOUS
<1>1. ASSUME NEW w \in Worker, WorkerStep(w) PROVE IInv'
  <2>1. CASE \E j \in Job : Claim(w, j)
    BY <2>1, ClaimKeeps
  <2>2. CASE Defer(w) \/ BeginSubmit(w) \/ ProviderAccepts(w)
    BY <2>2, DeferKeeps, BeginSubmitKeeps, ProviderAcceptsKeeps
  <2>3. CASE SubmitRefused(w) \/ SubmitUncertain(w) \/ SubmitReplies(w)
    BY <2>3, SubmitRefusedKeeps, SubmitUncertainKeeps, SubmitRepliesKeeps
  <2>4. CASE Operate(w) \/ OperationFails(w) \/ Advance(w) \/ InvalidArtifact(w)
    BY <2>4, OperateKeeps, OperationFailsKeeps, AdvanceKeeps, InvalidArtifactKeeps
  <2>5. CASE SaveArtifact(w) \/ SaveFails(w) \/ Complete(w) \/ Fail(w)
    BY <2>5, SaveArtifactKeeps, SaveFailsKeeps, CompleteKeeps, FailKeeps
  <2>6. CASE HeartbeatLost(w) \/ Crash(w)
    BY <2>6, DropStep DEF HeartbeatLost, Crash
  <2> QED BY <1>1, <2>1, <2>2, <2>3, <2>4, <2>5, <2>6 DEF WorkerStep
<1>2. ASSUME NEW j \in Job, JobStep(j) PROVE IInv'
  <2>1. CASE UpstreamEnds(j) \/ LeaseExpires(j) \/ DeadlinePasses(j) \/ FlagCancel(j)
    BY <2>1, UpstreamEndsKeeps, MarkedKeeps
  <2>2. CASE RecoverExpired(j) \/ ExpireDue(j) \/ RequestCancel(j)
    BY <2>2, RecoverExpiredKeeps, ExpireDueKeeps, RequestCancelKeeps
  <2>3. CASE ConfirmStopped(j) \/ ResumeReconciliation(j)
    BY <2>3, ConfirmStoppedKeeps, ResumeReconciliationKeeps
  <2> QED BY <1>2, <2>1, <2>2, <2>3 DEF JobStep
<1>3. CASE UNCHANGED vars
  BY <1>3 DEF vars, IInv, TypeOK, RowsInv, ClaimsInv, EpochsDiffer, OneRequest, ReceiptsInv,
              SlotsBounded, Occupied, OneAssetPerCompletedJob
<1> QED BY <1>1, <1>2, <1>3 DEF Next

-----------------------------------------------------------------------------
(* The theorems.                                                           *)

\* IInv is an invariant: it holds of every accepted job and every step of a worker,
\* the scheduler, the user, the administrator or the provider preserves it.
THEOREM Invariance == Spec => []IInv
<1>1. Init => IInv
  BY InitIInv
<1>2. IInv /\ [Next]_vars => IInv'
  BY NextKeeps
<1> QED BY <1>1, <1>2, PTL DEF Spec

\* Every row, claim and receipt keeps its type; phase_failures never exceeds the
\* retry budget of the provider policy.
THEOREM TypeCorrectness == Spec => []TypeOK
<1>1. IInv => TypeOK
  BY DEF IInv
<1> QED BY <1>1, Invariance, PTL

\* A job costs at most one generation: no retry, recovery or slow owner submits again
\* once a submission may have been accepted.
THEOREM OneGeneration == Spec => []AtMostOneGeneration
<1>1. IInv => AtMostOneGeneration
  BY DEF IInv, RowsInv, RowInv, AtMostOneGeneration
<1> QED BY <1>1, Invariance, PTL

\* The provider never runs more generations than the model scope has slots: every
\* running one is covered by the slot its row still occupies.
THEOREM Capacity == Spec => []UpstreamWithinCapacity
<1>1. ASSUME IInv PROVE UpstreamWithinCapacity
  <2> DEFINE R == {j \in Job : upstream[j] = "running"}
             S == {j \in Job : job[j].slot}
  <2>1. R \subseteq S
    BY <1>1 DEF IInv, RowsInv, RowInv
  <2>2. IsFiniteSet(S)
    BY FiniteJobs, FS_Subset
  <2>3. Cardinality(S) <= SlotLimit
    BY <1>1 DEF IInv, SlotsBounded, Occupied
  <2> HIDE DEF R, S
  <2>4. Cardinality(R) <= Cardinality(S) /\ Cardinality(R) \in Nat /\ Cardinality(S) \in Nat
    BY <2>1, <2>2, FS_Subset, FS_CardinalityType
  <2>5. Cardinality(R) <= SlotLimit
    BY <2>3, <2>4, ConstantsAssumption
  <2> QED BY <2>5 DEF UpstreamWithinCapacity, R
<1> QED BY <1>1, Invariance, PTL

\* A job reported failed has nothing running upstream.
THEOREM FailureIsSafe == Spec => []FailedMeansStopped
<1>1. IInv => FailedMeansStopped
  BY DEF IInv, RowsInv, RowInv, FailedMeansStopped
<1> QED BY <1>1, Invariance, PTL

\* Of all processes still working on a job at most one can commit.
THEOREM Fencing == Spec => []SingleOwner
<1>1. IInv => SingleOwner
  BY DEF IInv, EpochsDiffer, Owned, SingleOwner
<1> QED BY <1>1, Invariance, PTL

\* A finished job occupies no slot, and a waiting one only while its result is open.
THEOREM SlotsAreReturned == Spec => []SlotFreeOnceFinished
<1>1. IInv => SlotFreeOnceFinished
  BY DEF IInv, RowsInv, RowInv, SlotFreeOnceFinished
<1> QED BY <1>1, Invariance, PTL

\* begin_submit runs at most max_retries + 1 times for a job.
THEOREM BoundedAttempts == Spec => []AttemptsBounded
<1>1. IInv => AttemptsBounded
  BY DEF IInv, RowsInv, RowInv, AttemptsBounded
<1> QED BY <1>1, Invariance, PTL

\* A completed job has exactly one asset and no other job has any.
THEOREM ExactlyOneAsset == Spec => []OneAssetPerCompletedJob
<1>1. IInv => OneAssetPerCompletedJob
  BY DEF IInv
<1> QED BY <1>1, Invariance, PTL

-----------------------------------------------------------------------------
(* Final rows, and the contract.                                           *)

\* A step changes one row at most, and of a final one only the cancel mark.
OneRowChanges ==
  \E j \in Job :
    /\ \A i \in Job \ {j} : job'[i] = job[i]
    /\ job[j].status \in Live \/ job'[j] = [job[j] EXCEPT !.cancel = job'[j].cancel]
    /\ UNCHANGED upstream

LEMMA PutChanges ==
  ASSUME IInv, NEW j \in Job, NEW s, job' = [job EXCEPT ![j] = s], UNCHANGED upstream,
         job[j].status \in Live \/ s = [job[j] EXCEPT !.cancel = s.cancel]
  PROVE  OneRowChanges
<1>1. job'[j] = s /\ \A i \in Job \ {j} : job'[i] = job[i]
  BY DEF IInv, TypeOK
<1> QED BY <1>1 DEF OneRowChanges

LEMMA CommitChanges ==
  ASSUME IInv, NEW w \in Worker, NEW s, Commit(w, s), UNCHANGED upstream
  PROVE  UNCHANGED job \/ OneRowChanges
<1>1. CASE ~Owned(w)
  BY <1>1 DEF Commit
<1>2. CASE Owned(w)
  <2>1. worker[w].job \in Job /\ job[worker[w].job].status \in Live
    BY <1>2, OwnedFacts
  <2>2. job' = [job EXCEPT ![worker[w].job] = s]
    BY <1>2 DEF Commit
  <2> QED BY <2>1, <2>2, PutChanges
<1> QED BY <1>1, <1>2

LEMMA StepChanges ==
  ASSUME IInv, Next
  PROVE  UNCHANGED job \/ OneRowChanges
<1>1. ASSUME NEW w \in Worker, NEW j \in Job, Claim(w, j) PROVE UNCHANGED job \/ OneRowChanges
  <2>1. job[j].status \in Live /\ UNCHANGED upstream
    BY <1>1 DEF Claim, Claimable, Live
  <2>2. PICK s : job' = [job EXCEPT ![j] = s]
    BY <1>1 DEF Claim, Put
  <2> QED BY <2>1, <2>2, PutChanges
<1>2. ASSUME NEW w \in Worker, BeginSubmit(w) PROVE UNCHANGED job \/ OneRowChanges
  <2>1. CASE ~MaySubmit(w)
    BY <1>2, <2>1 DEF BeginSubmit
  <2>2. CASE MaySubmit(w)
    <3>1. worker[w].job \in Job /\ job[worker[w].job].status \in Live /\ UNCHANGED upstream
      BY <1>2, <2>2, OwnedFacts DEF MaySubmit, BeginSubmit
    <3>2. PICK s : job' = [job EXCEPT ![worker[w].job] = s]
      BY <1>2, <2>2 DEF BeginSubmit, Put
    <3> QED BY <3>1, <3>2, PutChanges
  <2> QED BY <2>1, <2>2
<1>3. ASSUME NEW w \in Worker,
             Defer(w) \/ Advance(w) \/ InvalidArtifact(w) \/ Complete(w) \/ Fail(w)
      PROVE  UNCHANGED job \/ OneRowChanges
  <2>1. UNCHANGED upstream /\ \E s : Commit(w, s)
    BY <1>3 DEF Defer, Advance, InvalidArtifact, Complete, Fail
  <2> QED BY <2>1, CommitChanges
<1>4. ASSUME NEW w \in Worker,
             \/ ProviderAccepts(w) \/ SubmitRefused(w) \/ SubmitUncertain(w) \/ SubmitReplies(w)
             \/ Operate(w) \/ OperationFails(w) \/ SaveArtifact(w) \/ SaveFails(w)
             \/ HeartbeatLost(w) \/ Crash(w)
      PROVE  UNCHANGED job
  BY <1>4 DEF ProviderAccepts, SubmitRefused, SubmitUncertain, SubmitReplies, Operate,
              OperationFails, SaveArtifact, SaveFails, HeartbeatLost, Crash
<1>5. ASSUME NEW j \in Job, UpstreamEnds(j) PROVE UNCHANGED job
  BY <1>5 DEF UpstreamEnds
<1>6. ASSUME NEW j \in Job,
             \/ LeaseExpires(j) \/ DeadlinePasses(j) \/ RecoverExpired(j) \/ ExpireDue(j)
             \/ ConfirmStopped(j) \/ ResumeReconciliation(j)
      PROVE  OneRowChanges
  <2>1. job[j].status \in Live /\ UNCHANGED upstream
    BY <1>6, RowFacts DEF LeaseExpires, DeadlinePasses, RecoverExpired, ExpireDue, Overdue,
                          ConfirmStopped, ResumeReconciliation, Live, RowInv
  <2>2. PICK s : job' = [job EXCEPT ![j] = s]
    BY <1>6 DEF LeaseExpires, DeadlinePasses, RecoverExpired, ExpireDue,
                ConfirmStopped, ResumeReconciliation, Put
  <2> QED BY <2>1, <2>2, PutChanges
<1>7. ASSUME NEW j \in Job, FlagCancel(j) PROVE OneRowChanges
  <2>1. job' = [job EXCEPT ![j] = [job[j] EXCEPT !.cancel = TRUE]] /\ UNCHANGED upstream
    BY <1>7 DEF FlagCancel, Put
  <2>2. [job[j] EXCEPT !.cancel = TRUE].cancel = TRUE
    BY RowFacts DEF Row
  <2> QED BY <2>1, <2>2, PutChanges
<1>8. ASSUME NEW j \in Job, RequestCancel(j) PROVE OneRowChanges
  <2>1. job' = [job EXCEPT ![j] = Cancelled(job[j], Kind[j] = "video")] /\ UNCHANGED upstream
    BY <1>8 DEF RequestCancel, Put
  <2>2. CASE job[j].status \in Live
    BY <2>1, <2>2, PutChanges
  <2>3. CASE job[j].status \notin Live
    <3>1. Cancelled(job[j], Kind[j] = "video") = job[j]
      BY <2>3, RowFacts DEF Cancelled, Row
    <3>2. job[j] = [job[j] EXCEPT !.cancel = job[j].cancel]
      BY RowFacts DEF Row
    <3> QED BY <2>1, <3>1, <3>2, PutChanges
  <2> QED BY <2>2, <2>3
<1> QED BY <1>1, <1>2, <1>3, <1>4, <1>5, <1>6, <1>7, <1>8 DEF Next, WorkerStep, JobStep

\* completed and failed are final: only the cancel mark of such a row may still change.
THEOREM FinalityOfVerdicts == Spec => TerminalIsFinal
<1> DEFINE Final == \A j \in Job : job[j].status \in {"completed", "failed"}
                      => job'[j] = [job[j] EXCEPT !.cancel = job'[j].cancel]
<1>1. IInv /\ [Next]_vars => [Final]_vars
  <2> SUFFICES ASSUME IInv, Next PROVE Final
    OBVIOUS
  <2>1. \A j \in Job : job[j] = [job[j] EXCEPT !.cancel = job[j].cancel]
    BY RowFacts DEF Row
  <2>2. CASE UNCHANGED job
    BY <2>1, <2>2
  <2>3. CASE OneRowChanges
    BY <2>1, <2>3 DEF OneRowChanges, Live
  <2> QED BY <2>2, <2>3, StepChanges
<1> QED BY <1>1, Invariance, PTL DEF TerminalIsFinal, Spec

LEMMA ContractStep ==
  ASSUME IInv, IInv', [Next]_vars PROVE [Contract!Next]_(Contract!vars)
<1> DEFINE v == [j \in Job |-> Verdict(job[j])]
<1>0. /\ \A j \in Job : v[j] = "pending" <=> job[j].status \in Live
      /\ \A j \in Job : job[j] \in Row /\ RowInv(job[j], Kind[j], upstream[j], started[j])
      /\ \A j \in Job : job'[j] \in Row /\ RowInv(job'[j], Kind[j], upstream'[j], started'[j])
  <2>1. \A j \in Job : job[j] \in Row /\ RowInv(job[j], Kind[j], upstream[j], started[j])
    BY DEF IInv, TypeOK, RowsInv
  <2>2. \A j \in Job : job'[j] \in Row /\ RowInv(job'[j], Kind[j], upstream'[j], started'[j])
    BY DEF IInv, TypeOK, RowsInv
  <2>3. \A j \in Job : v[j] = "pending" <=> job[j].status \in Live
    BY <2>1 DEF Verdict, Row, Live
  <2> QED BY <2>1, <2>2, <2>3
<1>1. CASE UNCHANGED <<job, upstream>>
  <2>1. v' = v
    BY <1>1
  <2> QED BY <1>1, <2>1 DEF Contract!vars
<1>2. CASE OneRowChanges
  <2>1. PICK j \in Job : /\ \A i \in Job \ {j} : job'[i] = job[i]
                         /\ job[j].status \in Live \/ job'[j] = [job[j] EXCEPT !.cancel = job'[j].cancel]
                         /\ UNCHANGED upstream
    BY <1>2 DEF OneRowChanges
  <2>2. v' = [v EXCEPT ![j] = Verdict(job'[j])]
    BY <2>1
  <2>3. CASE job[j].status \in Live /\ job'[j].status = "completed"
    <3>1. upstream[j] = "done" \/ Kind[j] = "export"
      BY <1>0, <2>1, <2>3 DEF RowInv, Delivered
    <3>2. v' = [v EXCEPT ![j] = "delivered"]
      BY <2>2, <2>3 DEF Verdict
    <3>3. Contract!Deliver(j)
      BY <1>0, <2>1, <2>3, <3>1, <3>2 DEF Contract!Deliver
    <3> QED BY <3>3 DEF Contract!Next
  <2>4. CASE job[j].status \in Live /\ job'[j].status = "failed"
    <3>1. upstream[j] # "running"
      BY <1>0, <2>1, <2>4 DEF RowInv
    <3>2. v' = [v EXCEPT ![j] = "failed"]
      BY <2>2, <2>4 DEF Verdict
    <3>3. Contract!GiveUp(j)
      BY <1>0, <2>1, <2>4, <3>1, <3>2 DEF Contract!GiveUp
    <3> QED BY <3>3 DEF Contract!Next
  <2>5. CASE job[j].status \in Live /\ job'[j].status \in Live
    <3>1. Verdict(job[j]) = "pending" /\ Verdict(job'[j]) = "pending"
      BY <2>5 DEF Verdict, Live
    <3>2. v' = v
      BY <2>2, <3>1
    <3> QED BY <2>1, <3>2 DEF Contract!vars
  <2>6. CASE job[j].status \notin Live
    <3>1. job'[j].status = job[j].status
      <4>1. job'[j] = [job[j] EXCEPT !.cancel = job'[j].cancel]
        BY <2>1, <2>6
      <4>2. [job[j] EXCEPT !.cancel = job'[j].cancel].status = job[j].status
        BY <1>0 DEF Row
      <4> QED BY <4>1, <4>2
    <3>2. Verdict(job'[j]) = Verdict(job[j])
      BY <3>1 DEF Verdict
    <3>3. v' = v
      BY <2>2, <3>2
    <3> QED BY <2>1, <3>3 DEF Contract!vars
  <2>7. job'[j].status \in Live \cup {"completed", "failed"}
    BY <1>0 DEF Row
  <2> QED BY <2>3, <2>4, <2>5, <2>6, <2>7
<1>3. ASSUME NEW w \in Worker, ProviderAccepts(w) PROVE [Contract!Next]_(Contract!vars)
  <2> DEFINE j == worker[w].job
             R == {i \in Job : upstream[i] = "running"}
             S == {i \in Job : job[i].slot}
  <2>1. /\ j \in Job /\ job[j].phase = "submitting" /\ job[j].status \in Live
        /\ job[j].slot /\ upstream[j] = "none"
    BY <1>3, CallingFacts DEF ProviderAccepts
  <2>2. upstream' = [upstream EXCEPT ![j] = "running"] /\ v' = v
    BY <1>3 DEF ProviderAccepts
  <2>3. Cardinality(R) < SlotLimit
    <3>1. R \subseteq S \ {j}
      BY <1>0, <2>1 DEF RowInv
    <3>2. IsFiniteSet(S) /\ IsFiniteSet(S \ {j}) /\ j \in S
      BY <2>1, FiniteJobs, FS_Subset
    <3>3. Cardinality(S) <= SlotLimit
      BY DEF IInv, SlotsBounded, Occupied
    <3> HIDE DEF R, S
    <3>4. Cardinality(S \ {j}) = Cardinality(S) - 1
      BY <3>2, FS_RemoveElement
    <3>5. /\ Cardinality(R) <= Cardinality(S \ {j}) /\ Cardinality(R) \in Nat
          /\ Cardinality(S) \in Nat
      BY <3>1, <3>2, FS_Subset, FS_CardinalityType
    <3> QED BY <3>3, <3>4, <3>5, ConstantsAssumption
  <2>4. Kind[j] # "export"
    BY <1>0, <2>1 DEF RowInv
  <2>5. Contract!Cardinality(R) = Cardinality(R)
    BY DEF Contract!Cardinality, Cardinality
  <2>6. Contract!Generate(j)
    BY <1>0, <2>1, <2>2, <2>3, <2>4, <2>5 DEF Contract!Generate, Contract!Running
  <2> QED BY <2>1, <2>6 DEF Contract!Next
<1>4. ASSUME NEW j \in Job, UpstreamEnds(j) PROVE [Contract!Next]_(Contract!vars)
  <2>1. v' = v
    BY <1>4 DEF UpstreamEnds
  <2>2. Contract!Finish(j)
    BY <1>4, <2>1 DEF UpstreamEnds, Contract!Finish
  <2> QED BY <2>2 DEF Contract!Next
<1>5. ASSUME Next, UNCHANGED job
      PROVE  \/ UNCHANGED upstream
             \/ \E w \in Worker : ProviderAccepts(w)
             \/ \E j \in Job : UpstreamEnds(j)
  <2>1. ASSUME NEW w \in Worker, WorkerStep(w) PROVE UNCHANGED upstream \/ ProviderAccepts(w)
    BY <2>1 DEF WorkerStep, Claim, Defer, BeginSubmit, SubmitRefused, SubmitUncertain,
                SubmitReplies, Operate, OperationFails, Advance, InvalidArtifact, SaveArtifact,
                SaveFails, Complete, Fail, HeartbeatLost, Crash
  <2>2. ASSUME NEW j \in Job, JobStep(j) PROVE UNCHANGED upstream \/ UpstreamEnds(j)
    BY <2>2 DEF JobStep, LeaseExpires, DeadlinePasses, RecoverExpired, ExpireDue, FlagCancel,
                RequestCancel, ConfirmStopped, ResumeReconciliation
  <2> QED BY <1>5, <2>1, <2>2 DEF Next
<1>6. CASE Next
  BY <1>1, <1>2, <1>3, <1>4, <1>5, <1>6, StepChanges
<1>7. CASE UNCHANGED vars
  BY <1>1, <1>7 DEF vars
<1> QED BY <1>6, <1>7

\* The execution of jobs implements the contract: one generation per job, capacity
\* respected, verdicts final and never contradicted by what runs upstream.
THEOREM ImplementsTheContract == Spec => ImplementsContract
<1>1. Init => Contract!Init
  BY DEF Init, Contract!Init, Accepted, Verdict
<1>2. IInv /\ IInv' /\ [Next]_vars => [Contract!Next]_(Contract!vars)
  BY ContractStep
<1> QED BY <1>1, <1>2, Invariance, PTL DEF Spec, ImplementsContract, Contract!Spec
=============================================================================
