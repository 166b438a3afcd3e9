------------------------ MODULE CoreExecutionProofs ------------------------
(***************************************************************************)
(* Proofs about CoreExecution, for any tasks, workers, prices, retries and *)
(* faults: an attempt is generated once, the bill and the counters follow  *)
(* from the verdicts, an asset is published once and never for a           *)
(* cancelled task, a cancelled task is not sent, and all of it implements  *)
(* TaskContract.                                                           *)
(***************************************************************************)
EXTENDS CoreExecutionInvariant, FiniteSetTheorems, TLAPS

Phases == {"ready", "preparing", "sending", "poll", "unknown", "download", "publish", "done"}

-----------------------------------------------------------------------------
(* Constants and records.                                                  *)

LEMMA Constants ==
  /\ None \notin Worker /\ Quote \in Nat /\ Quote # 0 /\ Costs \subseteq Nat
  /\ MaxRetries \in Nat /\ MaxFaults \in Nat
BY ExecutionAssumption

LEMMA NoReplyType ==
  /\ NoReply \in Replies /\ NoReply.status = "none"
  /\ ~Pays(NoReply) /\ ~Retries(NoReply)
BY DEF NoReply, Replies, Pays, Retries, Outcomes

LEMMA ReplyFields ==
  ASSUME NEW reply \in Replies
  PROVE  /\ reply.status \in {"none", "pending", "retryable", "failed", "blocked_by_model", "cancelled"} \cup Outcomes
         /\ reply.cost \in Nat
         /\ Pays(reply) => reply.cost \in Costs
<1>1. CASE reply \in [status : {"none", "pending", "retryable", "failed", "blocked_by_model", "cancelled"}, cost : {0}]
  BY <1>1 DEF Pays, Outcomes
<1>2. CASE reply \in [status : Outcomes, cost : Costs]
  BY <1>2, Constants DEF Pays
<1> QED BY <1>1, <1>2 DEF Replies

LEMMA RowFields ==
  ASSUME NEW r \in Row
  PROVE  /\ r.status \in {"queued", "submitted"} \cup Final /\ r.phase \in Phases
         /\ r.cancel \in BOOLEAN /\ r.attempt \in {"none", "registered", "sending", "submitted"}
         /\ r.known \in BOOLEAN /\ r.reply \in Replies /\ r.artifact \in BOOLEAN /\ r.spooled \in BOOLEAN
         /\ r.credits \in 0..Quote /\ r.lease \in Worker \cup {None}
         /\ r.expired \in BOOLEAN /\ r.late \in BOOLEAN
         /\ r.retries \in 0..(MaxRetries + 1) /\ r.retried \in 0..MaxRetries
BY DEF Row, Phases

LEMMA ClaimFields ==
  ASSUME NEW c \in Claim
  PROVE  /\ c.at \in {"idle", "calling", "accepted", "replied", "saving", "failed"}
         /\ c.task \in Task \cup {None} /\ c.phase \in Phases /\ c.reply \in Replies
BY DEF Claim, Phases

LEMMA IdleFields == Idle \in Claim /\ Idle.at = "idle" /\ Idle.reply = NoReply
BY NoReplyType DEF Idle, Claim

LEMMA EnqueuedFields ==
  /\ Enqueued \in Row /\ Enqueued.status = "queued" /\ Enqueued.phase = "ready" /\ ~Enqueued.cancel
  /\ Enqueued.attempt = "none" /\ ~Enqueued.known /\ Enqueued.reply = NoReply /\ Enqueued.lease = None
  /\ Enqueued.retried = 0
BY Constants, NoReplyType DEF Enqueued, Row, Final

LEMMA ReleasedFields ==
  ASSUME NEW r \in Row
  PROVE  /\ Released(r) \in Row /\ Released(r).lease = None
         /\ Released(r).status = r.status /\ Released(r).phase = r.phase /\ Released(r).cancel = r.cancel
         /\ Released(r).attempt = r.attempt /\ Released(r).known = r.known /\ Released(r).reply = r.reply
         /\ Released(r).credits = r.credits /\ Released(r).retried = r.retried
<1>1. Released(r) \in Row
  BY DEF Released, Row
<1> QED BY <1>1 DEF Released, Row

LEMMA FailingFields ==
  ASSUME NEW r \in Row
  PROVE  /\ Failing(r) \in Row /\ Failing(r).lease = r.lease
         /\ Failing(r).status = r.status /\ Failing(r).phase = r.phase /\ Failing(r).cancel = r.cancel
         /\ Failing(r).attempt = r.attempt /\ Failing(r).known = r.known /\ Failing(r).reply = r.reply
         /\ Failing(r).credits = r.credits /\ Failing(r).retried = r.retried
<1>1. (IF r.retries > MaxRetries THEN r.retries ELSE r.retries + 1) \in 0..(MaxRetries + 1)
  BY RowFields, Constants
<1>2. Failing(r) \in Row
  BY <1>1 DEF Failing, Row
<1> QED BY <1>2 DEF Failing, Row

LEMMA FinishedFields ==
  ASSUME NEW r \in Row, NEW status \in Final
  PROVE  /\ Finished(r, status) \in Row /\ Finished(r, status).phase = "done"
         /\ Finished(r, status).status = status /\ Finished(r, status).lease = None
         /\ Finished(r, status).cancel = r.cancel /\ Finished(r, status).attempt = r.attempt
         /\ ~Finished(r, status).known /\ Finished(r, status).reply = NoReply
         /\ Finished(r, status).retried = 0
<1> DEFINE e == Enqueued
<1>1. /\ e \in Row /\ e.lease = None /\ ~e.known /\ e.reply = NoReply /\ e.retried = 0
      /\ r.cancel \in BOOLEAN /\ r.attempt \in {"none", "registered", "sending", "submitted"}
  BY EnqueuedFields, RowFields
<1>2. Finished(r, status) = [e EXCEPT !.status = status, !.phase = "done", !.cancel = r.cancel, !.attempt = r.attempt]
  BY DEF Finished
<1> HIDE DEF e
<1>3. Finished(r, status) \in Row
  BY <1>1, <1>2 DEF Row
<1> QED BY <1>1, <1>2, <1>3 DEF Row

LEMMA RetryingFields ==
  ASSUME NEW r \in Row, r.retried < MaxRetries
  PROVE  /\ Retrying(r) \in Row /\ Retrying(r).lease = r.lease /\ Retrying(r).status = r.status
         /\ Retrying(r).phase = "sending" /\ Retrying(r).attempt = "none"
         /\ ~Retrying(r).known /\ Retrying(r).reply = NoReply /\ Retrying(r).cancel = r.cancel
         /\ Retrying(r).retried = r.retried + 1
<1> DEFINE f == Failing(r)
<1>1. f \in Row /\ f.lease = r.lease /\ f.status = r.status /\ f.retried = r.retried /\ f.cancel = r.cancel
  BY FailingFields
<1>2. f.retried + 1 \in 0..MaxRetries
  BY <1>1, RowFields, Constants
<1> HIDE DEF f
<1>3. [f EXCEPT !.retried = @ + 1, !.phase = "sending", !.attempt = "none", !.known = FALSE, !.reply = NoReply] \in Row
  BY <1>1, <1>2, NoReplyType DEF Row
<1> QED BY <1>1, <1>3 DEF Retrying, Row, f

LEMMA ConsumedFields ==
  ASSUME NEW r \in Row
  PROVE  /\ Consumed(r) \in Row /\ Consumed(r).lease = None
         /\ Consumed(r).status = r.status /\ Consumed(r).phase = r.phase /\ Consumed(r).cancel = r.cancel
         /\ Consumed(r).attempt = "submitted" /\ Consumed(r).known = r.known
         /\ Consumed(r).credits = r.credits /\ Consumed(r).retried = r.retried
<1>1. Released(r) \in Row
  BY ReleasedFields
<1>2. Consumed(r) \in Row
  BY <1>1 DEF Consumed, Row
<1> QED BY <1>1, <1>2, ReleasedFields DEF Consumed, Row

-----------------------------------------------------------------------------
(* A step on one task.                                                     *)

LEMMA Owner ==
  ASSUME TypeOK, NEW w \in Worker, worker[w].at # "idle"
  PROVE  Of(w) \in Task /\ task[Of(w)] \in Row /\ worker[w] \in Claim
BY DEF TypeOK, Of

LEMMA OtherSend ==
  ASSUME NEW t \in Task, SendInv(t), task'[t] = task[t], upstream'[t] = upstream[t], begun'[t] = begun[t],
         \A v \in Worker : worker'[v] = worker[v] \/ worker'[v] = Idle \/ Of(v)' # t
  PROVE  SendInv(t)'
<1>1. \A v \in Worker : Owned(v)' /\ Of(v)' = t => worker'[v] = worker[v] /\ Owned(v) /\ Of(v) = t
  BY IdleFields DEF Owned, Of
<1>2. \A v \in Worker : Sends(v, t)' => Sends(v, t)
  BY IdleFields DEF Sends, Of
<1>3. Unbegun(t)' <=> Unbegun(t)
  BY DEF Unbegun
<1>4. Untold(t) => Untold(t)'
  BY <1>1 DEF Untold
<1>5. Unbegun(t)' => Untold(t)' /\ \A w \in Worker : ~Sends(w, t)'
  BY <1>2, <1>3, <1>4 DEF SendInv
<1>6. \A w \in Worker : Sends(w, t)' => Untold(t)' /\ \A v \in Worker : Sends(v, t)' => v = w
  BY <1>2, <1>4 DEF SendInv
<1>7. Retries(task'[t].reply) => upstream'[t] # "running"
  BY DEF SendInv
<1>8. \A w \in Worker : Owned(w)' /\ Of(w)' = t /\ Retries(worker'[w].reply) => upstream'[t] # "running"
  BY <1>1 DEF SendInv
<1> QED BY <1>5, <1>6, <1>7, <1>8 DEF SendInv, Retries

Elsewhere(t) ==
  \A u \in Task \ {t} : /\ task'[u] = task[u] /\ ledger'[u] = ledger[u] /\ upstream'[u] = upstream[u]
                        /\ begun'[u] = begun[u] /\ assets'[u] = assets[u] /\ drawn'[u] = drawn[u]

\* The step of CancelledIsNotSent.
NotSent ==
  \A t \in Task : task[t].cancel /\ task'[t].attempt = "sending" => task[t].attempt = "sending"

Counters == account.reserved = Quote * Cardinality(Held) + account.spent

LEMMA Local ==
  ASSUME StateInv, TypeOK', Counters', tool' = tool, NEW t \in Task, Elsewhere(t),
         \A v \in Worker : worker'[v] = worker[v] \/ worker'[v] = Idle \/ Of(v)' = t,
         LifeInv(t)', BillInv(t)', begun'[t] <= 1, tool[t] = "staged" => SendInv(t)',
         \A v \in Worker : Of(v)' = t => ClaimInv(v)'
  PROVE  StateInv'
<1>1. ASSUME NEW u \in Task \ {t}
      PROVE  /\ LifeInv(u)' /\ BillInv(u)' /\ begun'[u] <= 1
             /\ tool'[u] = "staged" => SendInv(u)'
  <2>1. LifeInv(u) /\ BillInv(u) /\ begun[u] <= 1 /\ (tool[u] = "staged" => SendInv(u))
    BY DEF StateInv
  <2>2. LifeInv(u)'
    BY <2>1 DEF LifeInv, Elsewhere, Pays
  <2>3. BillInv(u)'
    BY <2>1 DEF BillInv, MayBeDrawn, Elsewhere
  <2>4. \A v \in Worker : worker'[v] = worker[v] \/ worker'[v] = Idle \/ Of(v)' # u
    OBVIOUS
  <2>5. SendInv(u) => SendInv(u)'
    BY <2>4, OtherSend DEF Elsewhere
  <2> QED BY <2>1, <2>2, <2>3, <2>5 DEF Elsewhere
<1>2. ASSUME NEW v \in Worker, Of(v)' # t
      PROVE  ClaimInv(v)'
  <2> SUFFICES ASSUME Owned(v)' PROVE ClaimInv(v)'
    BY DEF ClaimInv
  <2>1. worker'[v] = worker[v] /\ worker[v].at # "idle"
    BY <1>2, IdleFields DEF Owned
  <2>2. Of(v) \in Task \ {t} /\ Of(v)' = Of(v)
    BY <1>2, <2>1, Owner DEF StateInv, Of
  <2>3. task'[Of(v)] = task[Of(v)] /\ upstream'[Of(v)] = upstream[Of(v)]
    BY <2>2 DEF Elsewhere
  <2>4. Owned(v)
    BY <2>1, <2>2, <2>3 DEF Owned, Of
  <2> QED BY <2>1, <2>2, <2>3, <2>4 DEF StateInv, ClaimInv
<1> QED BY <1>1, <1>2 DEF StateInv, Counters

\* What a worker may do while its task's row moves on: nothing, end, or go on to save.
Passes(v) ==
  /\ worker[v].at # "idle" /\ worker'[v].task = worker[v].task /\ worker'[v].phase = worker[v].phase
  /\ worker'[v].reply = worker[v].reply /\ worker'[v].at \notin {"calling", "accepted"}

WorkersPass(t) ==
  /\ worker' \in [Worker -> Claim]
  /\ \A v \in Worker : worker'[v] = worker[v] \/ worker'[v] = Idle \/ (Of(v) = t /\ Passes(v))

LEMMA PassTypes ==
  ASSUME TypeOK, NEW t, WorkersPass(t)
  PROVE  /\ \A w \in Worker : worker'[w].at # "idle" => worker'[w].task \in Task
         /\ \A v \in Worker : worker'[v] = worker[v] \/ worker'[v] = Idle \/ Of(v)' = t
BY IdleFields DEF WorkersPass, Passes, TypeOK, Of

LEMMA UnchangedPass ==
  ASSUME TypeOK, worker' = worker, NEW t
  PROVE  WorkersPass(t)
BY DEF WorkersPass, TypeOK

LEMMA LeavesPass ==
  ASSUME TypeOK, NEW w \in Worker, Leaves(w), NEW t
  PROVE  WorkersPass(t)
BY IdleFields DEF WorkersPass, TypeOK, Leaves

\* A step that changes the row of a task in flight, and neither money nor provider.
RowMoves(t) ==
  LET old == task[t]
      new == task'[t]
  IN /\ task' \in [Task -> Row] /\ \A u \in Task \ {t} : task'[u] = task[u]
     /\ new.status = old.status
     /\ new.attempt = "sending" => old.attempt = "sending"
     /\ old.phase \notin {"ready", "done"} /\ new.phase \notin {"ready", "done"}
     /\ new.phase \in {"download", "publish"} => new.credits \in Costs /\ upstream[t] = "done"
     /\ Pays(new.reply) => upstream[t] = "done"
     /\ tool[t] = "staged" /\ Retries(new.reply) => upstream[t] # "running"
     /\ Unbegun(t)' => Unbegun(t)
     /\ tool[t] = "staged" /\ Untold(t) => ~new.known /\ new.reply = NoReply
     /\ \/ new.lease = None
        \/ new.lease = old.lease /\ (new.phase = old.phase \/ {new.phase, old.phase} \subseteq {"poll", "unknown"})

LEMMA RowKeeps ==
  ASSUME StateInv, NEW t \in Task, RowMoves(t), WorkersPass(t),
         UNCHANGED <<tool, run, obsolete, ledger, account, upstream, begun, assets, drawn>>
  PROVE  StateInv' /\ NotSent
<1>1. TypeOK'
  BY PassTypes DEF StateInv, TypeOK, RowMoves, WorkersPass
<1>2. task[t] \in Row /\ task'[t] \in Row /\ TypeOK /\ LifeInv(t) /\ BillInv(t) /\ begun[t] <= 1
      /\ (tool[t] = "staged" => SendInv(t))
  BY DEF StateInv, TypeOK, RowMoves
<1>3. Counters'
  BY DEF StateInv, Counters, Held
<1>4. Elsewhere(t)
  BY DEF Elsewhere, RowMoves
<1>5. \A v \in Worker : worker'[v] = worker[v] \/ worker'[v] = Idle \/ Of(v)' = t
  BY <1>2, PassTypes
<1>6. LifeInv(t)'
  BY <1>2 DEF LifeInv, RowMoves, Pays
<1>7. BillInv(t)'
  <2>1. ~drawn[t]
    BY <1>2 DEF LifeInv, RowMoves
  <2> QED BY <1>2, <2>1 DEF BillInv, RowMoves
<1>8. ASSUME NEW v \in Worker, Owned(v)', Of(v)' = t
      PROVE  /\ Owned(v) /\ Of(v) = t /\ worker'[v].phase = worker[v].phase /\ worker'[v].reply = worker[v].reply
             /\ worker'[v].at = "accepted" => worker[v].at = "accepted"
             /\ task'[t].lease = task[t].lease /\ task'[t].lease # None
  <2>1. worker'[v] # Idle /\ task'[t].lease = v
    BY <1>8, IdleFields DEF Owned, Of
  <2>2. task'[t].lease # None /\ task'[t].lease = task[t].lease
    BY <2>1, Constants DEF RowMoves
  <2>3. CASE worker'[v] = worker[v]
    BY <1>8, <2>1, <2>2, <2>3 DEF Owned, Of
  <2>4. CASE Of(v) = t /\ Passes(v)
    BY <2>1, <2>2, <2>4 DEF Owned, Of, Passes
  <2> QED BY <2>1, <2>3, <2>4 DEF WorkersPass
<1>9. ASSUME tool[t] = "staged" PROVE SendInv(t)'
  <2>1. \A v \in Worker : Sends(v, t)' => Sends(v, t)
    BY IdleFields DEF WorkersPass, Passes, Sends, Of
  <2>2. Untold(t) => Untold(t)'
    BY <1>8, <1>9 DEF Untold, RowMoves
  <2>3. Unbegun(t)' => Untold(t)' /\ \A w \in Worker : ~Sends(w, t)'
    BY <1>2, <1>9, <2>1, <2>2 DEF SendInv, RowMoves
  <2>4. \A w \in Worker : Sends(w, t)' => Untold(t)' /\ \A v \in Worker : Sends(v, t)' => v = w
    BY <1>2, <1>9, <2>1, <2>2 DEF SendInv
  <2>5. Retries(task'[t].reply) => upstream'[t] # "running"
    BY <1>9 DEF RowMoves
  <2>6. \A w \in Worker : Owned(w)' /\ Of(w)' = t /\ Retries(worker'[w].reply) => upstream'[t] # "running"
    BY <1>2, <1>8, <1>9 DEF SendInv
  <2> QED BY <2>3, <2>4, <2>5, <2>6 DEF SendInv, Retries
<1>10. ASSUME NEW v \in Worker, Of(v)' = t PROVE ClaimInv(v)'
  <2> SUFFICES ASSUME Owned(v)' PROVE ClaimInv(v)'
    BY DEF ClaimInv
  <2>1. ClaimInv(v) /\ Owned(v) /\ Of(v) = t /\ worker'[v].phase = worker[v].phase /\ worker'[v].reply = worker[v].reply
    BY <1>8, <1>10 DEF StateInv
  <2>2. task'[t].phase = task[t].phase \/ {task'[t].phase, task[t].phase} \subseteq {"poll", "unknown"}
    BY <1>8, <1>10 DEF RowMoves
  <2>3. worker[v].phase = task[t].phase \/ {worker[v].phase, task[t].phase} \subseteq {"poll", "unknown"}
    BY <2>1 DEF ClaimInv
  <2>4. worker'[v].phase = task'[t].phase \/ {worker'[v].phase, task'[t].phase} \subseteq {"poll", "unknown"}
    BY <2>1, <2>2, <2>3
  <2> QED BY <1>10, <2>1, <2>4 DEF ClaimInv, Pays
<1>11. NotSent
  BY DEF NotSent, RowMoves
<1> QED BY <1>1, <1>2, <1>3, <1>4, <1>5, <1>6, <1>7, <1>9, <1>10, <1>11, Local

-----------------------------------------------------------------------------
(* Credits.                                                                *)

LEMMA HeldIsFinite ==
  ASSUME TypeOK
  PROVE  IsFiniteSet(Held) /\ Cardinality(Held) \in Nat
<1>1. Held \subseteq Task
  BY DEF Held
<1> QED BY <1>1, FiniteTasks, FS_Subset, FS_CardinalityType

LEMMA Times ==
  ASSUME NEW n \in Nat
  PROVE  Quote * n \in Nat /\ Quote * (n + 1) = Quote * n + Quote
BY Constants

LEMMA SettleMoney ==
  ASSUME TypeOK, Counters, NEW t \in Task, ledger[t].state = "reserved",
         NEW outcome \in Final, NEW charge \in 0..Quote, SettleAs(t, outcome, charge)
  PROVE  /\ Counters'
         /\ account' \in [available : Nat, reserved : Nat, spent : Nat]
         /\ ledger' \in [Task -> [state : {"none", "reserved", "settled", "refunded", "cancelled_with_charge"},
                                  charged : 0..Quote]]
         /\ ledger'[t].state # "reserved" /\ ledger'[t].charged = charge
         /\ \A u \in Task \ {t} : ledger'[u] = ledger[u]
<1>1. LedgerState(outcome, charge) \in {"settled", "refunded", "cancelled_with_charge"}
  BY DEF LedgerState
<1>2. /\ ledger' = [ledger EXCEPT ![t] = [state |-> LedgerState(outcome, charge), charged |-> charge]]
      /\ account' = [account EXCEPT !.available = @ + (Quote - charge),
                                    !.reserved = @ - (Quote - charge),
                                    !.spent = @ + charge]
  BY DEF SettleAs
<1>3. /\ ledger'[t].state # "reserved" /\ ledger'[t].charged = charge
      /\ \A u \in Task \ {t} : ledger'[u] = ledger[u]
      /\ ledger' \in [Task -> [state : {"none", "reserved", "settled", "refunded", "cancelled_with_charge"},
                               charged : 0..Quote]]
  BY <1>1, <1>2 DEF TypeOK
<1>4. t \in Held /\ Held' = Held \ {t}
  BY <1>3 DEF Held
<1>5. Cardinality(Held) = Cardinality(Held') + 1 /\ Cardinality(Held') \in Nat
  <2>1. IsFiniteSet(Held) /\ Cardinality(Held) \in Nat
    BY HeldIsFinite
  <2>2. Cardinality(Held \ {t}) = Cardinality(Held) - 1 /\ IsFiniteSet(Held \ {t})
    BY <1>4, <2>1, FS_RemoveElement
  <2>3. Cardinality(Held \ {t}) \in Nat
    BY <2>2, FS_CardinalityType
  <2> QED BY <1>4, <2>1, <2>2, <2>3
<1>6. Quote * Cardinality(Held) = Quote * Cardinality(Held') + Quote /\ Quote * Cardinality(Held') \in Nat
  BY <1>5, Times
<1>7. /\ account.available \in Nat /\ account.reserved \in Nat /\ account.spent \in Nat
      /\ account \in [available : Nat, reserved : Nat, spent : Nat]
  BY DEF TypeOK
<1>8. account.reserved - (Quote - charge) = Quote * Cardinality(Held') + (account.spent + charge)
  BY <1>6, <1>7, Constants DEF Counters
<1>9. /\ account.available + (Quote - charge) \in Nat
      /\ account.reserved - (Quote - charge) \in Nat
      /\ account.spent + charge \in Nat
  BY <1>6, <1>7, <1>8, Constants
<1>10. account' \in [available : Nat, reserved : Nat, spent : Nat]
  BY <1>2, <1>7, <1>9
<1>11. account'.reserved = account.reserved - (Quote - charge) /\ account'.spent = account.spent + charge
  BY <1>2, <1>7
<1>12. Counters'
  BY <1>8, <1>11 DEF Counters
<1> QED BY <1>3, <1>10, <1>12

LEMMA ReserveMoney ==
  ASSUME TypeOK, Counters, NEW t \in Task, ledger[t].state # "reserved", MayReserve, Reserve(t)
  PROVE  /\ Counters'
         /\ account' \in [available : Nat, reserved : Nat, spent : Nat]
         /\ ledger' \in [Task -> [state : {"none", "reserved", "settled", "refunded", "cancelled_with_charge"},
                                  charged : 0..Quote]]
         /\ ledger'[t].state = "reserved" /\ ledger'[t].charged = 0
         /\ \A u \in Task \ {t} : ledger'[u] = ledger[u]
<1>1. /\ ledger'[t].state = "reserved" /\ ledger'[t].charged = 0
      /\ \A u \in Task \ {t} : ledger'[u] = ledger[u]
      /\ ledger' \in [Task -> [state : {"none", "reserved", "settled", "refunded", "cancelled_with_charge"},
                               charged : 0..Quote]]
  BY Constants DEF TypeOK, Reserve
<1>2. t \notin Held /\ Held' = Held \cup {t}
  BY <1>1 DEF Held
<1>3. Cardinality(Held') = Cardinality(Held) + 1 /\ Cardinality(Held) \in Nat
  BY <1>2, HeldIsFinite, FS_AddElement
<1>4. Quote * Cardinality(Held') = Quote * Cardinality(Held) + Quote
  BY <1>3, Times
<1>5. /\ account.available \in Nat /\ account.reserved \in Nat /\ account.spent \in Nat
      /\ account \in [available : Nat, reserved : Nat, spent : Nat]
  BY DEF TypeOK
<1>6. account.available - Quote \in Nat /\ account.reserved + Quote \in Nat
  BY <1>5, Constants DEF MayReserve
<1>7. account' \in [available : Nat, reserved : Nat, spent : Nat]
  BY <1>5, <1>6 DEF Reserve
<1>8. account'.reserved = account.reserved + Quote /\ account'.spent = account.spent
  BY <1>5 DEF Reserve
<1>9. Counters'
  <2>1. Quote * Cardinality(Held) \in Nat
    BY <1>3, Times
  <2> QED BY <1>4, <1>5, <1>8, <2>1, Constants DEF Counters
<1> QED BY <1>1, <1>7, <1>9

\* A verdict that may be settled, with the results it may have.
Settles(t, status, actual) ==
  /\ task[t].phase # "done"
  /\ status \in Final /\ actual \in 0..Quote
  /\ status \in {"failed", "blocked_by_model"} => actual = 0
  /\ actual > 0 => upstream[t] = "done"
  /\ status = "succeeded" => actual \in Costs /\ task[t].status = "submitted"

Results(t, row, status) ==
  /\ assets' \in [Task -> Nat] /\ drawn' \in [Task -> BOOLEAN]
  /\ \A u \in Task \ {t} : assets'[u] = assets[u] /\ drawn'[u] = drawn[u]
  /\ assets'[t] <= 1
  /\ drawn'[t] => /\ assets'[t] = 1 /\ ~row.cancel
                  /\ status = "succeeded" \/ (status = "failed" /\ tool[t] = "text")

LEMMA SameResultsFit ==
  ASSUME StateInv, NEW t \in Task, NEW row, NEW status, task[t].phase # "done", SameResults
  PROVE  Results(t, row, status)
<1>1. assets[t] = 0 /\ ~drawn[t]
  BY DEF StateInv, LifeInv
<1> QED BY <1>1 DEF Results, SameResults, StateInv, TypeOK

LEMMA Verdict ==
  ASSUME StateInv, NEW t \in Task, NEW status, NEW actual, Settles(t, status, actual), Settle(t, status, actual)
  PROVE  /\ Counters'
         /\ account' \in [available : Nat, reserved : Nat, spent : Nat]
         /\ ledger' \in [Task -> [state : {"none", "reserved", "settled", "refunded", "cancelled_with_charge"},
                                  charged : 0..Quote]]
         /\ ledger'[t].state # "reserved"
         /\ \A u \in Task \ {t} : ledger'[u] = ledger[u]
         /\ ledger'[t].charged \in 0..actual
         /\ status = "succeeded" => ledger'[t].charged = actual
<1> DEFINE outcome == Outcome(t, status)
           charge == Charge(outcome, actual)
<1>1. TypeOK /\ Counters /\ LifeInv(t) /\ BillInv(t)
  BY DEF StateInv, Counters
<1>2. outcome \in Final /\ charge \in {0, actual} /\ charge \in 0..Quote
      /\ (status = "succeeded" => charge = actual) /\ charge \in 0..actual
  BY Constants DEF Outcome, Charge, Settles, Final
<1>3. SettleAs(t, outcome, charge)
  BY DEF Settle
<1>4. CASE ledger[t].state = "reserved"
  BY <1>1, <1>2, <1>3, <1>4, SettleMoney
<1>5. CASE ledger[t].state # "reserved"
  <2>1. ledger' = ledger /\ account' = account
    BY <1>3, <1>5 DEF SettleAs, SameMoney
  <2>2. ledger[t].charged = 0 /\ status # "succeeded"
    BY <1>1, <1>5 DEF LifeInv, BillInv, Settles
  <2> QED BY <1>1, <1>2, <1>5, <2>1, <2>2 DEF Counters, Held, TypeOK, Settles
<1> QED BY <1>4, <1>5

LEMMA FinishKeeps ==
  ASSUME StateInv, NEW t \in Task, NEW row \in Row, NEW status, NEW actual, Settles(t, status, actual),
         Finish(t, row, status, actual), Results(t, row, status), WorkersPass(t),
         row.attempt = "sending" => task[t].attempt = "sending",
         UNCHANGED <<tool, run, obsolete, upstream, begun>>
  PROVE  StateInv' /\ NotSent
<1>1. TypeOK /\ BillInv(t) /\ begun[t] <= 1 /\ (tool[t] = "staged" => SendInv(t)) /\ status \in Final
  BY DEF StateInv, Settles
<1>2. /\ task' \in [Task -> Row] /\ \A u \in Task \ {t} : task'[u] = task[u]
      /\ task'[t].phase = "done" /\ task'[t].status = status /\ task'[t].lease = None
      /\ ~task'[t].known /\ task'[t].reply = NoReply /\ task'[t].cancel = row.cancel
  BY <1>1, FinishedFields DEF Finish, TypeOK
<1>3. /\ Counters'
      /\ account' \in [available : Nat, reserved : Nat, spent : Nat]
      /\ ledger' \in [Task -> [state : {"none", "reserved", "settled", "refunded", "cancelled_with_charge"},
                               charged : 0..Quote]]
      /\ ledger'[t].state # "reserved"
      /\ \A u \in Task \ {t} : ledger'[u] = ledger[u]
      /\ ledger'[t].charged \in 0..actual
      /\ status = "succeeded" => ledger'[t].charged = actual
  BY Verdict DEF Finish
<1>4. TypeOK'
  BY <1>1, <1>2, <1>3, PassTypes DEF TypeOK, Results, WorkersPass
<1>5. Elsewhere(t)
  BY <1>2, <1>3 DEF Elsewhere, Results
<1>6. \A v \in Worker : worker'[v] = worker[v] \/ worker'[v] = Idle \/ Of(v)' = t
  BY <1>1, PassTypes
<1>7. LifeInv(t)'
  BY <1>1, <1>2, NoReplyType DEF LifeInv, Pays
<1>8. BillInv(t)'
  <2>1. status # "submitted"
    BY <1>1 DEF Final
  <2>2. status \in {"failed", "blocked_by_model"} => ledger'[t].charged = 0
    BY <1>3 DEF Settles
  <2>3. ledger'[t].charged > 0 => status \in {"succeeded", "cancelled"} /\ upstream[t] = "done"
    BY <1>1, <1>3, Constants DEF Settles, Final
  <2>4. status = "succeeded" => ledger'[t].charged \in Costs
    BY <1>3 DEF Settles
  <2>5. drawn'[t] => assets'[t] = 1 /\ MayBeDrawn(t)'
    BY <1>2 DEF Results, MayBeDrawn
  <2> QED BY <1>2, <1>3, <2>1, <2>2, <2>3, <2>4, <2>5 DEF BillInv, Results
<1>9. \A v \in Worker : Of(v)' = t => ~Owned(v)'
  BY <1>2, Constants DEF Owned, Of
<1>10. ASSUME tool[t] = "staged" PROVE SendInv(t)'
  <2>1. \A v \in Worker : Sends(v, t)' => Sends(v, t)
    BY IdleFields DEF WorkersPass, Passes, Sends, Of
  <2>2. Untold(t) => Untold(t)'
    BY <1>2, <1>9 DEF Untold
  <2>3. ~Unbegun(t)' /\ ~Retries(task'[t].reply)
    BY <1>2, NoReplyType DEF Unbegun, Retries
  <2>4. \A w \in Worker : Sends(w, t)' => Untold(t)' /\ \A v \in Worker : Sends(v, t)' => v = w
    BY <1>1, <1>10, <2>1, <2>2 DEF SendInv
  <2> QED BY <1>9, <2>3, <2>4 DEF SendInv, Retries
<1>11. \A v \in Worker : Of(v)' = t => ClaimInv(v)'
  BY <1>9 DEF ClaimInv
<1>12. NotSent
  BY <1>1, <1>2, FinishedFields DEF NotSent, Finish, TypeOK
<1> QED BY <1>1, <1>3, <1>4, <1>5, <1>6, <1>7, <1>8, <1>10, <1>11, <1>12, Local

-----------------------------------------------------------------------------
(* Leases.                                                                 *)

LEMMA OperationType ==
  ASSUME NEW t, NEW row
  PROVE  /\ Operation(t, row) \in {"none", "verify", "prepare", "found", "download", "stored", "cancel", "submit", "query"}
         /\ Operation(t, row) = "submit" => FirstSend(row)
         /\ Operation(t, row) = "cancel" => row.cancel
BY DEF Operation

\* The row and the worker after a lease.
LEMMA LeaseShape ==
  ASSUME TypeOK, NEW w \in Worker, NEW t \in Task, NEW row \in Row, Lease(w, t, row)
  PROVE  /\ task' \in [Task -> Row] /\ \A u \in Task \ {t} : task'[u] = task[u]
         /\ task'[t].status = row.status /\ task'[t].phase = row.phase /\ task'[t].cancel = row.cancel
         /\ task'[t].known = row.known /\ task'[t].reply = row.reply /\ task'[t].credits = row.credits
         /\ task'[t].lease = w
         /\ FirstSend(row) => task'[t].attempt = "sending"
         /\ ~FirstSend(row) => task'[t].attempt = row.attempt
                               \/ (row.attempt = "none" /\ task'[t].attempt = "registered")
         /\ worker' \in [Worker -> Claim] /\ \A v \in Worker \ {w} : worker'[v] = worker[v]
         /\ worker'[w].task = t /\ worker'[w].phase = row.phase /\ worker'[w].reply = row.reply
         /\ worker'[w].at \in {"calling", "replied", "saving"}
         /\ worker'[w].op = "submit" => FirstSend(row)
         /\ worker'[w].op = "cancel" => row.cancel
         /\ task'[t].retried = row.retried
<1> DEFINE op == Operation(t, row)
           attempt == IF FirstSend(row) THEN "sending" ELSE IF row.attempt = "none" THEN "registered" ELSE row.attempt
           new == [row EXCEPT !.lease = w, !.expired = FALSE, !.spooled = FALSE, !.attempt = attempt]
           at == CASE op = "stored" -> "replied" [] op = "found" -> "saving" [] OTHER -> "calling"
           claim == [at |-> at, task |-> t, phase |-> row.phase, op |-> op, reply |-> row.reply]
<1>1. task' = [task EXCEPT ![t] = new] /\ worker' = [worker EXCEPT ![w] = claim]
  BY DEF Lease
<1>2. attempt \in {"none", "registered", "sending", "submitted"}
  BY RowFields
<1>3. op \in {"none", "verify", "prepare", "found", "download", "stored", "cancel", "submit", "query"}
      /\ (op = "submit" => FirstSend(row)) /\ (op = "cancel" => row.cancel)
  BY OperationType
<1>4. at \in {"calling", "replied", "saving"}
  OBVIOUS
<1>5. FirstSend(row) => attempt = "sending"
  OBVIOUS
<1>6. ~FirstSend(row) => attempt = row.attempt \/ (row.attempt = "none" /\ attempt = "registered")
  BY DEF FirstSend
<1> HIDE DEF op, attempt, at
<1>7. new \in Row
  BY <1>2 DEF Row
<1>8. /\ new.status = row.status /\ new.phase = row.phase /\ new.cancel = row.cancel /\ new.known = row.known
      /\ new.reply = row.reply /\ new.credits = row.credits /\ new.lease = w /\ new.attempt = attempt
      /\ new.retried = row.retried
  BY DEF Row
<1>9. claim \in Claim
  BY <1>3, <1>4, RowFields DEF Claim, Phases
<1>10. task'[t] = new /\ task' \in [Task -> Row] /\ \A u \in Task \ {t} : task'[u] = task[u]
  BY <1>1, <1>7 DEF TypeOK
<1>11. worker'[w] = claim /\ worker' \in [Worker -> Claim] /\ \A v \in Worker \ {w} : worker'[v] = worker[v]
  BY <1>1, <1>9 DEF TypeOK
<1> HIDE DEF new
<1> QED BY <1>3, <1>4, <1>5, <1>6, <1>8, <1>10, <1>11

LEMMA LeaseKeeps ==
  ASSUME StateInv, NEW w \in Worker, NEW t \in Task, NEW row \in Row, worker[w] = Idle, Lease(w, t, row),
         row.known = task[t].known, row.reply = task[t].reply, row.attempt = task[t].attempt,
         row.phase \notin {"ready", "done"},
         row.phase \in {"preparing", "sending"} => task[t].phase \in {row.phase, "ready"},
         FirstSend(row) => ~task[t].cancel,
         Counters', account' \in [available : Nat, reserved : Nat, spent : Nat],
         ledger' \in [Task -> [state : {"none", "reserved", "settled", "refunded", "cancelled_with_charge"},
                               charged : 0..Quote]],
         \A u \in Task \ {t} : ledger'[u] = ledger[u],
         LifeInv(t)', BillInv(t)',
         UNCHANGED <<tool, run, obsolete, upstream, begun, assets, drawn>>
  PROVE  StateInv' /\ NotSent
<1>1. TypeOK /\ LifeInv(t) /\ begun[t] <= 1 /\ (tool[t] = "staged" => SendInv(t))
  BY DEF StateInv
<1>2. /\ task' \in [Task -> Row] /\ \A u \in Task \ {t} : task'[u] = task[u]
      /\ task'[t].phase = row.phase /\ task'[t].known = row.known /\ task'[t].reply = row.reply
      /\ task'[t].lease = w
      /\ FirstSend(row) => task'[t].attempt = "sending"
      /\ ~FirstSend(row) => task'[t].attempt = row.attempt
                            \/ (row.attempt = "none" /\ task'[t].attempt = "registered")
      /\ worker' \in [Worker -> Claim] /\ \A v \in Worker \ {w} : worker'[v] = worker[v]
      /\ worker'[w].task = t /\ worker'[w].phase = row.phase /\ worker'[w].reply = row.reply
      /\ worker'[w].at \in {"calling", "replied", "saving"}
      /\ worker'[w].op = "submit" => FirstSend(row)
  BY <1>1, LeaseShape
<1>3. TypeOK'
  BY <1>1, <1>2 DEF TypeOK
<1>4. Elsewhere(t)
  BY <1>2 DEF Elsewhere
<1>5. \A v \in Worker : worker'[v] = worker[v] \/ worker'[v] = Idle \/ Of(v)' = t
  BY <1>2 DEF Of
<1>6. \A v \in Worker \ {w} : Of(v)' = t => ~Owned(v)'
  BY <1>2 DEF Owned, Of
<1>7. FirstSend(row) => Unbegun(t)
  BY DEF FirstSend, Unbegun
<1>8. Unbegun(t)' => Unbegun(t) /\ row.phase = "preparing"
  BY <1>2 DEF Unbegun, FirstSend
<1>9. ASSUME tool[t] = "staged" PROVE SendInv(t)'
  <2>1. Untold(t) => Untold(t)'
    BY <1>2, <1>6 DEF Untold
  <2>2. \A v \in Worker : Sends(v, t)' => Sends(v, t) \/ (v = w /\ FirstSend(row))
    <3>1. \A v \in Worker \ {w} : Sends(v, t)' => Sends(v, t)
      BY <1>2 DEF Sends, Of
    <3>2. Sends(w, t)' => FirstSend(row)
      BY <1>2 DEF Sends
    <3> QED BY <3>1, <3>2
  <2>3. Unbegun(t)' => Untold(t)' /\ \A v \in Worker : ~Sends(v, t)'
    <3> SUFFICES ASSUME Unbegun(t)' PROVE Untold(t)' /\ \A v \in Worker : ~Sends(v, t)'
      OBVIOUS
    <3>1. ~FirstSend(row) /\ Unbegun(t)
      BY <1>8 DEF FirstSend
    <3> QED BY <1>1, <1>9, <2>1, <2>2, <3>1 DEF SendInv
  <2>4. ~Sends(w, t)
    BY IdleFields DEF Sends
  <2>5. \A u \in Worker : Sends(u, t)' => Untold(t)' /\ \A v \in Worker : Sends(v, t)' => v = u
    BY <1>1, <1>7, <1>9, <2>1, <2>2, <2>4 DEF SendInv
  <2>6. Retries(task'[t].reply) => upstream'[t] # "running"
    BY <1>1, <1>2, <1>9 DEF SendInv, Retries
  <2>7. \A v \in Worker : Owned(v)' /\ Of(v)' = t /\ Retries(worker'[v].reply) => upstream'[t] # "running"
    BY <1>1, <1>2, <1>6, <1>9 DEF SendInv, Retries
  <2> QED BY <2>3, <2>5, <2>6, <2>7 DEF SendInv, Retries
<1>10. \A v \in Worker : Of(v)' = t => ClaimInv(v)'
  <2>1. ClaimInv(w)'
    BY <1>1, <1>2 DEF ClaimInv, Of, LifeInv, Pays
  <2> QED BY <1>6, <2>1 DEF ClaimInv
<1>11. NotSent
  BY <1>2 DEF NotSent
<1> QED BY <1>1, <1>3, <1>4, <1>5, <1>9, <1>10, <1>11, Local

-----------------------------------------------------------------------------
(* Workers on their own.                                                   *)

\* A step of the provider or of workers on t that leaves the database alone.
Outside(t) ==
  /\ UNCHANGED <<tool, task, ledger, account, run, obsolete, assets, drawn>>
  /\ worker' \in [Worker -> Claim]
  /\ \A v \in Worker : worker'[v].at # "idle" => worker'[v].task \in Task
  /\ upstream' \in [Task -> {"none", "running", "done", "failed", "cancelled"}] /\ begun' \in [Task -> Nat]
  /\ \A u \in Task \ {t} : upstream'[u] = upstream[u] /\ begun'[u] = begun[u]
  /\ upstream[t] = "done" => upstream'[t] = "done"
  /\ begun'[t] <= 1

LEMMA OutsideKeeps ==
  ASSUME StateInv, NEW t \in Task, Outside(t),
         \A v \in Worker : \/ worker'[v] = worker[v] \/ worker'[v] = Idle
                           \/ /\ Of(v)' = t /\ Of(v) = t /\ worker[v].at # "idle"
                              /\ worker'[v].phase = worker[v].phase
                              /\ Owned(v) /\ Pays(worker'[v].reply) => upstream'[t] = "done",
         tool[t] = "staged" => SendInv(t)'
  PROVE  StateInv' /\ NotSent
<1>1. TypeOK /\ LifeInv(t) /\ BillInv(t)
  BY DEF StateInv
<1>2. TypeOK' /\ Counters' /\ Elsewhere(t) /\ NotSent
  BY <1>1 DEF StateInv, Outside, TypeOK, Counters, Held, Elsewhere, NotSent
<1>3. LifeInv(t)' /\ BillInv(t)' /\ begun'[t] <= 1
  BY <1>1 DEF Outside, LifeInv, BillInv, MayBeDrawn, Pays
<1>4. ASSUME NEW v \in Worker, Of(v)' = t PROVE ClaimInv(v)'
  <2> SUFFICES ASSUME Owned(v)' PROVE ClaimInv(v)'
    BY DEF ClaimInv
  <2>1. worker'[v] # Idle
    BY IdleFields DEF Owned
  <2>2. CASE worker'[v] = worker[v]
    <3>1. Owned(v) /\ Of(v) = t /\ ClaimInv(v)
      BY <1>4, <2>2 DEF Owned, Of, StateInv, Outside
    <3> QED BY <1>4, <2>2, <3>1 DEF ClaimInv, Outside
  <2>3. CASE Of(v) = t /\ worker[v].at # "idle" /\ worker'[v].phase = worker[v].phase
             /\ (Owned(v) /\ Pays(worker'[v].reply) => upstream'[t] = "done")
    <3>1. Owned(v) /\ ClaimInv(v)
      BY <1>4, <2>3 DEF Owned, Of, StateInv, Outside
    <3> QED BY <1>4, <2>3, <3>1 DEF ClaimInv, Outside, Pays
  <2> QED BY <2>1, <2>2, <2>3
<1> QED BY <1>1, <1>2, <1>3, <1>4, Local DEF Outside

\* A worker ends, or goes on with what it knows, and sends nothing.
LEMMA PassKeeps ==
  ASSUME StateInv, NEW t \in Task, WorkersPass(t),
         UNCHANGED <<tool, task, ledger, account, run, obsolete, upstream, begun, assets, drawn>>
  PROVE  StateInv' /\ NotSent
<1>1. TypeOK /\ begun[t] <= 1 /\ (tool[t] = "staged" => SendInv(t))
  BY DEF StateInv
<1>2. Outside(t)
  BY <1>1, PassTypes DEF Outside, WorkersPass, TypeOK
<1>3. ASSUME NEW v \in Worker, Of(v)' = t, Owned(v)'
      PROVE  /\ Owned(v) /\ Of(v) = t /\ worker'[v].reply = worker[v].reply
             /\ worker'[v].at = "accepted" => worker[v].at = "accepted"
  BY <1>3, IdleFields DEF WorkersPass, Passes, Owned, Of
<1>4. ASSUME tool[t] = "staged" PROVE SendInv(t)'
  <2>1. \A v \in Worker : Sends(v, t)' => Sends(v, t)
    BY IdleFields DEF WorkersPass, Passes, Sends, Of
  <2>2. Untold(t) => Untold(t)'
    BY <1>3 DEF Untold
  <2>3. Unbegun(t)' <=> Unbegun(t)
    BY DEF Unbegun
  <2> QED BY <1>1, <1>3, <1>4, <2>1, <2>2, <2>3 DEF SendInv, Retries
<1>5. ASSUME NEW v \in Worker, Of(v) = t, Passes(v)
      PROVE  /\ Of(v)' = t /\ worker[v].at # "idle" /\ worker'[v].phase = worker[v].phase
             /\ Owned(v) /\ Pays(worker'[v].reply) => upstream'[t] = "done"
  BY <1>5 DEF Passes, Of, StateInv, ClaimInv, Pays
<1> QED BY <1>2, <1>4, <1>5, OutsideKeeps DEF WorkersPass

\* The answer of a call: nobody else has a request under way, or nothing came back.
LEMMA AnswerKeeps ==
  ASSUME StateInv, NEW w \in Worker, NEW t \in Task, worker[w].at # "idle", Of(w) = t,
         NEW reply \in Replies, Answers(w, reply),
         UNCHANGED <<tool, task, ledger, account, run, obsolete, assets, drawn, begun>>,
         upstream' \in [Task -> {"none", "running", "done", "failed", "cancelled"}],
         \A u \in Task \ {t} : upstream'[u] = upstream[u],
         upstream'[t] = upstream[t] \/ (upstream[t] = "running" /\ upstream'[t] = "cancelled"),
         Pays(reply) => upstream'[t] = "done",
         tool[t] = "staged" =>
           /\ Retries(reply) => upstream'[t] # "running"
           /\ Owned(w) /\ Untold(t) => Sends(w, t)
  PROVE  StateInv' /\ NotSent
<1> DEFINE claim == [Goes(w, "replied") EXCEPT !.reply = IF Owned(w) THEN reply ELSE @]
<1>1. TypeOK /\ worker[w] \in Claim /\ begun[t] <= 1 /\ (tool[t] = "staged" => SendInv(t))
  BY Owner DEF StateInv
<1>2. worker' = [worker EXCEPT ![w] = claim]
  BY DEF Answers
<1>3. \/ ~Owned(w) /\ claim = Idle
      \/ /\ Owned(w) /\ claim \in Claim /\ claim.at = "replied" /\ claim.task = t
         /\ claim.phase = worker[w].phase /\ claim.reply = reply
  <2>1. CASE ~Owned(w)
    BY <2>1 DEF Goes, Idle
  <2>2. CASE Owned(w)
    <3> DEFINE half == [worker[w] EXCEPT !.at = "replied"]
    <3>1. claim = [half EXCEPT !.reply = reply]
      BY <2>2 DEF Goes
    <3> HIDE DEF claim
    <3>2. half \in Claim /\ half.at = "replied" /\ half.task = t /\ half.phase = worker[w].phase
      BY <1>1 DEF Claim, Of
    <3> HIDE DEF half
    <3>3. claim \in Claim
      BY <3>1, <3>2 DEF Claim
    <3>4. claim.at = half.at /\ claim.task = half.task /\ claim.phase = half.phase /\ claim.reply = reply
      BY <3>1, <3>2 DEF Claim
    <3> QED BY <2>2, <3>2, <3>3, <3>4
  <2> QED BY <2>1, <2>2
<1> HIDE DEF claim
<1>4. worker' \in [Worker -> Claim] /\ worker'[w] = claim /\ \A v \in Worker \ {w} : worker'[v] = worker[v]
  BY <1>1, <1>2, <1>3, IdleFields DEF TypeOK
<1>5. Outside(t)
  <2>1. \A v \in Worker : worker'[v].at # "idle" => worker'[v].task \in Task
    BY <1>1, <1>3, <1>4, IdleFields DEF TypeOK
  <2> QED BY <1>1, <1>4, <2>1 DEF Outside, TypeOK
<1>6. \A v \in Worker : \/ worker'[v] = worker[v] \/ worker'[v] = Idle
                        \/ /\ Of(v)' = t /\ Of(v) = t /\ worker[v].at # "idle"
                           /\ worker'[v].phase = worker[v].phase
                           /\ Owned(v) /\ Pays(worker'[v].reply) => upstream'[t] = "done"
  BY <1>3, <1>4 DEF Of
<1>7. ASSUME tool[t] = "staged" PROVE SendInv(t)'
  <2>1. ~Sends(w, t)' /\ \A v \in Worker : Sends(v, t)' => Sends(v, t)
    BY <1>3, <1>4, IdleFields DEF Sends, Of
  <2>2. ASSUME Untold(t), ~Owned(w) PROVE Untold(t)'
    <3>1. upstream'[t] = "none" /\ worker'[w] = Idle
      BY <1>3, <1>4, <2>2 DEF Untold
    <3>2. \A v \in Worker : Owned(v)' /\ Of(v)' = t => Owned(v) /\ Of(v) = t /\ worker'[v] = worker[v]
      BY <1>4, <3>1, IdleFields DEF Owned, Of
    <3> QED BY <2>2, <3>1, <3>2 DEF Untold
  <2>3. Owned(w) /\ Untold(t) => Sends(w, t)
    BY <1>7
  <2>4. Unbegun(t)' <=> Unbegun(t)
    BY DEF Unbegun
  <2>5. Unbegun(t)' => Untold(t)' /\ \A v \in Worker : ~Sends(v, t)'
    BY <1>1, <1>7, <2>1, <2>2, <2>3, <2>4 DEF SendInv
  <2>6. \A u \in Worker : Sends(u, t)' => Untold(t)' /\ \A v \in Worker : Sends(v, t)' => v = u
    BY <1>1, <1>7, <2>1, <2>2, <2>3 DEF SendInv
  <2>7. Retries(task'[t].reply) => upstream'[t] # "running"
    BY <1>1, <1>7 DEF SendInv
  <2>8. ASSUME NEW v \in Worker, Owned(v)', Of(v)' = t, Retries(worker'[v].reply) PROVE upstream'[t] # "running"
    <3>1. CASE v = w
      BY <1>3, <1>4, <1>7, <2>8, <3>1, IdleFields DEF Owned
    <3>2. CASE v # w
      <4>1. worker'[v] = worker[v] /\ Owned(v) /\ Of(v) = t
        BY <1>4, <2>8, <3>2 DEF Owned, Of
      <4> QED BY <1>1, <1>7, <2>8, <4>1 DEF SendInv
    <3> QED BY <3>1, <3>2
  <2> QED BY <2>5, <2>6, <2>7, <2>8 DEF SendInv, Retries
<1> QED BY <1>1, <1>5, <1>6, <1>7, OutsideKeeps

LEMMA ReportFields ==
  ASSUME NEW t, NEW u, NEW op, NEW reply \in Reports(t, u, op),
         u \in {"none", "running", "done", "failed", "cancelled"}
  PROVE  /\ reply \in Replies /\ u # "none"
         /\ Pays(reply) => u = "done"
         /\ Retries(reply) => u = "failed"
<1>1. CASE u = "running"
  BY <1>1 DEF Reports, Says, Replies, Pays, Retries, Outcomes
<1>2. CASE u = "failed"
  BY <1>2 DEF Reports, Says, Replies, Pays, Retries, Outcomes
<1>3. CASE u = "cancelled"
  BY <1>3 DEF Reports, Says, Replies, Pays, Retries, Outcomes
<1>4. CASE u = "done"
  <2>1. reply \in [status : Outcomes, cost : Costs]
    BY <1>4 DEF Reports, Succeeds, Outcomes
  <2> QED BY <1>4, <2>1 DEF Replies, Retries, Outcomes
<1>5. CASE u = "none"
  BY <1>5 DEF Reports
<1> QED BY <1>1, <1>2, <1>3, <1>4, <1>5

-----------------------------------------------------------------------------
(* Replies.                                                                *)

LEMMA RetryKeeps ==
  ASSUME StateInv, NEW t \in Task, WorkersPass(t),
         task[t].phase \notin {"ready", "done"}, task[t].retried < MaxRetries,
         task' = [task EXCEPT ![t] = Retrying(Consumed(task[t]))], NewAttempt(t),
         UNCHANGED <<tool, ledger, account, run, obsolete, assets, drawn>>,
         tool[t] = "staged" => ~Untold(t) /\ upstream[t] # "running"
  PROVE  StateInv' /\ NotSent
<1>1. TypeOK /\ task[t] \in Row /\ LifeInv(t) /\ BillInv(t) /\ begun[t] <= 1 /\ (tool[t] = "staged" => SendInv(t))
  BY DEF StateInv, TypeOK
<1>2. /\ task' \in [Task -> Row] /\ \A u \in Task \ {t} : task'[u] = task[u]
      /\ task'[t].status = task[t].status /\ task'[t].phase = "sending" /\ task'[t].lease = None
      /\ task'[t].attempt = "none" /\ ~task'[t].known /\ task'[t].reply = NoReply
  <2> DEFINE row == Consumed(task[t])
  <2>1. row \in Row /\ row.lease = None /\ row.status = task[t].status /\ row.retried < MaxRetries
    BY <1>1, ConsumedFields
  <2> HIDE DEF row
  <2>2. /\ Retrying(row) \in Row /\ Retrying(row).lease = None /\ Retrying(row).status = task[t].status
        /\ Retrying(row).phase = "sending" /\ Retrying(row).attempt = "none"
        /\ ~Retrying(row).known /\ Retrying(row).reply = NoReply
    BY <2>1, RetryingFields
  <2>3. task' = [task EXCEPT ![t] = Retrying(row)]
    BY DEF row
  <2> QED BY <1>1, <2>2, <2>3 DEF TypeOK
<1>3. /\ upstream' \in [Task -> {"none", "running", "done", "failed", "cancelled"}]
      /\ begun' \in [Task -> Nat] /\ begun'[t] <= 1
      /\ \A u \in Task \ {t} : upstream'[u] = upstream[u] /\ begun'[u] = begun[u]
      /\ tool[t] = "staged" => upstream'[t] = "none" /\ begun'[t] = 0
  <2>1. CASE upstream[t] = "running"
    BY <1>1, <2>1 DEF NewAttempt, SameUpstream, TypeOK
  <2>2. CASE upstream[t] # "running"
    <3>1. upstream' = [upstream EXCEPT ![t] = "none"] /\ begun' = [begun EXCEPT ![t] = 0]
      BY <2>2 DEF NewAttempt
    <3> QED BY <1>1, <3>1 DEF TypeOK
  <2> QED BY <2>1, <2>2
<1>4. TypeOK'
  BY <1>1, <1>2, <1>3, PassTypes DEF TypeOK, WorkersPass
<1>5. Counters' /\ Elsewhere(t) /\ NotSent
  BY <1>2, <1>3 DEF StateInv, Counters, Held, Elsewhere, NotSent
<1>6. \A v \in Worker : worker'[v] = worker[v] \/ worker'[v] = Idle \/ Of(v)' = t
  BY <1>1, PassTypes
<1>7. LifeInv(t)'
  BY <1>1, <1>2, NoReplyType DEF LifeInv, Pays
<1>8. BillInv(t)'
  <2>1. ledger[t].charged = 0 /\ task[t].status = "submitted" /\ ~drawn[t]
    BY <1>1 DEF LifeInv
  <2> QED BY <1>1, <1>2, <2>1 DEF BillInv
<1>9. \A v \in Worker : Of(v)' = t => ~Owned(v)'
  BY <1>2, Constants DEF Owned, Of
<1>10. ASSUME tool[t] = "staged" PROVE SendInv(t)'
  <2>1. \A v \in Worker : ~Sends(v, t)'
    BY <1>1, <1>10, IdleFields DEF WorkersPass, Passes, Sends, Of, SendInv
  <2>2. Untold(t)'
    BY <1>2, <1>3, <1>9, <1>10 DEF Untold
  <2>3. ~Retries(task'[t].reply)
    BY <1>2, NoReplyType
  <2> QED BY <1>9, <2>1, <2>2, <2>3 DEF SendInv, Retries
<1>11. \A v \in Worker : Of(v)' = t => ClaimInv(v)'
  BY <1>9 DEF ClaimInv
<1> QED BY <1>1, <1>3, <1>4, <1>5, <1>6, <1>7, <1>8, <1>10, <1>11, Local

LEMMA ConsumeKeeps ==
  ASSUME StateInv, NEW t \in Task, NEW reply \in Replies, NEW saved \in BOOLEAN,
         Consume(t, task[t], reply, saved), WorkersPass(t), task[t].phase \in Asking,
         UNCHANGED <<tool, run, obsolete>>,
         Pays(reply) => upstream[t] = "done",
         tool[t] = "staged" => ~Untold(t) /\ (Retries(reply) => upstream[t] # "running")
  PROVE  StateInv' /\ NotSent
<1> DEFINE row == Consumed(task[t])
<1>1. TypeOK /\ task[t] \in Row /\ LifeInv(t) /\ task[t].phase \notin {"ready", "done"}
  BY DEF StateInv, TypeOK, Asking
<1>2. task[t].status = "submitted"
  BY <1>1 DEF LifeInv
<1>3. /\ row \in Row /\ row.lease = None /\ row.status = task[t].status /\ row.phase = task[t].phase
      /\ row.attempt = "submitted" /\ row.known = task[t].known /\ row.credits = task[t].credits
      /\ row.retried = task[t].retried /\ row.reply = task[t].reply
  BY <1>1, ConsumedFields, ReleasedFields DEF Consumed, Row
<1>4. Quote \in Nat /\ reply.cost \in Nat /\ (Pays(reply) => reply.cost \in Costs)
  BY Constants, ReplyFields
<1>5. assets[t] = 0 /\ ~drawn[t] /\ row.cancel = task[t].cancel
  BY <1>1, ConsumedFields DEF LifeInv
<1> HIDE DEF row
<1>6. \A status : SameResults => Results(t, row, status)
  BY <1>1, SameResultsFit
<1>7. CASE MayRetry(row, reply) /\ task' = [task EXCEPT ![t] = Retrying(row)] /\ NewAttempt(t) /\ SameMoney
         /\ SameResults
  <2>1. task[t].retried < MaxRetries /\ Retries(reply)
    BY <1>3, <1>7 DEF MayRetry, Retries
  <2> QED BY <1>1, <1>7, <2>1, RetryKeeps DEF SameMoney, SameResults, row
<1>8. CASE reply.status = "pending"
           /\ task' = [task EXCEPT ![t] = [row EXCEPT !.phase = "poll", !.reply = NoReply]]
           /\ SameUpstream /\ SameMoney /\ SameResults
  <2> DEFINE new == [row EXCEPT !.phase = "poll", !.reply = NoReply]
  <2>1. new \in Row
    BY <1>3, NoReplyType DEF Row
  <2>2. new.phase = "poll" /\ new.reply = NoReply /\ new.status = row.status /\ new.lease = None
        /\ new.attempt = "submitted"
    BY <1>3 DEF Row
  <2> HIDE DEF new
  <2>3. task'[t] = new /\ task' \in [Task -> Row] /\ \A u \in Task \ {t} : task'[u] = task[u]
    BY <1>1, <1>8, <2>1 DEF TypeOK, new
  <2>4. RowMoves(t)
    BY <1>1, <1>3, <2>2, <2>3, NoReplyType DEF RowMoves, Unbegun
  <2> QED BY <1>8, <2>4, RowKeeps DEF SameUpstream, SameMoney, SameResults
<1>9. ASSUME NEW status, NEW actual, Settles(t, status, actual), Finish(t, row, status, actual), SameUpstream,
             Results(t, row, status)
      PROVE  StateInv' /\ NotSent
  BY <1>3, <1>9, FinishKeeps DEF SameUpstream
<1>10. CASE reply.status \in {"cancelled", "failed", "blocked_by_model"}
            /\ Finish(t, row, reply.status, 0) /\ SameUpstream /\ SameResults
  <2>1. Settles(t, reply.status, 0)
    BY <1>1, <1>4, <1>10 DEF Settles, Final
  <2> QED BY <1>6, <1>9, <1>10, <2>1
<1>11. Settles(t, "failed", 0)
  BY <1>1, <1>4 DEF Settles, Final
<1>12. CASE Finish(t, row, "failed", 0) /\ SameUpstream /\ SameResults
  BY <1>6, <1>9, <1>11, <1>12
<1>13. CASE reply.cost > Quote
            /\ task' = [task EXCEPT ![t] = [row EXCEPT !.phase = "unknown", !.late = TRUE]]
            /\ SameUpstream /\ SameMoney /\ SameResults
  <2> DEFINE new == [row EXCEPT !.phase = "unknown", !.late = TRUE]
  <2>1. new \in Row
    BY <1>3 DEF Row
  <2>2. new.phase = "unknown" /\ new.reply = row.reply /\ new.status = row.status /\ new.lease = None
        /\ new.attempt = "submitted"
    BY <1>3 DEF Row
  <2> HIDE DEF new
  <2>3. task'[t] = new /\ task' \in [Task -> Row] /\ \A u \in Task \ {t} : task'[u] = task[u]
    BY <1>1, <1>13, <2>1 DEF TypeOK, new
  <2>4. tool[t] = "staged" /\ Retries(task[t].reply) => upstream[t] # "running"
    BY DEF StateInv, SendInv
  <2>5. RowMoves(t)
    BY <1>1, <1>3, <2>2, <2>3, <2>4 DEF RowMoves, Unbegun, LifeInv
  <2> QED BY <1>13, <2>5, RowKeeps DEF SameUpstream, SameMoney, SameResults
<1>14. CASE reply.status = "output" /\ reply.cost <= Quote
            /\ ConsumeOutput(t, row, reply.cost) /\ SameUpstream
  <2>1. Settles(t, "succeeded", reply.cost)
    BY <1>1, <1>2, <1>4, <1>14 DEF Settles, Final, Pays, Outcomes
  <2>2. ASSUME NEW status \in {"succeeded", "failed"}, tool[t] = "text", Keep(t, Cancelling(row))
        PROVE  Results(t, row, status)
    BY <1>1, <1>5, <2>2 DEF Results, Keep, Cancelling, TypeOK
  <2>3. ASSUME NEW status \in {"succeeded", "failed"},
               IF tool[t] = "text" THEN Keep(t, Cancelling(row)) ELSE SameResults
        PROVE  Results(t, row, status)
    BY <1>6, <2>2, <2>3
  <2> QED BY <1>6, <1>9, <1>11, <1>14, <2>1, <2>3 DEF ConsumeOutput
<1>15. CASE reply.status \in {"located", "delivered"} /\ reply.cost <= Quote
            /\ task' = [task EXCEPT ![t] =
                 [row EXCEPT !.credits = reply.cost, !.reply = NoReply, !.late = FALSE,
                             !.phase = IF saved THEN "publish" ELSE "download"]]
            /\ SameUpstream /\ SameMoney /\ SameResults
  <2> DEFINE new == [row EXCEPT !.credits = reply.cost, !.reply = NoReply, !.late = FALSE,
                                !.phase = IF saved THEN "publish" ELSE "download"]
  <2>1. Pays(reply) /\ reply.cost \in 0..Quote
    BY <1>4, <1>15 DEF Pays, Outcomes
  <2>2. new \in Row
    BY <1>3, <2>1, NoReplyType DEF Row
  <2>3. new.phase \in {"publish", "download"} /\ new.reply = NoReply /\ new.status = row.status /\ new.lease = None
        /\ new.attempt = "submitted" /\ new.credits = reply.cost
    BY <1>3 DEF Row
  <2> HIDE DEF new
  <2>4. task'[t] = new /\ task' \in [Task -> Row] /\ \A u \in Task \ {t} : task'[u] = task[u]
    BY <1>1, <1>15, <2>2 DEF TypeOK, new
  <2>5. RowMoves(t)
    BY <1>1, <1>3, <1>4, <2>1, <2>3, <2>4, NoReplyType DEF RowMoves, Unbegun
  <2> QED BY <1>15, <2>5, RowKeeps DEF SameUpstream, SameMoney, SameResults
<1> QED BY <1>7, <1>8, <1>10, <1>12, <1>13, <1>14, <1>15 DEF Consume, row

-----------------------------------------------------------------------------
(* Steps that touch columns which the invariant hardly reads.              *)

Touched(t) ==
  LET old == task[t]
      new == task'[t]
  IN /\ new.phase = old.phase /\ new.attempt = old.attempt /\ new.known = old.known /\ new.reply = old.reply
     /\ new.credits = old.credits /\ new.lease = old.lease
     /\ new.status = old.status \/ (old.status = "queued" /\ new.status = "cancelled")
     /\ new.phase = "ready" => ~new.cancel
     /\ old.phase = "done" => new.cancel = old.cancel

LEMMA TouchKeeps ==
  ASSUME StateInv, TypeOK', \A t \in Task : Touched(t),
         account'.reserved = account.reserved, account'.spent = account.spent,
         UNCHANGED <<tool, ledger, worker, upstream, begun, assets, drawn>>
  PROVE  StateInv' /\ NotSent
<1>1. TypeOK /\ Counters'
  BY DEF StateInv, Counters, Held
<1>2. ASSUME NEW t \in Task
      PROVE  LifeInv(t)' /\ BillInv(t)' /\ begun'[t] <= 1 /\ (tool'[t] = "staged" => SendInv(t)')
  <2>1. LifeInv(t) /\ BillInv(t) /\ begun[t] <= 1 /\ (tool[t] = "staged" => SendInv(t)) /\ Touched(t)
    BY DEF StateInv
  <2>2. task[t].status = "queued" => task[t].phase = "ready"
    BY <2>1, <1>1, RowFields DEF LifeInv, TypeOK, Final
  <2>3. LifeInv(t)'
    BY <2>1, <2>2 DEF LifeInv, Touched, Pays
  <2>4. BillInv(t)'
    <3>1. task[t].phase = "ready" => ledger[t].charged = 0 /\ ~drawn[t]
      BY <2>1 DEF LifeInv
    <3>2. CASE task'[t].status = task[t].status
      <4>1. drawn[t] => task[t].phase = "done"
        BY <2>1 DEF LifeInv
      <4>2. MayBeDrawn(t) /\ task[t].phase = "done" => MayBeDrawn(t)'
        BY <2>1, <3>2 DEF MayBeDrawn, Touched
      <4> QED BY <2>1, <3>2, <4>1, <4>2 DEF BillInv
    <3>3. CASE task[t].status = "queued" /\ task'[t].status = "cancelled"
      BY <2>1, <2>2, <3>1, <3>3 DEF BillInv
    <3> QED BY <2>1, <3>2, <3>3 DEF Touched
  <2>5. ASSUME SendInv(t) PROVE SendInv(t)'
    <3>1. \A v \in Worker : /\ Of(v)' = t /\ Owned(v)' <=> Of(v) = t /\ Owned(v)
                            /\ Sends(v, t)' <=> Sends(v, t)
      BY <2>1 DEF Owned, Of, Sends, Touched
    <3>2. Untold(t)' <=> Untold(t)
      BY <2>1, <3>1 DEF Untold, Touched
    <3>3. Unbegun(t)' <=> Unbegun(t)
      BY <2>1 DEF Unbegun, Touched
    <3> QED BY <2>1, <2>5, <3>1, <3>2, <3>3 DEF SendInv, Touched, Retries
  <2> QED BY <2>1, <2>3, <2>4, <2>5
<1>3. ASSUME NEW v \in Worker PROVE ClaimInv(v)'
  <2> SUFFICES ASSUME Owned(v)' PROVE ClaimInv(v)'
    BY DEF ClaimInv
  <2>1. Of(v)' = Of(v) /\ Of(v) \in Task
    BY <1>1, Owner DEF Owned, Of
  <2>2. Touched(Of(v)) /\ ClaimInv(v)
    BY <2>1 DEF StateInv
  <2>3. Owned(v)
    BY <2>1, <2>2 DEF Owned, Of, Touched
  <2>4. /\ task'[Of(v)].phase = task[Of(v)].phase
    BY <2>2 DEF Touched
  <2> QED BY <2>1, <2>2, <2>3, <2>4 DEF ClaimInv, Pays
<1>4. NotSent
  BY DEF NotSent, Touched
<1> QED BY <1>1, <1>2, <1>3, <1>4 DEF StateInv, Counters

-----------------------------------------------------------------------------
(* The actions: leases and calls.                                          *)

LEMMA SubmitKeeps ==
  ASSUME StateInv, NEW w \in Worker, NEW t \in Task, Submit(w, t)
  PROVE  StateInv' /\ NotSent
<1> DEFINE row == [task[t] EXCEPT !.status = "submitted", !.late = FALSE,
                                  !.phase = IF Prepares(t) THEN "preparing" ELSE "sending"]
<1>1. TypeOK /\ Counters /\ task[t] \in Row /\ LifeInv(t) /\ BillInv(t) /\ worker[w] = Idle /\ Ready(t)
      /\ task[t].phase = "ready" /\ task[t].status = "queued"
  BY DEF StateInv, Counters, TypeOK, Submit, Ready
<1>2. Lease(w, t, row) /\ UNCHANGED <<tool, run, obsolete, upstream, begun, assets, drawn>>
  BY DEF Submit, SameWorld, SameUpstream, SameResults
<1>3. row \in Row
  BY <1>1 DEF Row
<1>4. /\ row.status = "submitted" /\ row.phase \in {"preparing", "sending"} /\ row.known = task[t].known
      /\ row.reply = task[t].reply /\ row.attempt = task[t].attempt
  BY <1>1 DEF Row
<1> HIDE DEF row
<1>5. ledger[t].state # "reserved"
  BY <1>1 DEF BillInv
<1>6. /\ Counters'
      /\ account' \in [available : Nat, reserved : Nat, spent : Nat]
      /\ ledger' \in [Task -> [state : {"none", "reserved", "settled", "refunded", "cancelled_with_charge"},
                               charged : 0..Quote]]
      /\ ledger'[t].state = "reserved" /\ ledger'[t].charged = 0
      /\ \A u \in Task \ {t} : ledger'[u] = ledger[u]
  BY <1>1, <1>5, ReserveMoney DEF Submit
<1>7. task'[t].status = "submitted" /\ task'[t].phase = row.phase /\ task'[t].reply = task[t].reply
  BY <1>1, <1>2, <1>3, <1>4, LeaseShape
<1>8. LifeInv(t)' /\ BillInv(t)'
  BY <1>1, <1>2, <1>4, <1>6, <1>7 DEF LifeInv, BillInv, Pays
<1>9. ~task[t].cancel
  BY <1>1 DEF LifeInv
<1> QED BY <1>1, <1>2, <1>3, <1>4, <1>6, <1>8, <1>9, LeaseKeeps

LEMMA ResumeKeeps ==
  ASSUME StateInv, NEW w \in Worker, NEW t \in Task, Resume(w, t)
  PROVE  StateInv' /\ NotSent
<1> DEFINE row == [task[t] EXCEPT !.cancel = Cancelling(task[t])]
<1>1. TypeOK /\ Counters /\ task[t] \in Row /\ LifeInv(t) /\ BillInv(t) /\ worker[w] = Idle
  BY DEF StateInv, Counters, TypeOK, Resume
<1>2. /\ Lease(w, t, row) /\ row.phase \notin {"ready", "done"} /\ ~(Unsent(row) /\ row.cancel)
      /\ UNCHANGED <<tool, run, obsolete, ledger, account, upstream, begun, assets, drawn>>
  BY DEF Resume, SameMoney, SameWorld, SameUpstream, SameResults
<1>3. row.cancel = Cancelling(task[t]) /\ Cancelling(task[t]) \in BOOLEAN
  BY <1>1, RowFields DEF Cancelling, Row
<1>4. row \in Row
  BY <1>1, <1>3 DEF Row
<1>5. /\ row.status = task[t].status /\ row.phase = task[t].phase /\ row.known = task[t].known
      /\ row.reply = task[t].reply /\ row.attempt = task[t].attempt /\ row.credits = task[t].credits
  BY <1>1 DEF Row
<1> HIDE DEF row
<1>6. FirstSend(row) => ~task[t].cancel
  BY <1>2, <1>3 DEF FirstSend, Unsent, Cancelling
<1>7. task'[t].status = row.status /\ task'[t].phase = row.phase /\ task'[t].reply = row.reply
      /\ task'[t].credits = row.credits
  BY <1>1, <1>2, <1>4, LeaseShape
<1>8. LifeInv(t)' /\ BillInv(t)'
  BY <1>1, <1>2, <1>5, <1>7 DEF LifeInv, BillInv, Pays
<1>9. Counters' /\ account' \in [available : Nat, reserved : Nat, spent : Nat]
      /\ ledger' \in [Task -> [state : {"none", "reserved", "settled", "refunded", "cancelled_with_charge"},
                               charged : 0..Quote]]
  BY <1>1, <1>2 DEF Counters, Held, TypeOK
<1> QED BY <1>1, <1>2, <1>4, <1>5, <1>6, <1>8, <1>9, LeaseKeeps

LEMMA ProviderAcceptsKeeps ==
  ASSUME StateInv, NEW w \in Worker, ProviderAccepts(w)
  PROVE  StateInv' /\ NotSent
<1>1. worker[w].at = "calling" /\ worker[w].op = "submit" /\ TypeOK
  BY DEF ProviderAccepts, Calling, StateInv
<1>2. PICK t \in Task : Of(w) = t
  BY <1>1, Owner
<1>3. worker[w] \in Claim /\ worker[w].at # "idle" /\ begun[t] \in Nat /\ begun[t] <= 1
      /\ (tool[t] = "staged" => SendInv(t)) /\ Sends(w, t)
  BY <1>1, <1>2, Owner DEF Sends, StateInv, TypeOK
<1>4. UNCHANGED <<tool, task, ledger, account, run, obsolete, assets, drawn>>
  BY DEF ProviderAccepts, Same, SameMoney, SameWorld, SameResults
<1>5. [worker[w] EXCEPT !.at = "accepted"] \in Claim
  BY <1>3 DEF Claim
<1>6. /\ worker' \in [Worker -> Claim] /\ \A v \in Worker \ {w} : worker'[v] = worker[v]
      /\ worker'[w].at = "accepted" /\ worker'[w].task = t /\ worker'[w].phase = worker[w].phase
      /\ worker'[w].reply = worker[w].reply
  <2>1. worker' = [worker EXCEPT ![w] = [worker[w] EXCEPT !.at = "accepted"]]
    BY DEF ProviderAccepts
  <2>2. worker'[w] = [worker[w] EXCEPT !.at = "accepted"] /\ worker' \in [Worker -> Claim]
        /\ \A v \in Worker \ {w} : worker'[v] = worker[v]
    BY <1>1, <1>5, <2>1 DEF TypeOK
  <2> QED BY <1>2, <1>3, <2>2 DEF Claim, Of
<1>7. tool[t] = "staged" => Untold(t) /\ begun[t] = 0 /\ upstream[t] = "none" /\ ~Unbegun(t)
  BY <1>3 DEF SendInv, Untold
<1>8. tool[t] \in Tools /\ (Idempotent(t) <=> tool[t] # "staged")
  BY <1>1 DEF TypeOK, Idempotent
<1>9. /\ upstream' \in [Task -> {"none", "running", "done", "failed", "cancelled"}] /\ begun' \in [Task -> Nat]
      /\ \A u \in Task \ {t} : upstream'[u] = upstream[u] /\ begun'[u] = begun[u]
      /\ Idempotent(t) => upstream'[t] = "done" /\ begun'[t] = 1
      /\ ~Idempotent(t) => upstream'[t] = "running" /\ begun'[t] = begun[t] + 1
  BY <1>1, <1>2, <1>3 DEF ProviderAccepts, TypeOK
<1>10. Outside(t)
  <2>1. \A v \in Worker : worker'[v].at # "idle" => worker'[v].task \in Task
    BY <1>1, <1>6 DEF TypeOK
  <2> QED BY <1>3, <1>4, <1>6, <1>7, <1>8, <1>9, <2>1 DEF Outside, Tools
<1>11. ASSUME tool[t] = "staged" PROVE SendInv(t)'
  <2>1. \A v \in Worker : ~Sends(v, t)'
    BY <1>3, <1>6, <1>11 DEF Sends, Of, SendInv
  <2>2. ~Unbegun(t)'
    BY <1>4, <1>7, <1>11 DEF Unbegun
  <2>3. ~Retries(task'[t].reply)
    BY <1>4, <1>7, <1>11, NoReplyType DEF Untold
  <2>4. \A v \in Worker : Owned(v)' /\ Of(v)' = t => ~Retries(worker'[v].reply)
    BY <1>2, <1>3, <1>4, <1>6, <1>7, <1>11, NoReplyType DEF Untold, Owned, Of
  <2> QED BY <2>1, <2>2, <2>3, <2>4 DEF SendInv, Retries
<1>12. Owned(w) /\ Pays(worker'[w].reply) => upstream'[t] = "done"
  <2>1. CASE Idempotent(t)
    BY <1>9, <2>1
  <2>2. CASE ~Idempotent(t)
    BY <1>2, <1>6, <1>7, <1>8, <2>2, NoReplyType DEF Untold, Tools
  <2> QED BY <2>1, <2>2
<1> QED BY <1>2, <1>3, <1>6, <1>10, <1>11, <1>12, OutsideKeeps DEF Of

LEMMA SubmitFailsKeeps ==
  ASSUME StateInv, NEW w \in Worker, SubmitFails(w)
  PROVE  StateInv' /\ NotSent
<1>1. TypeOK /\ worker[w].at \in {"calling", "accepted"} /\ worker[w].at # "idle"
  BY DEF SubmitFails, Calling, StateInv
<1>2. PICK t \in Task : Of(w) = t
  BY <1>1, Owner
<1>3. UNCHANGED <<tool, task, ledger, account, run, obsolete, assets, drawn, upstream, begun>>
  BY DEF SubmitFails, Same, SameMoney, SameWorld, SameResults, SameUpstream
<1>4. tool[t] = "staged" => SendInv(t)
  BY DEF StateInv
<1>5. CASE /\ Calling(w, {"submit"})
           /\ \E reply \in Says({"retryable", "failed", "blocked_by_model"}) : Answers(w, reply)
  <2>1. PICK reply \in Says({"retryable", "failed", "blocked_by_model"}) : Answers(w, reply)
    BY <1>5
  <2>2. reply \in Replies /\ ~Pays(reply)
    BY DEF Says, Replies, Pays, Outcomes
  <2>3. Sends(w, t)
    BY <1>2, <1>5 DEF Sends, Calling
  <2>4. tool[t] = "staged" => upstream[t] = "none"
    BY <1>4, <2>3 DEF SendInv, Untold
  <2> QED BY <1>1, <1>2, <1>3, <2>1, <2>2, <2>3, <2>4, AnswerKeeps DEF TypeOK
<1>6. CASE /\ worker[w].at = "accepted" /\ ~Idempotent(Of(w))
           /\ Answers(w, [status |-> "failed", cost |-> 0])
  <2> DEFINE reply == [status |-> "failed", cost |-> 0]
  <2>1. reply \in Replies /\ ~Pays(reply) /\ ~Retries(reply)
    BY DEF Replies, Pays, Retries, Outcomes
  <2>2. ~(Owned(w) /\ Untold(t))
    BY <1>2, <1>6 DEF Untold
  <2> HIDE DEF reply
  <2>3. Answers(w, reply)
    BY <1>6 DEF reply
  <2> QED BY <1>1, <1>2, <1>3, <2>1, <2>2, <2>3, AnswerKeeps DEF TypeOK
<1> QED BY <1>5, <1>6 DEF SubmitFails

LEMMA SubmitRepliesKeeps ==
  ASSUME StateInv, NEW w \in Worker, SubmitReplies(w)
  PROVE  StateInv' /\ NotSent
<1>1. TypeOK /\ worker[w].at = "accepted" /\ worker[w].at # "idle"
  BY DEF SubmitReplies, StateInv
<1>2. PICK t \in Task : Of(w) = t
  BY <1>1, Owner
<1>3. UNCHANGED <<tool, task, ledger, account, run, obsolete, assets, drawn, upstream, begun>>
  BY DEF SubmitReplies, Same, SameMoney, SameWorld, SameResults, SameUpstream
<1>4. PICK reply \in Reports(t, upstream[t], "submit") : Answers(w, reply)
  BY <1>2 DEF SubmitReplies
<1>5. upstream[t] \in {"none", "running", "done", "failed", "cancelled"}
  BY <1>1 DEF TypeOK
<1>6. reply \in Replies /\ (Pays(reply) => upstream[t] = "done") /\ (Retries(reply) => upstream[t] = "failed")
  BY <1>5, ReportFields
<1>7. ~(Owned(w) /\ Untold(t))
  BY <1>1, <1>2 DEF Untold
<1> QED BY <1>1, <1>2, <1>3, <1>4, <1>6, <1>7, AnswerKeeps DEF TypeOK

LEMMA QueryRepliesKeeps ==
  ASSUME StateInv, NEW w \in Worker, QueryReplies(w)
  PROVE  StateInv' /\ NotSent
<1>1. TypeOK /\ worker[w].at # "idle"
  BY DEF QueryReplies, Calling, StateInv
<1>2. PICK t \in Task : Of(w) = t
  BY <1>1, Owner
<1>3. UNCHANGED <<tool, task, ledger, account, run, obsolete, assets, drawn, upstream, begun>>
  BY DEF QueryReplies, Same, SameMoney, SameWorld, SameResults, SameUpstream
<1>4. PICK reply \in Reports(t, upstream[t], "query") : Answers(w, reply)
  BY <1>2 DEF QueryReplies
<1>5. upstream[t] \in {"none", "running", "done", "failed", "cancelled"}
  BY <1>1 DEF TypeOK
<1>6. reply \in Replies /\ (Pays(reply) => upstream[t] = "done") /\ (Retries(reply) => upstream[t] = "failed")
      /\ upstream[t] # "none"
  BY <1>5, ReportFields
<1>7. ~Untold(t)
  BY <1>6 DEF Untold
<1> QED BY <1>1, <1>2, <1>3, <1>4, <1>6, <1>7, AnswerKeeps DEF TypeOK

LEMMA CancelRepliesKeeps ==
  ASSUME StateInv, NEW w \in Worker, CancelReplies(w)
  PROVE  StateInv' /\ NotSent
<1>1. TypeOK /\ worker[w].at # "idle"
  BY DEF CancelReplies, Calling, StateInv
<1>2. PICK t \in Task : Of(w) = t
  BY <1>1, Owner
<1>3. UNCHANGED <<tool, task, ledger, account, run, obsolete, assets, drawn, begun>>
  BY DEF CancelReplies, Same, SameMoney, SameWorld, SameResults
<1>4. upstream[t] \in {"none", "running", "done", "failed", "cancelled"}
  BY <1>1 DEF TypeOK
<1>5. PICK u \in IF upstream[t] = "running" THEN {"running", "cancelled"} ELSE {upstream[t]} :
        /\ upstream' = [upstream EXCEPT ![t] = u]
        /\ \E reply \in Reports(t, u, "cancel") : Answers(w, reply)
  BY <1>2 DEF CancelReplies
<1>6. u \in {"none", "running", "done", "failed", "cancelled"}
      /\ (u = upstream[t] \/ (upstream[t] = "running" /\ u = "cancelled"))
  BY <1>4
<1>7. PICK reply \in Reports(t, u, "cancel") : Answers(w, reply)
  BY <1>5
<1>8. reply \in Replies /\ (Pays(reply) => u = "done") /\ (Retries(reply) => u = "failed") /\ u # "none"
  BY <1>6, ReportFields
<1>9. /\ upstream' \in [Task -> {"none", "running", "done", "failed", "cancelled"}] /\ upstream'[t] = u
      /\ \A v \in Task \ {t} : upstream'[v] = upstream[v]
  BY <1>1, <1>5, <1>6 DEF TypeOK
<1>10. ~Untold(t)
  BY <1>6, <1>8 DEF Untold
<1> QED BY <1>1, <1>2, <1>3, <1>6, <1>7, <1>8, <1>9, <1>10, AnswerKeeps

LEMMA GoesPass ==
  ASSUME TypeOK, NEW w \in Worker, worker[w].at # "idle", NEW at \in {"saving", "failed"},
         worker' = [worker EXCEPT ![w] = Goes(w, at)]
  PROVE  WorkersPass(Of(w))
<1>1. CASE Owned(w)
  <2> DEFINE claim == [worker[w] EXCEPT !.at = at]
  <2>1. worker[w] \in Claim
    BY DEF TypeOK
  <2>2. claim \in Claim
    BY <2>1 DEF Claim
  <2>3. claim.at = at /\ claim.task = worker[w].task /\ claim.phase = worker[w].phase /\ claim.reply = worker[w].reply
    BY <2>1 DEF Claim
  <2> HIDE DEF claim
  <2>4. worker' = [worker EXCEPT ![w] = claim]
    BY <1>1 DEF Goes, claim
  <2>5. Passes(w)
    BY <2>3, <2>4 DEF Passes, TypeOK
  <2> QED BY <2>2, <2>4, <2>5 DEF WorkersPass, TypeOK
<1>2. CASE ~Owned(w)
  BY <1>2, IdleFields DEF Goes, WorkersPass, TypeOK
<1> QED BY <1>1, <1>2

LEMMA QueryMissesKeeps ==
  ASSUME StateInv, NEW w \in Worker, QueryMisses(w)
  PROVE  StateInv' /\ NotSent
<1>1. TypeOK /\ worker[w].at = "calling" /\ worker[w].at # "idle"
  BY DEF QueryMisses, Calling, StateInv
<1>2. PICK t \in Task : Of(w) = t
  BY <1>1, Owner
<1>3. UNCHANGED <<tool, task, ledger, account, run, obsolete, assets, drawn, upstream, begun>>
  BY DEF QueryMisses, Same, SameMoney, SameWorld, SameResults, SameUpstream
<1>4. CASE ~Idempotent(t)
  <2>1. worker' = [worker EXCEPT ![w] = Goes(w, "saving")]
    BY <1>2, <1>4 DEF QueryMisses
  <2> QED BY <1>1, <1>2, <1>3, <2>1, GoesPass, PassKeeps
<1>5. CASE Idempotent(t)
  <2> DEFINE claim == [worker[w] EXCEPT !.op = "submit"]
  <2>1. worker[w] \in Claim /\ begun[t] <= 1
    BY <1>1 DEF TypeOK, StateInv
  <2>2. claim \in Claim
    BY <2>1 DEF Claim
  <2>3. claim.at = worker[w].at /\ claim.task = worker[w].task /\ claim.phase = worker[w].phase /\ claim.reply = worker[w].reply
    BY <2>1 DEF Claim
  <2>4. worker' = [worker EXCEPT ![w] = claim]
    BY <1>2, <1>5 DEF QueryMisses
  <2> HIDE DEF claim
  <2>5. worker' \in [Worker -> Claim] /\ worker'[w] = claim /\ \A v \in Worker \ {w} : worker'[v] = worker[v]
    BY <1>1, <2>2, <2>4 DEF TypeOK
  <2>6. Outside(t)
    <3>1. \A v \in Worker : worker'[v].at # "idle" => worker'[v].task \in Task
      BY <1>1, <2>3, <2>5 DEF TypeOK
    <3> QED BY <1>1, <1>3, <2>1, <2>5, <3>1 DEF Outside, TypeOK
  <2>7. tool[t] # "staged"
    BY <1>5 DEF Idempotent
  <2>8. Owned(w) /\ Pays(worker'[w].reply) => upstream'[t] = "done"
    BY <1>2, <1>3, <2>3, <2>5 DEF StateInv, ClaimInv
  <2> QED BY <1>1, <1>2, <2>3, <2>5, <2>6, <2>7, <2>8, OutsideKeeps DEF Of
<1> QED BY <1>4, <1>5

LEMMA CallFailsKeeps ==
  ASSUME StateInv, NEW w \in Worker, CallFails(w)
  PROVE  StateInv' /\ NotSent
<1>1. TypeOK /\ worker[w].at # "idle"
  BY DEF CallFails, StateInv
<1>2. UNCHANGED <<tool, task, ledger, account, run, obsolete, assets, drawn, upstream, begun>>
  BY DEF CallFails, Same, SameMoney, SameWorld, SameResults, SameUpstream
<1>3. worker' = [worker EXCEPT ![w] = Goes(w, "failed")]
  BY DEF CallFails
<1> QED BY <1>1, <1>2, <1>3, Owner, GoesPass, PassKeeps

LEMMA LeavesKeeps ==
  ASSUME StateInv, NEW w \in Worker, Leaves(w), NEW t \in Task,
         UNCHANGED <<tool, task, ledger, account, run, obsolete, assets, drawn, upstream, begun>>
  PROVE  StateInv' /\ NotSent
BY LeavesPass, PassKeeps DEF StateInv

LEMMA FencedKeeps ==
  ASSUME StateInv, NEW w \in Worker, Fenced(w)
  PROVE  StateInv' /\ NotSent
<1>1. Of(w) \in Task
  BY Owner DEF Fenced, StateInv
<1>2. UNCHANGED <<tool, task, ledger, account, run, obsolete, assets, drawn, upstream, begun>>
  BY DEF Fenced, Same, SameMoney, SameWorld, SameResults, SameUpstream
<1> QED BY <1>1, <1>2, LeavesKeeps DEF Fenced

LEMMA CrashKeeps ==
  ASSUME StateInv, NEW w \in Worker, Crash(w)
  PROVE  StateInv' /\ NotSent
<1>1. UNCHANGED <<tool, task, ledger, account, run, obsolete, assets, drawn, upstream, begun>>
  BY DEF Crash, SameMoney, SameWorld, SameResults, SameUpstream
<1>2. CASE \E t \in Task : TRUE
  BY <1>1, <1>2, LeavesKeeps DEF Crash
<1>3. CASE Task = {}
  <2>1. TypeOK /\ worker' = [worker EXCEPT ![w] = Idle]
    BY DEF Crash, Leaves, StateInv
  <2>2. TypeOK'
    BY <1>1, <1>3, <2>1, IdleFields DEF TypeOK
  <2>3. \A v \in Worker : ~Owned(v)'
    BY <1>3, <2>2 DEF Owned, TypeOK
  <2> QED BY <1>1, <1>3, <2>2, <2>3 DEF StateInv, ClaimInv, Held, NotSent
<1> QED BY <1>2, <1>3

-----------------------------------------------------------------------------
(* The actions: what the owner saves.                                      *)

LEMMA Ownership ==
  ASSUME StateInv, NEW w \in Worker, Owned(w)
  PROVE  /\ worker[w].at # "idle" /\ Of(w) \in Task /\ task[Of(w)] \in Row /\ worker[w] \in Claim
         /\ task[Of(w)].phase \notin {"ready", "done"} /\ task[Of(w)].status = "submitted"
         /\ \/ worker[w].phase = task[Of(w)].phase
            \/ worker[w].phase \in {"poll", "unknown"} /\ task[Of(w)].phase \in {"poll", "unknown"}
         /\ Pays(worker[w].reply) => upstream[Of(w)] = "done"
         /\ tool[Of(w)] = "staged" /\ worker[w].reply # NoReply => ~Untold(Of(w))
         /\ tool[Of(w)] = "staged" /\ Retries(worker[w].reply) => upstream[Of(w)] # "running"
         /\ tool[Of(w)] = "staged" /\ Retries(task[Of(w)].reply) => upstream[Of(w)] # "running"
<1> DEFINE t == Of(w)
<1>1. worker[w].at # "idle" /\ t \in Task /\ task[t] \in Row /\ worker[w] \in Claim /\ TypeOK
  BY Owner DEF Owned, StateInv
<1>2. task[t].lease = w
  BY DEF Owned, Of
<1>3. LifeInv(t) /\ ClaimInv(w) /\ (tool[t] = "staged" => SendInv(t))
  BY <1>1 DEF StateInv
<1>4. task[t].phase \notin {"ready", "done"} /\ task[t].status = "submitted"
  BY <1>2, <1>3, Constants DEF LifeInv
<1> QED BY <1>1, <1>3, <1>4 DEF ClaimInv, SendInv, Untold

LEMMA BecomesKeeps ==
  ASSUME StateInv, NEW w \in Worker, Owned(w), NEW t \in Task, Of(w) = t, Leaves(w),
         NEW row \in Row, Becomes(t, row),
         row.status = task[t].status, row.attempt = task[t].attempt, row.known = task[t].known,
         row.reply = task[t].reply, row.phase \notin {"ready", "done"},
         row.phase \in {"preparing", "sending"} => task[t].phase \in {"preparing", "sending"},
         row.phase \in {"download", "publish"} => row.credits \in Costs /\ upstream[t] = "done",
         UNCHANGED <<tool, run, obsolete, assets, drawn>>
  PROVE  StateInv' /\ NotSent
<1>1. TypeOK /\ LifeInv(t) /\ task[t].phase \notin {"ready", "done"}
      /\ (tool[t] = "staged" /\ Retries(task[t].reply) => upstream[t] # "running")
  BY Ownership DEF StateInv
<1> DEFINE new == Released(row)
<1>2. /\ new \in Row /\ new.lease = None /\ new.status = row.status /\ new.phase = row.phase
      /\ new.attempt = row.attempt /\ new.known = row.known /\ new.reply = row.reply /\ new.credits = row.credits
  BY ReleasedFields
<1> HIDE DEF new
<1>3. task'[t] = new /\ task' \in [Task -> Row] /\ \A u \in Task \ {t} : task'[u] = task[u]
  BY <1>1, <1>2 DEF TypeOK, Becomes, new
<1>4. RowMoves(t)
  BY <1>1, <1>2, <1>3 DEF RowMoves, Unbegun, LifeInv, Untold
<1> QED BY <1>1, <1>4, LeavesPass, RowKeeps DEF Becomes, SameMoney, SameUpstream

LEMMA GivesUpKeeps ==
  ASSUME StateInv, NEW w \in Worker, Owned(w), NEW t \in Task, Of(w) = t, Leaves(w),
         NEW row \in Row, GivesUp(t, row), row.attempt = task[t].attempt,
         UNCHANGED <<tool, run, obsolete, assets, drawn>>
  PROVE  StateInv' /\ NotSent
<1>1. TypeOK /\ task[t].phase # "done"
  BY Ownership DEF StateInv
<1>2. Settles(t, "failed", 0)
  BY <1>1, Constants DEF Settles, Final
<1>3. Results(t, row, "failed")
  BY <1>1, SameResultsFit DEF SameResults
<1> QED BY <1>1, <1>2, <1>3, LeavesPass, FinishKeeps DEF GivesUp, SameUpstream

LEMMA CheckpointKeeps ==
  ASSUME StateInv, NEW w \in Worker, Checkpoint(w)
  PROVE  StateInv' /\ NotSent
<1> DEFINE reply == worker[w].reply
<1>1. TypeOK /\ Owned(w) /\ worker[w].at = "replied"
  BY DEF Checkpoint, StateInv
<1>2. PICK t \in Task : Of(w) = t
  BY <1>1, Ownership
<1>3. /\ task[t] \in Row /\ worker[w] \in Claim /\ task[t].phase \notin {"ready", "done"}
      /\ LifeInv(t) /\ reply \in Replies
      /\ Pays(reply) => upstream[t] = "done"
      /\ tool[t] = "staged" /\ reply # NoReply => ~Untold(t)
      /\ tool[t] = "staged" /\ Retries(reply) => upstream[t] # "running"
  BY <1>1, <1>2, Ownership, ClaimFields DEF StateInv
<1>4. UNCHANGED <<tool, ledger, account, run, obsolete, assets, drawn, upstream, begun>>
  BY DEF Checkpoint, SameMoney, SameWorld, SameResults, SameUpstream
<1> DEFINE known == task[t].known \/ reply.status \in {"pending", "located", "output"}
           artifact == task[t].artifact \/ reply.status = "delivered"
           new == [task[t] EXCEPT !.reply = reply, !.known = known, !.artifact = artifact]
<1>5. known \in BOOLEAN /\ artifact \in BOOLEAN
  BY <1>3, RowFields
<1>6. reply = NoReply => known = task[t].known
  BY <1>3, NoReplyType, RowFields
<1> HIDE DEF known, artifact
<1>7. new \in Row
  BY <1>3, <1>5 DEF Row
<1>8. /\ new.status = task[t].status /\ new.phase = task[t].phase /\ new.attempt = task[t].attempt
      /\ new.lease = task[t].lease /\ new.credits = task[t].credits /\ new.known = known /\ new.reply = reply
  BY <1>3 DEF Row
<1>9. task' = [task EXCEPT ![t] = new]
  BY <1>1, <1>2, <1>3 DEF Checkpoint, known, artifact, TypeOK
<1> HIDE DEF new
<1>10. task'[t] = new /\ task' \in [Task -> Row] /\ \A u \in Task \ {t} : task'[u] = task[u]
  BY <1>1, <1>7, <1>9 DEF TypeOK
<1>11. WorkersPass(t)
  <2>1. worker' = [worker EXCEPT ![w] = Goes(w, "saving")]
    BY <1>1 DEF Checkpoint, Goes
  <2> QED BY <1>1, <1>2, <2>1, GoesPass
<1>12. RowMoves(t)
  <2>1. tool[t] = "staged" /\ Untold(t) => ~new.known /\ new.reply = NoReply
    BY <1>3, <1>6, <1>8 DEF Untold
  <2>2. Unbegun(t)' => Unbegun(t)
    BY <1>8, <1>10 DEF Unbegun
  <2> QED BY <1>3, <1>8, <1>10, <2>1, <2>2 DEF RowMoves, LifeInv
<1> QED BY <1>4, <1>11, <1>12, RowKeeps

LEMMA CallReturnsKeeps ==
  ASSUME StateInv, NEW w \in Worker, CallReturns(w)
  PROVE  StateInv' /\ NotSent
<1>1. TypeOK /\ worker[w].at # "idle"
  BY DEF CallReturns, Calling, StateInv
<1>2. PICK t \in Task : Of(w) = t
  BY <1>1, Owner
<1>3. worker' = [worker EXCEPT ![w] = Goes(w, "saving")]
      /\ UNCHANGED <<tool, ledger, account, run, obsolete, assets, drawn, upstream, begun>>
  BY DEF CallReturns, SameMoney, SameWorld, SameResults, SameUpstream
<1>4. WorkersPass(t)
  BY <1>1, <1>2, <1>3, GoesPass
<1> DEFINE spooled == task[t].spooled \/ (worker[w].op = "download" /\ Owned(w))
           new == [task[t] EXCEPT !.spooled = spooled]
<1>5. task' = [task EXCEPT ![t] = new] /\ task[t] \in Row
  BY <1>1, <1>2 DEF CallReturns, TypeOK
<1>6. spooled \in BOOLEAN /\ (~Owned(w) => spooled = task[t].spooled)
  BY <1>5, RowFields
<1> HIDE DEF spooled
<1>7. new \in Row /\ (~Owned(w) => new = task[t])
  BY <1>5, <1>6 DEF Row
<1>8. /\ new.status = task[t].status /\ new.phase = task[t].phase /\ new.attempt = task[t].attempt
      /\ new.lease = task[t].lease /\ new.credits = task[t].credits /\ new.known = task[t].known
      /\ new.reply = task[t].reply
  BY <1>5 DEF Row
<1> HIDE DEF new
<1>9. task'[t] = new /\ task' \in [Task -> Row] /\ \A u \in Task \ {t} : task'[u] = task[u]
  BY <1>1, <1>5, <1>7 DEF TypeOK
<1>10. CASE ~Owned(w)
  <2>1. task' = task
    BY <1>1, <1>5, <1>7, <1>10 DEF TypeOK
  <2> QED BY <1>3, <1>4, <2>1, PassKeeps
<1>11. CASE Owned(w)
  <2>1. LifeInv(t) /\ task[t].phase \notin {"ready", "done"}
        /\ (tool[t] = "staged" /\ Retries(task[t].reply) => upstream[t] # "running")
    BY <1>2, <1>11, Ownership DEF StateInv
  <2>2. RowMoves(t)
    BY <1>8, <1>9, <2>1 DEF RowMoves, LifeInv, Unbegun, Untold
  <2> QED BY <1>3, <1>4, <2>2, RowKeeps
<1> QED BY <1>10, <1>11

LEMMA SavePublishedKeeps ==
  ASSUME StateInv, NEW w \in Worker, SavePublished(w)
  PROVE  StateInv' /\ NotSent
<1>1. TypeOK /\ Owned(w) /\ worker[w].phase = "publish" /\ Leaves(w)
  BY DEF SavePublished, Saves, StateInv
<1>2. PICK t \in Task : Of(w) = t
  BY <1>1, Ownership
<1>3. task[t] \in Row /\ task[t].phase = "publish" /\ task[t].status = "submitted" /\ LifeInv(t)
  BY <1>1, <1>2, Ownership DEF StateInv
<1>4. assets[t] = 0 /\ ~drawn[t] /\ task[t].credits \in Costs /\ task[t].credits \in 0..Quote /\ upstream[t] = "done"
  BY <1>3, RowFields DEF LifeInv
<1> DEFINE cancelled == Cancelling(task[t]) \/ task[t].status = "cancelled"
           status == IF cancelled THEN "cancelled" ELSE "succeeded"
<1>5. /\ Publish(t) /\ UNCHANGED <<tool, run, obsolete, upstream, begun>>
  BY <1>2 DEF SavePublished, SameWorld, SameUpstream
<1>6. PICK placed \in BOOLEAN : /\ placed => ~cancelled
                                /\ drawn' = [drawn EXCEPT ![t] = @ \/ placed]
  BY <1>5 DEF Publish, Keep
<1>7. Finish(t, task[t], status, task[t].credits) /\ assets' = [assets EXCEPT ![t] = @ + 1]
  BY <1>5 DEF Publish, Keep
<1>8. status \in {"cancelled", "succeeded"} /\ (placed => status = "succeeded" /\ ~task[t].cancel)
  BY <1>6 DEF Cancelling
<1> HIDE DEF status, cancelled
<1>9. Settles(t, status, task[t].credits)
  BY <1>3, <1>4, <1>8 DEF Settles, Final
<1>10. Results(t, task[t], status)
  <2>1. /\ assets' \in [Task -> Nat] /\ assets'[t] = 1
        /\ \A u \in Task \ {t} : assets'[u] = assets[u]
    BY <1>1, <1>4, <1>7 DEF TypeOK
  <2>2. /\ drawn' \in [Task -> BOOLEAN] /\ (drawn'[t] => placed)
        /\ \A u \in Task \ {t} : drawn'[u] = drawn[u]
    BY <1>1, <1>4, <1>6 DEF TypeOK
  <2> QED BY <1>8, <2>1, <2>2 DEF Results
<1> QED BY <1>1, <1>3, <1>5, <1>7, <1>9, <1>10, LeavesPass, FinishKeeps

LEMMA SavePreparedKeeps ==
  ASSUME StateInv, NEW w \in Worker, SavePrepared(w)
  PROVE  StateInv' /\ NotSent
<1>1. Owned(w) /\ Leaves(w) /\ worker[w].phase = "preparing" /\ UNCHANGED <<tool, run, obsolete, assets, drawn>>
  BY DEF SavePrepared, Saves, SameWorld, SameResults
<1>2. PICK t \in Task : Of(w) = t
  BY <1>1, Ownership
<1>3. task[t] \in Row /\ task[t].phase = "preparing"
  BY <1>1, <1>2, Ownership
<1> DEFINE row == [task[t] EXCEPT !.phase = "sending"]
<1>4. row \in Row
  BY <1>3 DEF Row
<1>5. /\ row.status = task[t].status /\ row.attempt = task[t].attempt /\ row.known = task[t].known
      /\ row.reply = task[t].reply /\ row.phase = "sending"
  BY <1>3 DEF Row
<1>6. Becomes(t, row)
  BY <1>2 DEF SavePrepared
<1> HIDE DEF row
<1> QED BY <1>1, <1>2, <1>3, <1>4, <1>5, <1>6, BecomesKeeps

LEMMA SaveDownloadedKeeps ==
  ASSUME StateInv, NEW w \in Worker, SaveDownloaded(w)
  PROVE  StateInv' /\ NotSent
<1>1. Owned(w) /\ Leaves(w) /\ worker[w].phase = "download" /\ UNCHANGED <<tool, run, obsolete, assets, drawn>>
  BY DEF SaveDownloaded, Saves, SameWorld, SameResults
<1>2. PICK t \in Task : Of(w) = t
  BY <1>1, Ownership
<1>3. task[t] \in Row /\ task[t].phase = "download" /\ LifeInv(t)
  BY <1>1, <1>2, Ownership DEF StateInv
<1> DEFINE row == [task[t] EXCEPT !.phase = "publish", !.artifact = TRUE]
<1>4. row \in Row
  BY <1>3 DEF Row
<1>5. /\ row.status = task[t].status /\ row.attempt = task[t].attempt /\ row.known = task[t].known
      /\ row.reply = task[t].reply /\ row.phase = "publish" /\ row.credits = task[t].credits
  BY <1>3 DEF Row
<1>6. Becomes(t, row)
  BY <1>2 DEF SaveDownloaded
<1> HIDE DEF row
<1> QED BY <1>1, <1>2, <1>3, <1>4, <1>5, <1>6, BecomesKeeps DEF LifeInv

LEMMA SaveReplyKeeps ==
  ASSUME StateInv, NEW w \in Worker, SaveReply(w)
  PROVE  StateInv' /\ NotSent
<1>1. TypeOK /\ Owned(w) /\ Leaves(w) /\ worker[w].phase \in Asking /\ worker[w].reply # NoReply
      /\ UNCHANGED <<tool, run, obsolete>>
  BY DEF SaveReply, Saves, SameWorld, StateInv
<1>2. PICK t \in Task : Of(w) = t
  BY <1>1, Ownership
<1>3. task[t] \in Row /\ task[t].phase \in Asking /\ worker[w].reply \in Replies /\ task[t].artifact \in BOOLEAN
  BY <1>1, <1>2, Ownership, ClaimFields, RowFields DEF Asking
<1>4. Consume(t, task[t], worker[w].reply, task[t].artifact)
  BY <1>2 DEF SaveReply
<1>5. /\ Pays(worker[w].reply) => upstream[t] = "done"
      /\ tool[t] = "staged" => ~Untold(t) /\ (Retries(worker[w].reply) => upstream[t] # "running")
  BY <1>1, <1>2, Ownership
<1> QED BY <1>1, <1>3, <1>4, <1>5, LeavesPass, ConsumeKeeps

LEMMA SaveNothingKeeps ==
  ASSUME StateInv, NEW w \in Worker, SaveNothing(w)
  PROVE  StateInv' /\ NotSent
<1>1. Owned(w) /\ Leaves(w) /\ UNCHANGED <<tool, run, obsolete, assets, drawn>>
  BY DEF SaveNothing, Saves, SameWorld, SameResults
<1>2. PICK t \in Task : Of(w) = t
  BY <1>1, Ownership
<1>3. task[t] \in Row
  BY <1>1, <1>2, Ownership
<1> DEFINE failing == Failing(task[t])
           row == [failing EXCEPT !.phase = "unknown"]
<1>4. /\ failing \in Row /\ failing.status = task[t].status /\ failing.attempt = task[t].attempt
      /\ failing.known = task[t].known /\ failing.reply = task[t].reply
  BY <1>3, FailingFields
<1>5. Becomes(t, row)
  BY <1>2 DEF SaveNothing
<1> HIDE DEF failing
<1>6. row \in Row
  BY <1>4 DEF Row
<1>7. /\ row.status = task[t].status /\ row.attempt = task[t].attempt /\ row.known = task[t].known
      /\ row.reply = task[t].reply /\ row.phase = "unknown"
  BY <1>4 DEF Row
<1> HIDE DEF row
<1> QED BY <1>1, <1>2, <1>5, <1>6, <1>7, BecomesKeeps

-----------------------------------------------------------------------------
(* The actions: errors and faults.                                         *)

\* One more failure in the phase where the task is.
LEMMA FailingKeeps ==
  ASSUME StateInv, NEW w \in Worker, Owned(w), NEW t \in Task, Of(w) = t, Leaves(w), Becomes(t, Failing(task[t])),
         UNCHANGED <<tool, run, obsolete, assets, drawn>>
  PROVE  StateInv' /\ NotSent
<1> DEFINE row == Failing(task[t])
<1>1. task[t] \in Row /\ task[t].phase \notin {"ready", "done"} /\ LifeInv(t)
  BY Ownership DEF StateInv
<1>2. /\ row \in Row /\ row.status = task[t].status /\ row.attempt = task[t].attempt /\ row.known = task[t].known
      /\ row.reply = task[t].reply /\ row.phase = task[t].phase /\ row.credits = task[t].credits
  BY <1>1, FailingFields
<1> HIDE DEF row
<1>3. Becomes(t, row)
  BY DEF row
<1> QED BY <1>1, <1>2, <1>3, BecomesKeeps DEF LifeInv

LEMMA FailingGivesUp ==
  ASSUME StateInv, NEW w \in Worker, Owned(w), NEW t \in Task, Of(w) = t, Leaves(w), GivesUp(t, Failing(task[t])),
         UNCHANGED <<tool, run, obsolete, assets, drawn>>
  PROVE  StateInv' /\ NotSent
<1>1. Failing(task[t]) \in Row /\ Failing(task[t]).attempt = task[t].attempt
  BY Ownership, FailingFields
<1> QED BY <1>1, GivesUpKeeps

LEMMA PrepareFailedKeeps ==
  ASSUME StateInv, NEW w \in Worker, PrepareFailed(w)
  PROVE  StateInv' /\ NotSent
<1>1. Owned(w) /\ Leaves(w) /\ UNCHANGED <<tool, run, obsolete, assets, drawn>>
  BY DEF PrepareFailed, Fails, SameWorld, SameResults
<1>2. PICK t \in Task : Of(w) = t
  BY <1>1, Ownership
<1>3. Becomes(t, Failing(task[t])) \/ GivesUp(t, Failing(task[t]))
  BY <1>2 DEF PrepareFailed
<1> QED BY <1>1, <1>2, <1>3, FailingKeeps, FailingGivesUp

LEMMA SendFailedKeeps ==
  ASSUME StateInv, NEW w \in Worker, SendFailed(w)
  PROVE  StateInv' /\ NotSent
<1>1. Owned(w) /\ Leaves(w) /\ UNCHANGED <<tool, run, obsolete, assets, drawn>>
  BY DEF SendFailed, Fails, SameWorld, SameResults
<1>2. PICK t \in Task : Of(w) = t
  BY <1>1, Ownership
<1>3. task[t] \in Row
  BY <1>1, <1>2, Ownership
<1> DEFINE row == [task[t] EXCEPT !.phase = "unknown"]
<1>4. Becomes(t, row)
  BY <1>2 DEF SendFailed
<1>5. row \in Row
  BY <1>3 DEF Row
<1>6. /\ row.status = task[t].status /\ row.attempt = task[t].attempt /\ row.known = task[t].known
      /\ row.reply = task[t].reply /\ row.phase = "unknown"
  BY <1>3 DEF Row
<1> HIDE DEF row
<1> QED BY <1>1, <1>2, <1>4, <1>5, <1>6, BecomesKeeps

LEMMA AskFailedKeeps ==
  ASSUME StateInv, NEW w \in Worker, AskFailed(w)
  PROVE  StateInv' /\ NotSent
<1>1. Owned(w) /\ Leaves(w) /\ UNCHANGED <<tool, run, obsolete, assets, drawn>>
  BY DEF AskFailed, Fails, SameWorld, SameResults
<1>2. PICK t \in Task : Of(w) = t
  BY <1>1, Ownership
<1>3. task[t] \in Row
  BY <1>1, <1>2, Ownership
<1> DEFINE failing == Failing(task[t])
           row == [failing EXCEPT !.phase = "unknown", !.late = TRUE]
<1>4. Becomes(t, failing) \/ Becomes(t, row)
  BY <1>2 DEF AskFailed
<1>5. /\ failing \in Row /\ failing.status = task[t].status /\ failing.attempt = task[t].attempt
      /\ failing.known = task[t].known /\ failing.reply = task[t].reply
  BY <1>3, FailingFields
<1>6. CASE Becomes(t, failing)
  BY <1>1, <1>2, <1>6, FailingKeeps
<1> HIDE DEF failing
<1>7. row \in Row
  BY <1>5 DEF Row
<1>8. /\ row.status = task[t].status /\ row.attempt = task[t].attempt /\ row.known = task[t].known
      /\ row.reply = task[t].reply /\ row.phase = "unknown"
  BY <1>5 DEF Row
<1> HIDE DEF row
<1>9. CASE Becomes(t, row)
  BY <1>1, <1>2, <1>7, <1>8, <1>9, BecomesKeeps
<1> QED BY <1>4, <1>6, <1>9

LEMMA DownloadFailedKeeps ==
  ASSUME StateInv, NEW w \in Worker, DownloadFailed(w)
  PROVE  StateInv' /\ NotSent
<1>1. Owned(w) /\ Leaves(w) /\ UNCHANGED <<tool, run, obsolete, assets, drawn>>
  BY DEF DownloadFailed, Fails, SameWorld, SameResults
<1>2. PICK t \in Task : Of(w) = t
  BY <1>1, Ownership
<1>3. GivesUp(t, task[t]) \/ Becomes(t, Failing(task[t]))
  BY <1>2 DEF DownloadFailed
<1>4. task[t] \in Row
  BY <1>1, <1>2, Ownership
<1> QED BY <1>1, <1>2, <1>3, <1>4, FailingKeeps, GivesUpKeeps

LEMMA PublishFailedKeeps ==
  ASSUME StateInv, NEW w \in Worker, PublishFailed(w)
  PROVE  StateInv' /\ NotSent
<1>1. Owned(w) /\ Leaves(w) /\ worker[w].phase = "publish" /\ UNCHANGED <<tool, run, obsolete, assets, drawn>>
  BY DEF PublishFailed, Fails, SameWorld, SameResults
<1>2. PICK t \in Task : Of(w) = t
  BY <1>1, Ownership
<1>3. task[t] \in Row /\ task[t].phase = "publish" /\ LifeInv(t)
  BY <1>1, <1>2, Ownership DEF StateInv
<1> DEFINE row == [task[t] EXCEPT !.phase = "download", !.artifact = FALSE]
<1>4. Becomes(t, Failing(task[t])) \/ GivesUp(t, Failing(task[t])) \/ Becomes(t, row)
  BY <1>2 DEF PublishFailed
<1>5. row \in Row
  BY <1>3 DEF Row
<1>6. /\ row.status = task[t].status /\ row.attempt = task[t].attempt /\ row.known = task[t].known
      /\ row.reply = task[t].reply /\ row.phase = "download" /\ row.credits = task[t].credits
  BY <1>3 DEF Row
<1> HIDE DEF row
<1>7. CASE Becomes(t, row)
  BY <1>1, <1>2, <1>3, <1>5, <1>6, <1>7, BecomesKeeps DEF LifeInv
<1> QED BY <1>1, <1>2, <1>4, <1>7, FailingKeeps, FailingGivesUp

LEMMA SaveBusyKeeps ==
  ASSUME StateInv, NEW w \in Worker, SaveBusy(w)
  PROVE  StateInv' /\ NotSent
<1>1. Owned(w) /\ Leaves(w) /\ UNCHANGED <<tool, run, obsolete, assets, drawn>>
  BY DEF SaveBusy, SameWorld, SameResults
<1>2. PICK t \in Task : Of(w) = t
  BY <1>1, Ownership
<1>3. task[t] \in Row /\ LifeInv(t) /\ task[t].phase \notin {"ready", "done"}
  BY <1>1, <1>2, Ownership DEF StateInv
<1>4. Becomes(t, task[t])
  BY <1>2 DEF SaveBusy, Becomes
<1> QED BY <1>1, <1>2, <1>3, <1>4, BecomesKeeps DEF LifeInv

\* One row is touched, and nothing else.
LEMMA TouchOne ==
  ASSUME StateInv, NEW t \in Task, task' \in [Task -> Row], \A u \in Task \ {t} : task'[u] = task[u], Touched(t),
         UNCHANGED <<tool, ledger, account, run, obsolete, worker, upstream, begun, assets, drawn>>
  PROVE  StateInv' /\ NotSent
<1>1. TypeOK'
  BY DEF StateInv, TypeOK
<1>2. ASSUME NEW u \in Task PROVE Touched(u)
  <2>1. task[u].phase = "ready" => ~task[u].cancel
    BY DEF StateInv, LifeInv
  <2> QED BY <2>1 DEF Touched
<1> QED BY <1>1, <1>2, TouchKeeps

LEMMA LeaseExpiresKeeps ==
  ASSUME StateInv, NEW t \in Task, LeaseExpires(t)
  PROVE  StateInv' /\ NotSent
<1> DEFINE row == [task[t] EXCEPT !.expired = TRUE]
<1>1. TypeOK /\ task[t] \in Row /\ LifeInv(t) /\ task' = [task EXCEPT ![t] = row]
  BY DEF StateInv, TypeOK, LeaseExpires, Expires
<1>2. row \in Row
  BY <1>1 DEF Row
<1>3. task' \in [Task -> Row] /\ \A u \in Task \ {t} : task'[u] = task[u]
  BY <1>1, <1>2 DEF TypeOK
<1>4. Touched(t)
  BY <1>1 DEF Touched, TypeOK, Row, LifeInv
<1> QED BY <1>3, <1>4, TouchOne DEF LeaseExpires, SameMoney, SameWorld, SameUpstream, SameResults

LEMMA HeartbeatKeeps ==
  ASSUME StateInv, NEW w \in Worker, Heartbeat(w)
  PROVE  StateInv' /\ NotSent
<1>1. PICK t \in Task : Of(w) = t
  BY Ownership DEF Heartbeat
<1> DEFINE row == [task[t] EXCEPT !.expired = FALSE]
<1>2. TypeOK /\ task[t] \in Row /\ LifeInv(t) /\ task' = [task EXCEPT ![t] = row]
  BY <1>1 DEF StateInv, TypeOK, Heartbeat
<1>3. row \in Row
  BY <1>2 DEF Row
<1>4. task' \in [Task -> Row] /\ \A u \in Task \ {t} : task'[u] = task[u]
  BY <1>2, <1>3 DEF TypeOK
<1>5. Touched(t)
  BY <1>2 DEF Touched, TypeOK, Row, LifeInv
<1> QED BY <1>4, <1>5, TouchOne DEF Heartbeat, SameMoney, SameWorld, SameUpstream, SameResults

LEMMA ElapsesKeeps ==
  ASSUME StateInv, NEW t \in Task, Elapses(t)
  PROVE  StateInv' /\ NotSent
<1> DEFINE row == [task[t] EXCEPT !.late = TRUE]
<1>1. TypeOK /\ task[t] \in Row /\ LifeInv(t) /\ task' = [task EXCEPT ![t] = row]
  BY DEF StateInv, TypeOK, Elapses
<1>2. row \in Row
  BY <1>1 DEF Row
<1>3. task' \in [Task -> Row] /\ \A u \in Task \ {t} : task'[u] = task[u]
  BY <1>1, <1>2 DEF TypeOK
<1>4. Touched(t)
  BY <1>1 DEF Touched, TypeOK, Row, LifeInv
<1> QED BY <1>3, <1>4, TouchOne DEF Elapses, SameMoney, SameWorld, SameUpstream, SameResults

-----------------------------------------------------------------------------
(* The actions: admission, provider, user and supervisor.                  *)

LEMMA RefuseReadyKeeps ==
  ASSUME StateInv, NEW t \in Task, RefuseReady(t)
  PROVE  StateInv' /\ NotSent
<1>1. TypeOK /\ task[t] \in Row /\ task[t].phase # "done"
      /\ UNCHANGED <<tool, run, obsolete, worker, upstream, begun>>
  BY DEF StateInv, TypeOK, RefuseReady, Ready, SameWorld, SameUpstream
<1>2. PICK status \in {"failed", "cancelled"} : Finish(t, task[t], status, 0)
  BY DEF RefuseReady
<1>3. Settles(t, status, 0) /\ Results(t, task[t], status)
  BY <1>1, Constants, SameResultsFit DEF Settles, Final, RefuseReady
<1> QED BY <1>1, <1>2, <1>3, UnchangedPass, FinishKeeps

LEMMA CancelUnsentKeeps ==
  ASSUME StateInv, NEW t \in Task, CancelUnsent(t)
  PROVE  StateInv' /\ NotSent
<1> DEFINE row == [task[t] EXCEPT !.cancel = TRUE]
<1>1. TypeOK /\ task[t] \in Row /\ task[t].phase # "done" /\ Finish(t, row, "cancelled", 0)
      /\ UNCHANGED <<tool, run, obsolete, worker, upstream, begun>>
  BY DEF StateInv, TypeOK, CancelUnsent, Unsent, SameWorld, SameUpstream
<1>2. row \in Row /\ row.attempt = task[t].attempt
  BY <1>1 DEF Row
<1>3. Settles(t, "cancelled", 0) /\ Results(t, row, "cancelled")
  BY <1>1, Constants, SameResultsFit DEF Settles, Final, CancelUnsent
<1> HIDE DEF row
<1> QED BY <1>1, <1>2, <1>3, UnchangedPass, FinishKeeps

LEMMA ParkKeeps ==
  ASSUME StateInv, NEW t \in Task, Park(t)
  PROVE  StateInv' /\ NotSent
<1> DEFINE row == [task[t] EXCEPT !.phase = "unknown", !.cancel = Cancelling(task[t])]
<1>1. TypeOK /\ task[t] \in Row /\ task[t].phase \in {"poll", "unknown"} /\ LifeInv(t)
      /\ UNCHANGED <<tool, ledger, account, run, obsolete, worker, upstream, begun, assets, drawn>>
  BY DEF StateInv, TypeOK, Park, Overdue, SameMoney, SameWorld, SameUpstream, SameResults
<1>2. Cancelling(task[t]) \in BOOLEAN
  BY <1>1, RowFields DEF Cancelling
<1>3. task' = [task EXCEPT ![t] = row]
  BY <1>1 DEF Park, TypeOK
<1>4. row \in Row
  BY <1>1, <1>2 DEF Row
<1>5. /\ row.status = task[t].status /\ row.attempt = task[t].attempt /\ row.known = task[t].known
      /\ row.reply = task[t].reply /\ row.phase = "unknown" /\ row.lease = task[t].lease
  BY <1>1 DEF Row
<1> HIDE DEF row
<1>6. task'[t] = row /\ task' \in [Task -> Row] /\ \A u \in Task \ {t} : task'[u] = task[u]
  BY <1>1, <1>3, <1>4 DEF TypeOK
<1>7. tool[t] = "staged" /\ Retries(task[t].reply) => upstream[t] # "running"
  BY DEF StateInv, SendInv
<1>8. RowMoves(t)
  BY <1>1, <1>5, <1>6, <1>7 DEF RowMoves, Unbegun, Untold, LifeInv
<1> QED BY <1>1, <1>8, UnchangedPass, RowKeeps

LEMMA UpstreamEndsKeeps ==
  ASSUME StateInv, NEW t \in Task, UpstreamEnds(t)
  PROVE  StateInv' /\ NotSent
<1>1. TypeOK /\ begun[t] <= 1 /\ upstream[t] = "running" /\ (tool[t] = "staged" => SendInv(t))
      /\ UNCHANGED <<tool, task, ledger, account, run, obsolete, worker, begun, assets, drawn>>
  BY DEF StateInv, UpstreamEnds, SameMoney, SameWorld, SameResults
<1>2. PICK end \in {"done", "failed"} : upstream' = [upstream EXCEPT ![t] = end]
  BY DEF UpstreamEnds
<1>3. upstream' \in [Task -> {"none", "running", "done", "failed", "cancelled"}] /\ upstream'[t] \in {"done", "failed"}
      /\ \A u \in Task \ {t} : upstream'[u] = upstream[u]
  BY <1>1, <1>2 DEF TypeOK
<1>4. Outside(t)
  BY <1>1, <1>3 DEF Outside, TypeOK
<1>5. ASSUME tool[t] = "staged" PROVE SendInv(t)'
  <2>1. ~Untold(t)
    BY <1>1 DEF Untold
  <2>2. ~Unbegun(t) /\ \A v \in Worker : ~Sends(v, t)
    BY <1>1, <1>5, <2>1 DEF SendInv
  <2>3. ~Unbegun(t)' /\ \A v \in Worker : ~Sends(v, t)'
    BY <1>1, <2>2 DEF Unbegun, Sends, Of
  <2> QED BY <1>3, <2>3 DEF SendInv
<1> QED BY <1>1, <1>4, <1>5, OutsideKeeps

LEMMA CallbackKeeps ==
  ASSUME StateInv, NEW t \in Task, Callback(t)
  PROVE  StateInv' /\ NotSent
<1>1. TypeOK /\ task[t].phase \in Asking /\ upstream[t] \in {"none", "running", "done", "failed", "cancelled"}
      /\ UNCHANGED <<tool, run, obsolete, worker>>
  BY DEF StateInv, TypeOK, Callback, SameWorld
<1>2. PICK reply \in Reports(t, upstream[t], "callback") : Consume(t, task[t], reply, FALSE)
  BY DEF Callback
<1>3. reply \in Replies /\ upstream[t] # "none" /\ (Pays(reply) => upstream[t] = "done")
      /\ (Retries(reply) => upstream[t] = "failed")
  BY <1>1, ReportFields
<1>4. ~Untold(t)
  BY <1>3 DEF Untold
<1> QED BY <1>1, <1>2, <1>3, <1>4, UnchangedPass, ConsumeKeeps

LEMMA CancelKeeps ==
  ASSUME StateInv, NEW t \in Task, Cancel(t)
  PROVE  StateInv' /\ NotSent
<1> DEFINE row == [task[t] EXCEPT !.cancel = TRUE]
<1>1. TypeOK /\ task[t] \in Row /\ LifeInv(t) /\ BillInv(t)
      /\ UNCHANGED <<tool, ledger, account, run, obsolete, worker, upstream, begun, assets, drawn>>
  BY DEF StateInv, TypeOK, Cancel, SameMoney, SameWorld, SameUpstream, SameResults
<1>2. row \in Row
  BY <1>1 DEF Row
<1>3. /\ row.status = task[t].status /\ row.attempt = task[t].attempt /\ row.known = task[t].known
      /\ row.reply = task[t].reply /\ row.phase = task[t].phase /\ row.lease = task[t].lease
      /\ row.credits = task[t].credits /\ row.cancel = TRUE
  BY <1>1 DEF Row
<1>4. CASE /\ task[t].phase = "ready" /\ task[t].status = "queued"
           /\ task' = [task EXCEPT ![t] = [Finished(@, "cancelled") EXCEPT !.cancel = TRUE]]
  <2>1. [Finished(task[t], "cancelled") EXCEPT !.cancel = TRUE] = Finished(row, "cancelled")
    BY <1>3 DEF Finished, Enqueued
  <2>2. ledger[t].state # "reserved"
    BY <1>1, <1>4 DEF BillInv
  <2>3. Finish(t, row, "cancelled", 0)
    BY <1>1, <1>4, <2>1, <2>2 DEF Finish, Settle, SettleAs, SameMoney, TypeOK
  <2>4. Settles(t, "cancelled", 0) /\ Results(t, row, "cancelled")
    BY <1>1, <1>4, Constants, SameResultsFit DEF Settles, Final, SameResults
  <2> HIDE DEF row
  <2> QED BY <1>1, <1>2, <1>3, <2>3, <2>4, UnchangedPass, FinishKeeps
<1>5. CASE /\ task[t].phase \notin {"ready", "done"} /\ ~task[t].cancel
           /\ task' = [task EXCEPT ![t].cancel = TRUE]
  <2>1. task' = [task EXCEPT ![t] = row]
    BY <1>5
  <2> HIDE DEF row
  <2>2. task'[t] = row /\ task' \in [Task -> Row] /\ \A u \in Task \ {t} : task'[u] = task[u]
    BY <1>1, <1>2, <2>1 DEF TypeOK
  <2>3. Touched(t)
    BY <1>3, <1>5, <2>2 DEF Touched
  <2> QED BY <1>1, <2>2, <2>3, TouchOne
<1> QED BY <1>4, <1>5 DEF Cancel

LEMMA SameRows ==
  ASSUME StateInv, task' = task
  PROVE  \A t \in Task : Touched(t)
BY DEF StateInv, LifeInv, Touched

LEMMA GrantKeeps ==
  ASSUME StateInv, Grant
  PROVE  StateInv' /\ NotSent
<1>1. TypeOK /\ UNCHANGED <<tool, task, ledger, run, obsolete, worker, upstream, begun, assets, drawn>>
  BY DEF StateInv, Grant, SameWorld, SameUpstream, SameResults
<1>2. account' = [account EXCEPT !.available = @ + Quote] /\ account \in [available : Nat, reserved : Nat, spent : Nat]
  BY <1>1 DEF Grant, TypeOK
<1>3. account.available + Quote \in Nat
  BY <1>2, Constants
<1>4. account' \in [available : Nat, reserved : Nat, spent : Nat]
      /\ account'.reserved = account.reserved /\ account'.spent = account.spent
  BY <1>2, <1>3
<1>5. TypeOK'
  BY <1>1, <1>4 DEF TypeOK
<1> QED BY <1>1, <1>4, <1>5, SameRows, TouchKeeps

LEMMA StopKeeps ==
  ASSUME StateInv, Stop
  PROVE  StateInv' /\ NotSent
<1>1. TypeOK /\ UNCHANGED <<tool, ledger, account, obsolete, worker, upstream, begun, assets, drawn>>
      /\ run' \in {"running", "paused", "cancelled"}
  BY DEF StateInv, Stop, SameMoney, SameUpstream, SameResults
<1> DEFINE new(t) == CASE task[t].status = "submitted" -> [task[t] EXCEPT !.cancel = TRUE]
                       [] task[t].status = "queued" -> [task[t] EXCEPT !.status = "cancelled"]
                       [] OTHER -> task[t]
<1>2. task' = [t \in Task |-> new(t)]
  BY DEF Stop
<1>3. ASSUME NEW t \in Task
      PROVE  /\ new(t) \in Row
             /\ new(t).phase = task[t].phase /\ new(t).attempt = task[t].attempt /\ new(t).known = task[t].known
             /\ new(t).reply = task[t].reply /\ new(t).credits = task[t].credits /\ new(t).lease = task[t].lease
             /\ new(t).status = task[t].status \/ (task[t].status = "queued" /\ new(t).status = "cancelled")
             /\ new(t).phase = "ready" => ~new(t).cancel
             /\ task[t].phase = "done" => new(t).cancel = task[t].cancel
  <2>1. task[t] \in Row /\ LifeInv(t)
    BY <1>1 DEF StateInv, TypeOK
  <2>2. CASE task[t].status = "submitted"
    <3>1. new(t) = [task[t] EXCEPT !.cancel = TRUE] /\ task[t].phase \notin {"ready", "done"}
      BY <2>1, <2>2 DEF LifeInv, Final
    <3> HIDE DEF new
    <3> QED BY <2>1, <3>1 DEF Row
  <2>3. CASE task[t].status = "queued"
    <3>1. new(t) = [task[t] EXCEPT !.status = "cancelled"] /\ (task[t].phase = "ready" => ~task[t].cancel)
      BY <2>1, <2>3 DEF LifeInv
    <3> HIDE DEF new
    <3> QED BY <2>1, <2>3, <3>1 DEF Row, Final
  <2>4. CASE task[t].status \notin {"submitted", "queued"}
    BY <2>1, <2>4 DEF LifeInv
  <2> QED BY <2>2, <2>3, <2>4
<1> HIDE DEF new
<1>4. task' \in [Task -> Row] /\ \A t \in Task : task'[t] = new(t)
  BY <1>2, <1>3
<1>5. TypeOK'
  BY <1>1, <1>4 DEF TypeOK
<1>6. \A t \in Task : Touched(t)
  BY <1>3, <1>4 DEF Touched
<1> QED BY <1>1, <1>5, <1>6, TouchKeeps

LEMMA StoppedKeeps ==
  ASSUME StateInv, Stopped
  PROVE  StateInv' /\ NotSent
<1>1. TypeOK' /\ UNCHANGED <<tool, task, ledger, account, worker, upstream, begun, assets, drawn>>
  BY DEF StateInv, TypeOK, Stopped, SameMoney, SameUpstream, SameResults
<1> QED BY <1>1, SameRows, TouchKeeps

LEMMA SupersedeKeeps ==
  ASSUME StateInv, Supersede
  PROVE  StateInv' /\ NotSent
<1>1. TypeOK' /\ UNCHANGED <<tool, task, ledger, account, worker, upstream, begun, assets, drawn>>
  BY DEF StateInv, TypeOK, Supersede, SameMoney, SameUpstream, SameResults
<1> QED BY <1>1, SameRows, TouchKeeps

-----------------------------------------------------------------------------
(* Every step keeps the invariant.                                         *)

LEMMA InitHolds == Init => StateInv
<1> SUFFICES ASSUME Init PROVE StateInv
  OBVIOUS
<1>1. TypeOK
  <2>1. task \in [Task -> Row] /\ worker \in [Worker -> Claim] /\ \A w \in Worker : worker[w].at = "idle"
    BY EnqueuedFields, IdleFields DEF Init
  <2>2. ledger \in [Task -> [state : {"none", "reserved", "settled", "refunded", "cancelled_with_charge"},
                             charged : 0..Quote]]
    BY Constants DEF Init
  <2>3. account \in [available : Nat, reserved : Nat, spent : Nat]
    BY DEF Init
  <2> QED BY <2>1, <2>2, <2>3 DEF Init, TypeOK
<1>2. Counters
  <2>1. Held = {}
    BY DEF Init, Held
  <2> QED BY <2>1, FS_EmptySet, Constants DEF Init, Counters
<1>3. ASSUME NEW t \in Task
      PROVE  LifeInv(t) /\ BillInv(t) /\ begun[t] <= 1 /\ SendInv(t)
  <2>1. task[t] = Enqueued /\ upstream[t] = "none" /\ begun[t] = 0 /\ assets[t] = 0 /\ ~drawn[t]
        /\ ledger[t].state = "none" /\ ledger[t].charged = 0
    BY DEF Init
  <2>2. \A v \in Worker : ~Owned(v) /\ ~Sends(v, t)
    BY IdleFields DEF Init, Owned, Sends
  <2>3. LifeInv(t)
    BY <2>1, EnqueuedFields, NoReplyType DEF LifeInv
  <2>4. BillInv(t)
    BY <2>1, EnqueuedFields DEF BillInv
  <2>5. SendInv(t)
    BY <2>1, <2>2, EnqueuedFields, NoReplyType DEF SendInv, Untold
  <2> QED BY <2>1, <2>3, <2>4, <2>5
<1>4. \A v \in Worker : ClaimInv(v)
  BY IdleFields DEF Init, Owned, ClaimInv
<1> QED BY <1>1, <1>2, <1>3, <1>4 DEF StateInv, Counters

LEMMA WorkerKeeps ==
  ASSUME StateInv, NEW w \in Worker, WorkerStep(w)
  PROVE  StateInv' /\ NotSent
<1>1. CASE \E t \in Task : Submit(w, t) \/ Resume(w, t)
  BY <1>1, SubmitKeeps, ResumeKeeps
<1>2. CASE ProviderAccepts(w) \/ SubmitFails(w) \/ SubmitReplies(w)
  BY <1>2, ProviderAcceptsKeeps, SubmitFailsKeeps, SubmitRepliesKeeps
<1>3. CASE QueryReplies(w) \/ QueryMisses(w) \/ CancelReplies(w)
  BY <1>3, QueryRepliesKeeps, QueryMissesKeeps, CancelRepliesKeeps
<1>4. CASE CallReturns(w) \/ CallFails(w) \/ Fenced(w) \/ Checkpoint(w)
  BY <1>4, CallReturnsKeeps, CallFailsKeeps, FencedKeeps, CheckpointKeeps
<1>5. CASE SavePublished(w) \/ SavePrepared(w) \/ SaveDownloaded(w) \/ SaveReply(w) \/ SaveNothing(w)
  BY <1>5, SavePublishedKeeps, SavePreparedKeeps, SaveDownloadedKeeps, SaveReplyKeeps, SaveNothingKeeps
<1>6. CASE PrepareFailed(w) \/ SendFailed(w) \/ AskFailed(w) \/ DownloadFailed(w) \/ PublishFailed(w)
  BY <1>6, PrepareFailedKeeps, SendFailedKeeps, AskFailedKeeps, DownloadFailedKeeps, PublishFailedKeeps
<1>7. CASE Crash(w) \/ SaveBusy(w) \/ Heartbeat(w)
  BY <1>7, CrashKeeps, SaveBusyKeeps, HeartbeatKeeps
<1> QED BY <1>1, <1>2, <1>3, <1>4, <1>5, <1>6, <1>7 DEF WorkerStep, Work

LEMMA TaskKeeps ==
  ASSUME StateInv, NEW t \in Task, TaskStep(t)
  PROVE  StateInv' /\ NotSent
BY RefuseReadyKeeps, CancelUnsentKeeps, ParkKeeps, LeaseExpiresKeeps, ElapsesKeeps, UpstreamEndsKeeps,
   CallbackKeeps, CancelKeeps DEF TaskStep

LEMMA NextKeeps == StateInv /\ [Next]_vars => StateInv' /\ NotSent
<1> SUFFICES ASSUME StateInv, [Next]_vars PROVE StateInv' /\ NotSent
  OBVIOUS
<1>1. CASE \E w \in Worker : WorkerStep(w)
  BY <1>1, WorkerKeeps
<1>2. CASE \E t \in Task : TaskStep(t)
  BY <1>2, TaskKeeps
<1>3. CASE Grant \/ Stop \/ Stopped \/ Supersede
  BY <1>3, GrantKeeps, StopKeeps, StoppedKeeps, SupersedeKeeps
<1>4. CASE UNCHANGED vars
  <2>1. UNCHANGED <<tool, task, ledger, account, run, obsolete, worker, upstream, begun, assets, drawn>>
    BY <1>4 DEF vars
  <2>2. TypeOK'
    BY <2>1 DEF StateInv, TypeOK
  <2> QED BY <2>1, <2>2, SameRows, TouchKeeps
<1> QED BY <1>1, <1>2, <1>3, <1>4 DEF Next

-----------------------------------------------------------------------------
(* The contract: what its terms rest on.                                   *)

\* A step on t that nobody else's terms depend on.
TermsMove(t) ==
  /\ tool' = tool /\ run' = run
  /\ \A u \in Task \ {t} : task'[u] = task[u] /\ upstream'[u] = upstream[u]
  /\ TaskTerms(t)'
  /\ task'[t].status = "submitted" => task[t].status = "submitted" \/ run = "running"

LEMMA TermsElsewhere ==
  ASSUME ExecInv, NEW t \in Task, TermsMove(t),
         \A v \in Worker : worker'[v] = worker[v] \/ worker'[v] = Idle \/ Of(v)' = t,
         \A v \in Worker : Of(v)' = t => WorkerTerms(v)'
  PROVE  TermsInv'
<1>1. TypeOK /\ TermsInv
  BY DEF ExecInv, StateInv
<1>2. run' = "cancelled" => InFlight' = {}
  <2> SUFFICES ASSUME run' = "cancelled", NEW u \in Task, task'[u].status = "submitted" PROVE FALSE
    BY DEF InFlight
  <2>1. task[u].status = "submitted" /\ run = "cancelled"
    BY DEF TermsMove
  <2> QED BY <1>1, <2>1 DEF TermsInv, InFlight
<1>3. ASSUME NEW u \in Task PROVE TaskTerms(u)'
  <2>1. CASE u = t
    BY <2>1 DEF TermsMove
  <2>2. CASE u # t
    BY <1>1, <2>2 DEF TermsMove, TermsInv, TaskTerms, Means
  <2> QED BY <2>1, <2>2
<1>4. ASSUME NEW v \in Worker PROVE WorkerTerms(v)'
  <2>1. CASE Of(v)' = t
    BY <2>1
  <2>2. CASE worker'[v] = Idle
    BY <2>2, IdleFields DEF WorkerTerms
  <2>3. CASE worker'[v] = worker[v] /\ Of(v)' # t
    <3> SUFFICES ASSUME worker'[v].at # "idle" PROVE WorkerTerms(v)'
      BY DEF WorkerTerms
    <3>1. WorkerTerms(v) /\ worker[v].at # "idle" /\ Of(v)' = Of(v) /\ Of(v) \in Task \ {t}
      BY <1>1, <2>3, Owner DEF TermsInv, Of
    <3>2. task'[Of(v)] = task[Of(v)] /\ upstream'[Of(v)] = upstream[Of(v)] /\ tool' = tool
      BY <3>1 DEF TermsMove
    <3>3. (Owned(v)' <=> Owned(v)) /\ (Sends(v, Of(v))' <=> Sends(v, Of(v)))
          /\ (Calling(v, {"cancel"})' <=> Calling(v, {"cancel"}))
      BY <2>3, <3>1, <3>2 DEF Owned, Sends, Of, Calling
    <3> QED BY <2>3, <3>1, <3>2, <3>3 DEF WorkerTerms, Means
  <2> QED BY <2>1, <2>2, <2>3
<1> QED BY <1>2, <1>3, <1>4 DEF TermsInv

LEMMA TermsPass ==
  ASSUME ExecInv, NEW t \in Task, TermsMove(t), WorkersPass(t),
         task[t].cancel => task'[t].cancel,
         task'[t].status = "queued" => task[t].status = "queued",
         task'[t].lease = None \/ task'[t].lease = task[t].lease,
         task'[t].lease # None => upstream'[t] = upstream[t] \/ upstream[t] = "running",
         tool[t] = "staged" => task'[t].status = task[t].status \/ \A v \in Worker : ~Sends(v, t)
  PROVE  TermsInv'
<1>1. TypeOK /\ TermsInv
  BY DEF ExecInv, StateInv
<1>2. ASSUME NEW v \in Worker, Of(v)' = t PROVE WorkerTerms(v)'
  <2> SUFFICES ASSUME worker'[v].at # "idle" PROVE WorkerTerms(v)'
    BY DEF WorkerTerms
  <2>1. /\ worker[v].at # "idle" /\ Of(v) = t /\ worker'[v].reply = worker[v].reply
        /\ \/ worker'[v] = worker[v]
           \/ worker'[v].at # "calling"
    BY <1>2, IdleFields DEF WorkersPass, Passes, Of
  <2>2. WorkerTerms(v)
    BY <1>1 DEF TermsInv
  <2>3. ASSUME Owned(v)' PROVE Means(t, worker[v].reply)'
    <3>1. task'[t].lease = v /\ v # None
      BY <1>2, <2>3, Constants DEF Owned, Of
    <3>2. Owned(v)
      BY <2>1, <3>1 DEF Owned, Of
    <3>3. Means(t, worker[v].reply) /\ (upstream'[t] = upstream[t] \/ upstream[t] = "running") /\ tool' = tool
      BY <2>1, <2>2, <3>1, <3>2 DEF WorkerTerms, TermsMove
    <3>4. worker'[v].reply = worker[v].reply
      BY <2>1
    <3> QED BY <3>3, <3>4 DEF Means
  <2>4. task'[t].status # "queued"
    BY <2>1, <2>2 DEF WorkerTerms
  <2>5. Calling(v, {"cancel"})' => task'[t].cancel
    BY <2>1, <2>2 DEF WorkerTerms, Calling
  <2>6. tool'[t] = "staged" /\ Sends(v, t)' => task'[t].status = "submitted"
    <3>1. Sends(v, t)' => Sends(v, t)
      BY <2>1 DEF Sends, Of
    <3> QED BY <2>1, <2>2, <3>1 DEF WorkerTerms, TermsMove
  <2> QED BY <1>2, <2>1, <2>3, <2>4, <2>5, <2>6 DEF WorkerTerms, Means
<1>3. \A v \in Worker : worker'[v] = worker[v] \/ worker'[v] = Idle \/ Of(v)' = t
  BY <1>1, PassTypes
<1> QED BY <1>2, <1>3, TermsElsewhere

-----------------------------------------------------------------------------
(* The contract: what its variables are mapped to.                         *)

Verdicts == [t \in Task |-> task[t].status]
Asks == [t \in Task |-> task[t].cancel]
Tries == [t \in Task |-> task[t].retried]
Charges == [t \in Task |-> ledger[t].charged]
Locals == {t \in Task : tool[t] # "staged"}
Texts == {t \in Task : tool[t] = "text"}

Fulfils == TermsInv' /\ [Contract!Next]_(Contract!vars)

LEMMA MappedRow ==
  ASSUME NEW t \in Task, \A u \in Task \ {t} : task'[u] = task[u]
  PROVE  /\ Verdicts' = [Verdicts EXCEPT ![t] = task'[t].status]
         /\ Asks' = [Asks EXCEPT ![t] = task'[t].cancel]
         /\ Tries' = [Tries EXCEPT ![t] = task'[t].retried]
         /\ task'[t].status = task[t].status => Verdicts' = Verdicts
         /\ task'[t].cancel = task[t].cancel => Asks' = Asks
         /\ task'[t].retried = task[t].retried => Tries' = Tries
<1>1. Verdicts' = [Verdicts EXCEPT ![t] = task'[t].status]
  BY DEF Verdicts
<1>2. Asks' = [Asks EXCEPT ![t] = task'[t].cancel]
  BY DEF Asks
<1>3. Tries' = [Tries EXCEPT ![t] = task'[t].retried]
  BY DEF Tries
<1>4. task'[t].status = task[t].status => Verdicts' = Verdicts
  BY DEF Verdicts
<1>5. task'[t].cancel = task[t].cancel => Asks' = Asks
  BY DEF Asks
<1>6. task'[t].retried = task[t].retried => Tries' = Tries
  BY DEF Tries
<1> QED BY <1>1, <1>2, <1>3, <1>4, <1>5, <1>6

\* A step whose effects the contract does not see.
LEMMA QuietStep ==
  ASSUME NEW t \in Task, \A u \in Task \ {t} : task'[u] = task[u],
         task'[t].status = task[t].status, task'[t].cancel = task[t].cancel, task'[t].retried = task[t].retried,
         UNCHANGED <<tool, ledger, account, upstream, assets, drawn>>
  PROVE  UNCHANGED Contract!vars
<1>1. Verdicts' = Verdicts /\ Asks' = Asks /\ Tries' = Tries /\ Charges' = Charges /\ Locals' = Locals /\ Texts' = Texts
  BY MappedRow DEF Charges, Locals, Texts
<1> QED BY <1>1 DEF Contract!vars, Verdicts, Asks, Tries, Charges, Locals, Texts

LEMMA SameTasks ==
  ASSUME UNCHANGED <<tool, task, ledger>>
  PROVE  Verdicts' = Verdicts /\ Asks' = Asks /\ Tries' = Tries /\ Charges' = Charges /\ Locals' = Locals /\ Texts' = Texts
BY DEF Verdicts, Asks, Tries, Charges, Locals, Texts

\* A request for a cancellation of a task in flight, or none.
LEMMA AskStep ==
  ASSUME NEW t \in Task, \A u \in Task \ {t} : task'[u] = task[u],
         task[t].status = "submitted", task'[t].status = task[t].status, task'[t].retried = task[t].retried,
         task'[t].cancel = TRUE,
         UNCHANGED <<tool, ledger, account, upstream, assets, drawn>>
  PROVE  Contract!Ask(t)
<1>1. Verdicts' = Verdicts /\ Asks' = [Asks EXCEPT ![t] = TRUE] /\ Tries' = Tries
  BY MappedRow
<1>2. Charges' = Charges /\ Locals' = Locals /\ Texts' = Texts
  BY DEF Charges, Locals, Texts
<1>3. Verdicts[t] = "submitted"
  BY DEF Verdicts
<1> QED BY <1>1, <1>2, <1>3 DEF Contract!Ask, Verdicts, Asks, Tries, Charges, Locals, Texts

-----------------------------------------------------------------------------
(* The contract: verdicts.                                                 *)

\* The ledger and the account of a verdict: what failed costs nothing.
LEMMA SettledMoney ==
  ASSUME TypeOK, NEW t \in Task, NEW status, NEW actual, Settles(t, status, actual), Settle(t, status, actual),
         ledger[t].state = "reserved"
  PROVE  /\ \A u \in Task \ {t} : ledger'[u] = ledger[u]
         /\ ledger'[t].charged = actual
         /\ account'.available = account.available + (Quote - actual)
         /\ account'.spent = account.spent + actual
<1> DEFINE outcome == Outcome(t, status)
           charge == Charge(outcome, actual)
<1>1. charge = actual
  <2>1. status \in {"failed", "blocked_by_model"} => actual = 0
    BY DEF Settles
  <2>2. outcome \in {status, "cancelled"}
    BY DEF Outcome
  <2> QED BY <2>1, <2>2 DEF Charge
<1> HIDE DEF charge, outcome
<1>2. /\ ledger' = [ledger EXCEPT ![t] = [state |-> LedgerState(outcome, charge), charged |-> charge]]
      /\ account' = [account EXCEPT !.available = @ + (Quote - charge),
                                    !.reserved = @ - (Quote - charge),
                                    !.spent = @ + charge]
  BY DEF Settle, SettleAs, charge, outcome
<1>3. account \in [available : Nat, reserved : Nat, spent : Nat]
  BY DEF TypeOK
<1>4. /\ account'.available = account.available + (Quote - charge)
      /\ account'.spent = account.spent + charge
  BY <1>2, <1>3
<1>5. ledger'[t].charged = charge /\ \A u \in Task \ {t} : ledger'[u] = ledger[u]
  BY <1>2 DEF TypeOK
<1> QED BY <1>1, <1>4, <1>5

LEMMA FinishedRow ==
  ASSUME TypeOK, NEW t \in Task, NEW row \in Row, NEW status \in Final, NEW actual, Finish(t, row, status, actual)
  PROVE  /\ \A u \in Task \ {t} : task'[u] = task[u]
         /\ task'[t].phase = "done" /\ task'[t].status = status /\ task'[t].lease = None
         /\ task'[t].cancel = row.cancel /\ task'[t].retried = 0 /\ task'[t].reply = NoReply
BY FinishedFields DEF Finish, TypeOK

LEMMA SettleStep ==
  ASSUME StateInv, NEW t \in Task, task[t].status = "submitted",
         NEW row \in Row, row.cancel = task[t].cancel,
         NEW status, NEW actual, Settles(t, status, actual), Finish(t, row, status, actual),
         UNCHANGED <<tool, upstream>>
  PROVE  Contract!Settle(t, status, actual)
<1>1. TypeOK /\ ledger[t].state = "reserved" /\ status \in Final
  BY DEF StateInv, BillInv, Settles
<1>2. /\ \A u \in Task \ {t} : ledger'[u] = ledger[u]
      /\ ledger'[t].charged = actual
      /\ account'.available = account.available + (Quote - actual)
      /\ account'.spent = account.spent + actual
  BY <1>1, SettledMoney DEF Finish
<1>3. /\ Verdicts' = [Verdicts EXCEPT ![t] = status] /\ Asks' = Asks /\ Tries' = [Tries EXCEPT ![t] = 0]
  BY <1>1, FinishedRow, MappedRow
<1>4. Charges' = [Charges EXCEPT ![t] = actual] /\ Locals' = Locals /\ Texts' = Texts
  BY <1>2 DEF Charges, Locals, Texts
<1>5. Verdicts[t] = "submitted"
  BY DEF Verdicts
<1> QED BY <1>2, <1>3, <1>4, <1>5 DEF Contract!Settle, Verdicts, Asks, Tries, Charges, Locals, Texts

\* A verdict leaves no request for the task on its way to a provider.
LEMMA FinishTerms ==
  ASSUME ExecInv, NEW t \in Task, NEW row \in Row, task[t].cancel => row.cancel,
         NEW status, NEW actual, Settles(t, status, actual), Finish(t, row, status, actual),
         WorkersPass(t), UNCHANGED <<tool, run, upstream>>,
         tool[t] = "staged" => \A v \in Worker : ~Sends(v, t)
  PROVE  TermsInv'
<1>1. TypeOK /\ TaskTerms(t) /\ status \in Final
  BY DEF ExecInv, StateInv, TermsInv, Settles
<1>2. /\ \A u \in Task \ {t} : task'[u] = task[u]
      /\ task'[t].phase = "done" /\ task'[t].status = status /\ task'[t].lease = None
      /\ task'[t].cancel = row.cancel /\ task'[t].retried = 0 /\ task'[t].reply = NoReply
  BY <1>1, FinishedRow
<1>3. TaskTerms(t)'
  BY <1>1, <1>2, NoReplyType DEF TaskTerms, Means, Retries
<1>4. TermsMove(t)
  BY <1>1, <1>2, <1>3 DEF TermsMove, Final
<1> QED BY <1>1, <1>2, <1>4, TermsPass DEF Final

-----------------------------------------------------------------------------
(* The contract: the shapes of steps.                                      *)

\* The row moves on, and neither money nor provider.
LEMMA RowFulfils ==
  ASSUME ExecInv, NEW t \in Task, WorkersPass(t), \A u \in Task \ {t} : task'[u] = task[u],
         task'[t].status = task[t].status, task'[t].cancel = task[t].cancel, task'[t].retried = task[t].retried,
         task'[t].lease = None \/ task'[t].lease = task[t].lease,
         Means(t, task'[t].reply),
         task'[t].phase = "preparing" => task[t].phase = "preparing" /\ task'[t].attempt = task[t].attempt,
         task'[t].phase \in {"download", "publish"} => task[t].phase \in {"download", "publish"} \/ tool[t] # "text",
         UNCHANGED <<tool, ledger, account, run, upstream, assets, drawn>>
  PROVE  Fulfils
<1>1. TaskTerms(t)
  BY DEF ExecInv, TermsInv
<1>2. TaskTerms(t)'
  BY <1>1 DEF TaskTerms, Means
<1>3. TermsMove(t)
  BY <1>2 DEF TermsMove
<1>4. TermsInv'
  BY <1>3, TermsPass
<1> QED BY <1>4, QuietStep DEF Fulfils

\* Nothing is on its way when something is known of the attempt, or nothing was begun.
LEMMA NobodySends ==
  ASSUME StateInv, NEW t \in Task, tool[t] = "staged", ~Untold(t) \/ Unbegun(t)
  PROVE  \A v \in Worker : ~Sends(v, t)
BY DEF StateInv, SendInv

LEMMA FailFulfils ==
  ASSUME ExecInv, NEW t \in Task, task[t].status = "submitted", task[t].phase # "done",
         NEW row \in Row, row.cancel = task[t].cancel,
         NEW status \in {"failed", "blocked_by_model"}, Finish(t, row, status, 0),
         WorkersPass(t), UNCHANGED <<tool, run, upstream, assets, drawn>>,
         tool[t] = "staged" => \A v \in Worker : ~Sends(v, t)
  PROVE  Fulfils
<1>1. Settles(t, status, 0)
  BY Constants DEF Settles, Final
<1>2. Contract!Settle(t, status, 0)
  BY <1>1, SettleStep DEF ExecInv
<1>3. Contract!Fail(t)
  BY <1>2 DEF Contract!Fail
<1>4. TermsInv'
  BY <1>1, FinishTerms
<1> QED BY <1>3, <1>4 DEF Fulfils, Contract!Next

LEMMA CancelFulfils ==
  ASSUME ExecInv, NEW t \in Task, task[t].status = "submitted", task[t].phase # "done", task[t].cancel,
         NEW row \in Row, row.cancel = task[t].cancel, Finish(t, row, "cancelled", 0),
         WorkersPass(t), UNCHANGED <<tool, run, upstream, assets, drawn>>,
         tool[t] = "staged" => /\ upstream[t] \in {"none", "cancelled"}
                               /\ \A v \in Worker : ~Sends(v, t)
  PROVE  Fulfils
<1>1. Settles(t, "cancelled", 0)
  BY Constants DEF Settles, Final
<1>2. Contract!Settle(t, "cancelled", 0)
  BY <1>1, SettleStep DEF ExecInv
<1>3. Asks[t] /\ (t \notin Locals => upstream[t] \in {"none", "cancelled"})
  <2>1. tool[t] \in Tools
    BY DEF ExecInv, StateInv, TypeOK
  <2> QED BY <2>1 DEF Asks, Locals, Texts, Tools
<1>4. Contract!Cancel(t)
  BY <1>2, <1>3 DEF Contract!Cancel, Asks, Locals, Texts
<1>5. TermsInv'
  BY <1>1, FinishTerms
<1> QED BY <1>4, <1>5 DEF Fulfils, Contract!Next

LEMMA RetryFulfils ==
  ASSUME ExecInv, NEW t \in Task, WorkersPass(t), task[t].status = "submitted",
         task[t].retried < MaxRetries, ~task[t].cancel,
         task' = [task EXCEPT ![t] = Retrying(Consumed(task[t]))], NewAttempt(t),
         UNCHANGED <<tool, ledger, account, run, assets, drawn>>,
         tool[t] = "staged" => upstream[t] \in {"none", "failed"}
  PROVE  Fulfils
<1>1. TypeOK /\ task[t] \in Row /\ TaskTerms(t) /\ tool[t] \in Tools
  BY DEF ExecInv, StateInv, TypeOK, TermsInv
<1>2. /\ \A u \in Task \ {t} : task'[u] = task[u]
      /\ task'[t].status = task[t].status /\ task'[t].phase = "sending" /\ task'[t].lease = None
      /\ task'[t].reply = NoReply /\ task'[t].cancel = task[t].cancel
      /\ task'[t].retried = task[t].retried + 1
  <2> DEFINE row == Consumed(task[t])
  <2>1. row \in Row /\ row.lease = None /\ row.status = task[t].status /\ row.retried = task[t].retried
        /\ row.cancel = task[t].cancel
    BY <1>1, ConsumedFields
  <2> HIDE DEF row
  <2>2. /\ Retrying(row).lease = None /\ Retrying(row).status = task[t].status
        /\ Retrying(row).phase = "sending" /\ Retrying(row).reply = NoReply
        /\ Retrying(row).cancel = task[t].cancel /\ Retrying(row).retried = task[t].retried + 1
    BY <2>1, RetryingFields
  <2>3. task' = [task EXCEPT ![t] = Retrying(row)]
    BY DEF row
  <2> QED BY <1>1, <2>2, <2>3 DEF TypeOK
<1>3. upstream[t] # "running"
  BY <1>1 DEF TaskTerms, Tools
<1>4. upstream' = [upstream EXCEPT ![t] = "none"]
  BY <1>3 DEF NewAttempt
<1>5. upstream'[t] = "none" /\ \A u \in Task \ {t} : upstream'[u] = upstream[u]
  BY <1>1, <1>4 DEF TypeOK
<1>6. TaskTerms(t)'
  BY <1>2, <1>5, NoReplyType DEF TaskTerms, Means
<1>7. TermsMove(t)
  BY <1>2, <1>5, <1>6 DEF TermsMove
<1>8. TermsInv'
  BY <1>2, <1>7, TermsPass
<1>9. Verdicts' = Verdicts /\ Asks' = Asks /\ Tries' = [Tries EXCEPT ![t] = task[t].retried + 1]
      /\ Charges' = Charges /\ Locals' = Locals /\ Texts' = Texts
  BY <1>2, MappedRow DEF Charges, Locals, Texts
<1>10. /\ Verdicts[t] = "submitted" /\ ~Asks[t] /\ Tries[t] = task[t].retried
       /\ t \notin Locals => upstream[t] \in {"none", "failed"}
  BY <1>1 DEF Verdicts, Asks, Tries, Locals, Texts, Tools
<1>11. Contract!Retry(t)
  BY <1>4, <1>9, <1>10 DEF Contract!Retry, Verdicts, Asks, Tries, Charges, Locals, Texts
<1> QED BY <1>8, <1>11 DEF Fulfils, Contract!Next

\* A text becomes an asset and gets its verdict.
LEMMA TextFulfils ==
  ASSUME ExecInv, NEW t \in Task, task[t].status = "submitted", task[t].phase # "done", tool[t] = "text",
         upstream[t] = "done", NEW row \in Row, row.cancel = task[t].cancel,
         NEW cost \in Costs, cost <= Quote,
         Finish(t, row, "succeeded", cost) \/ Finish(t, row, "failed", 0), Keep(t, Cancelling(row)),
         WorkersPass(t), UNCHANGED <<tool, run, upstream>>
  PROVE  Fulfils
<1>1. StateInv /\ TypeOK /\ assets[t] = 0 /\ ~drawn[t] /\ cost \in 0..Quote
  BY Constants DEF ExecInv, StateInv, LifeInv
<1>2. PICK status \in {"succeeded", "failed"}, price \in {0, cost} :
        /\ Finish(t, row, status, price)
        /\ status = "succeeded" => price = cost
        /\ status = "failed" => price = 0
  OBVIOUS
<1>3. Settles(t, status, price)
  BY <1>1, <1>2, Constants DEF Settles, Final
<1>4. Contract!Settle(t, status, price)
  BY <1>1, <1>2, <1>3, SettleStep
<1>5. PICK placed \in BOOLEAN : (placed => ~task[t].cancel) /\ drawn' = [drawn EXCEPT ![t] = @ \/ placed]
  BY DEF Keep, Cancelling
<1>6. Asks[t] = task[t].cancel /\ t \in Texts
  BY DEF Asks, Texts
<1>7. drawn' = [drawn EXCEPT ![t] = placed /\ ~Asks[t]] /\ assets' = [assets EXCEPT ![t] = 1]
  <2>1. (drawn[t] \/ placed) = (placed /\ ~Asks[t])
    BY <1>1, <1>5, <1>6
  <2>2. assets' = [assets EXCEPT ![t] = assets[t] + 1] /\ assets[t] + 1 = 1
    BY <1>1 DEF Keep
  <2>3. drawn' = [drawn EXCEPT ![t] = drawn[t] \/ placed]
    BY <1>5
  <2> QED BY <2>1, <2>2, <2>3
<1>8. Contract!Shown(t)
  BY <1>7 DEF Contract!Shown, Asks
<1>9. (\E p \in Costs : p <= Quote /\ Contract!Settle(t, "succeeded", p)) \/ Contract!Settle(t, "failed", 0)
  BY <1>2, <1>4
<1>10. Contract!AnswerText(t)
  BY <1>1, <1>6, <1>8, <1>9 DEF Contract!AnswerText, Texts
<1>11. TermsInv'
  BY <1>2, <1>3, FinishTerms
<1> QED BY <1>10, <1>11 DEF Fulfils, Contract!Next

LEMMA ConsumeFulfils ==
  ASSUME ExecInv, NEW t \in Task, NEW reply \in Replies, NEW saved \in BOOLEAN,
         Consume(t, task[t], reply, saved), WorkersPass(t), task[t].phase \in Asking,
         UNCHANGED <<tool, run, obsolete>>,
         Pays(reply) => upstream[t] = "done",
         tool[t] = "staged" => ~Untold(t),
         Means(t, reply)
  PROVE  Fulfils
<1> DEFINE row == Consumed(task[t])
<1>1. TypeOK /\ task[t] \in Row /\ LifeInv(t) /\ task[t].phase \notin {"ready", "done"} /\ TaskTerms(t) /\ StateInv
  BY DEF ExecInv, StateInv, TypeOK, Asking, TermsInv
<1>2. task[t].status = "submitted"
  BY <1>1 DEF LifeInv
<1>3. /\ row \in Row /\ row.lease = None /\ row.status = task[t].status /\ row.phase = task[t].phase
      /\ row.cancel = task[t].cancel /\ row.retried = task[t].retried /\ row.reply = task[t].reply
  BY <1>1, ConsumedFields, ReleasedFields DEF Consumed, Row
<1>4. Quote \in Nat /\ reply.cost \in Nat /\ (Pays(reply) => reply.cost \in Costs)
  BY Constants, ReplyFields
<1>5. tool[t] = "staged" => \A v \in Worker : ~Sends(v, t)
  BY <1>1, NobodySends
<1>6. Means(t, NoReply)
  BY NoReplyType DEF Means, Retries
<1> HIDE DEF row
<1>7. CASE MayRetry(row, reply) /\ task' = [task EXCEPT ![t] = Retrying(row)] /\ NewAttempt(t) /\ SameMoney
         /\ SameResults
  <2>1. task[t].retried < MaxRetries /\ Retries(reply) /\ ~task[t].cancel
    BY <1>3, <1>7 DEF MayRetry, Retries
  <2>2. tool[t] = "staged" => upstream[t] \in {"none", "failed"}
    BY <2>1 DEF Means
  <2> QED BY <1>2, <1>7, <2>1, <2>2, RetryFulfils DEF SameMoney, SameResults, row
<1>8. CASE reply.status = "pending"
           /\ task' = [task EXCEPT ![t] = [row EXCEPT !.phase = "poll", !.reply = NoReply]]
           /\ SameUpstream /\ SameMoney /\ SameResults
  <2> DEFINE new == [row EXCEPT !.phase = "poll", !.reply = NoReply]
  <2>1. new.phase = "poll" /\ new.reply = NoReply /\ new.status = row.status /\ new.lease = None
        /\ new.cancel = row.cancel /\ new.retried = row.retried
    BY <1>3 DEF Row
  <2> HIDE DEF new
  <2>2. task'[t] = new /\ \A u \in Task \ {t} : task'[u] = task[u]
    BY <1>1, <1>8 DEF TypeOK, new
  <2> QED BY <1>3, <1>6, <1>8, <2>1, <2>2, RowFulfils DEF SameUpstream, SameMoney, SameResults
<1>9. CASE reply.status = "cancelled" /\ Finish(t, row, "cancelled", 0) /\ SameUpstream /\ SameResults
  <2>1. upstream[t] = "cancelled" /\ task[t].cancel
    BY <1>1, <1>9 DEF Means, TaskTerms
  <2> QED BY <1>1, <1>2, <1>3, <1>5, <1>9, <2>1, CancelFulfils DEF SameUpstream, SameResults
<1>10. CASE \E status \in {"failed", "blocked_by_model"} : Finish(t, row, status, 0) /\ SameUpstream /\ SameResults
  BY <1>1, <1>2, <1>3, <1>5, <1>10, FailFulfils DEF SameUpstream, SameResults
<1>11. CASE reply.cost > Quote
            /\ task' = [task EXCEPT ![t] = [row EXCEPT !.phase = "unknown", !.late = TRUE]]
            /\ SameUpstream /\ SameMoney /\ SameResults
  <2> DEFINE new == [row EXCEPT !.phase = "unknown", !.late = TRUE]
  <2>1. new.phase = "unknown" /\ new.reply = row.reply /\ new.status = row.status /\ new.lease = None
        /\ new.cancel = row.cancel /\ new.retried = row.retried
    BY <1>3 DEF Row
  <2> HIDE DEF new
  <2>2. task'[t] = new /\ \A u \in Task \ {t} : task'[u] = task[u]
    BY <1>1, <1>11 DEF TypeOK, new
  <2> QED BY <1>1, <1>3, <1>11, <2>1, <2>2, RowFulfils DEF SameUpstream, SameMoney, SameResults, TaskTerms
<1>12. CASE reply.status = "output" /\ reply.cost <= Quote
            /\ ConsumeOutput(t, row, reply.cost) /\ SameUpstream
  <2>1. Pays(reply) /\ reply.cost \in Costs /\ upstream[t] = "done"
    BY <1>4, <1>12 DEF Pays, Outcomes
  <2>2. CASE Finish(t, row, "failed", 0) /\ SameResults
    BY <1>10, <1>12, <2>2
  <2>3. CASE tool[t] # "text" /\ Finish(t, row, "succeeded", reply.cost) /\ SameResults
    <3>1. Settles(t, "succeeded", reply.cost)
      BY <1>1, <1>2, <1>4, <1>12, <2>1 DEF Settles, Final
    <3>2. Contract!Settle(t, "succeeded", reply.cost)
      BY <1>1, <1>2, <1>3, <1>12, <2>3, <3>1, SettleStep DEF SameUpstream
    <3>3. Contract!Answer(t)
      BY <1>12, <2>1, <2>3, <3>2 DEF Contract!Answer, SameResults
    <3>4. TermsInv'
      BY <1>3, <1>5, <1>12, <2>3, <3>1, FinishTerms DEF SameUpstream
    <3> QED BY <3>3, <3>4 DEF Fulfils, Contract!Next
  <2>4. CASE tool[t] = "text" /\ Keep(t, Cancelling(row))
             /\ (Finish(t, row, "succeeded", reply.cost) \/ Finish(t, row, "failed", 0))
    BY <1>1, <1>2, <1>3, <1>4, <1>5, <1>12, <2>1, <2>4, TextFulfils DEF SameUpstream
  <2> QED BY <1>12, <2>2, <2>3, <2>4 DEF ConsumeOutput
<1>13. CASE reply.status \in {"located", "delivered"} /\ reply.cost <= Quote
            /\ task' = [task EXCEPT ![t] =
                 [row EXCEPT !.credits = reply.cost, !.reply = NoReply, !.late = FALSE,
                             !.phase = IF saved THEN "publish" ELSE "download"]]
            /\ SameUpstream /\ SameMoney /\ SameResults
  <2> DEFINE new == [row EXCEPT !.credits = reply.cost, !.reply = NoReply, !.late = FALSE,
                                !.phase = IF saved THEN "publish" ELSE "download"]
  <2>1. new.phase \in {"publish", "download"} /\ new.reply = NoReply /\ new.status = row.status /\ new.lease = None
        /\ new.cancel = row.cancel /\ new.retried = row.retried
    BY <1>3 DEF Row
  <2> HIDE DEF new
  <2>2. task'[t] = new /\ \A u \in Task \ {t} : task'[u] = task[u]
    BY <1>1, <1>13 DEF TypeOK, new
  <2>3. tool[t] # "text"
    BY <1>13 DEF Means
  <2> QED BY <1>3, <1>6, <1>13, <2>1, <2>2, <2>3, RowFulfils DEF SameUpstream, SameMoney, SameResults
<1>14. CASE reply.status \in {"cancelled", "failed", "blocked_by_model"}
            /\ Finish(t, row, reply.status, 0) /\ SameUpstream /\ SameResults
  BY <1>9, <1>10, <1>14
<1>15. CASE Finish(t, row, "failed", 0) /\ SameUpstream /\ SameResults
  BY <1>10, <1>15
<1> QED BY <1>7, <1>8, <1>11, <1>12, <1>13, <1>14, <1>15 DEF Consume, row

-----------------------------------------------------------------------------
(* The contract: leases and calls.                                         *)

\* No step of a run that is cancelled has a task in flight.
LEMMA OnlyAsked ==
  ASSUME ExecInv, NEW t \in Task, task[t].status = "submitted"
  PROVE  Cancelling(task[t]) = task[t].cancel /\ run # "cancelled"
<1>1. run # "cancelled"
  BY DEF ExecInv, TermsInv, InFlight
<1>2. task[t] \in Row
  BY DEF ExecInv, StateInv, TypeOK
<1>3. task[t].cancel \in BOOLEAN
  BY <1>2, RowFields
<1> QED BY <1>1, <1>3 DEF Cancelling

LEMMA InFlightRow ==
  ASSUME ExecInv, NEW t \in Task, task[t].phase \notin {"ready", "done"}
  PROVE  task[t].status = "submitted"
BY DEF ExecInv, StateInv, LifeInv

LEMMA LeaseTerms ==
  ASSUME ExecInv, NEW w \in Worker, NEW t \in Task, NEW row \in Row, worker[w] = Idle, Lease(w, t, row),
         row.status = "submitted", row.cancel = task[t].cancel, row.reply = task[t].reply,
         row.phase = "preparing" => row.attempt \in {"none", "registered"},
         row.phase \in {"download", "publish"} => tool[t] # "text",
         task[t].status = "submitted" \/ run = "running",
         UNCHANGED <<tool, run, upstream>>
  PROVE  TermsInv'
<1>1. TypeOK /\ TaskTerms(t) /\ task[t] \in Row /\ TermsInv
  BY DEF ExecInv, StateInv, TypeOK, TermsInv
<1>2. /\ \A u \in Task \ {t} : task'[u] = task[u]
      /\ task'[t].status = row.status /\ task'[t].phase = row.phase /\ task'[t].cancel = row.cancel
      /\ task'[t].reply = row.reply /\ task'[t].lease = w
      /\ FirstSend(row) => task'[t].attempt = "sending"
      /\ ~FirstSend(row) => task'[t].attempt = row.attempt
                            \/ (row.attempt = "none" /\ task'[t].attempt = "registered")
      /\ \A v \in Worker \ {w} : worker'[v] = worker[v]
      /\ worker'[w].task = t /\ worker'[w].reply = row.reply
      /\ worker'[w].op = "cancel" => row.cancel
  BY <1>1, LeaseShape
<1>3. TaskTerms(t)'
  BY <1>1, <1>2 DEF TaskTerms, Means, FirstSend
<1>4. TermsMove(t)
  BY <1>2, <1>3 DEF TermsMove
<1>5. ASSUME NEW v \in Worker, Of(v)' = t PROVE WorkerTerms(v)'
  <2>1. CASE v = w
    BY <1>1, <1>2, <2>1 DEF WorkerTerms, Means, TaskTerms, Of, Calling
  <2>2. CASE v # w
    <3>1. ~Owned(v)'
      BY <1>2, <1>5, <2>2 DEF Owned, Of
    <3>2. WorkerTerms(v) /\ worker'[v] = worker[v] /\ Of(v) = t
      BY <1>1, <1>2, <1>5, <2>2 DEF TermsInv, Of
    <3>3. Calling(v, {"cancel"})' <=> Calling(v, {"cancel"})
      BY <3>2 DEF Calling
    <3> QED BY <1>2, <1>5, <3>1, <3>2, <3>3 DEF WorkerTerms
  <2> QED BY <2>1, <2>2
<1>6. \A v \in Worker : worker'[v] = worker[v] \/ worker'[v] = Idle \/ Of(v)' = t
  BY <1>2 DEF Of
<1> QED BY <1>4, <1>5, <1>6, TermsElsewhere

LEMMA SubmitFulfils ==
  ASSUME ExecInv, NEW w \in Worker, NEW t \in Task, Submit(w, t)
  PROVE  Fulfils
<1> DEFINE row == [task[t] EXCEPT !.status = "submitted", !.late = FALSE,
                                  !.phase = IF Prepares(t) THEN "preparing" ELSE "sending"]
<1>1. TypeOK /\ Counters /\ task[t] \in Row /\ LifeInv(t) /\ worker[w] = Idle
      /\ task[t].phase = "ready" /\ task[t].status = "queued" /\ run = "running"
      /\ MayReserve /\ Reserve(t) /\ \A u \in Task : BillInv(u)
  BY DEF ExecInv, StateInv, Counters, TypeOK, Submit, Ready
<1>2. Lease(w, t, row) /\ UNCHANGED <<tool, run, obsolete, upstream, begun, assets, drawn>>
  BY DEF Submit, SameWorld, SameUpstream, SameResults
<1>3. row \in Row
  BY <1>1 DEF Row
<1>4. /\ row.status = "submitted" /\ row.cancel = task[t].cancel /\ row.retried = task[t].retried
      /\ row.reply = task[t].reply /\ row.attempt = "none"
      /\ row.phase \notin {"download", "publish"}
  BY <1>1 DEF Row, LifeInv
<1> HIDE DEF row
<1>5. /\ \A u \in Task \ {t} : task'[u] = task[u]
      /\ task'[t].status = row.status /\ task'[t].cancel = row.cancel /\ task'[t].retried = row.retried
  BY <1>1, <1>2, <1>3, LeaseShape
<1>6. TermsInv'
  BY <1>1, <1>2, <1>3, <1>4, LeaseTerms
<1>7. Verdicts' = [Verdicts EXCEPT ![t] = "submitted"] /\ Asks' = Asks /\ Tries' = Tries
  BY <1>4, <1>5, MappedRow
<1>8. Charges' = Charges /\ Locals' = Locals /\ Texts' = Texts
  <2>1. ledger[t].charged = 0
    BY <1>1 DEF LifeInv
  <2> QED BY <1>1, <1>2, <2>1 DEF Charges, Locals, Texts, Reserve, TypeOK
<1>9. account'.available = account.available - Quote /\ account'.spent = account.spent
      /\ account.available \in Nat /\ account.available >= Quote
  BY <1>1 DEF Reserve, MayReserve, TypeOK
<1>10. Contract!InFlight = Held
  BY <1>1 DEF Contract!InFlight, Held, BillInv
<1>11. Quote * (Contract!Cardinality(Contract!InFlight) + 1) + account.spent <= Limit
  <2>1. Contract!Cardinality(Contract!InFlight) = Cardinality(Held)
    BY <1>10 DEF Contract!Cardinality, Cardinality
  <2>2. Cardinality(Held) \in Nat
    BY <1>1, HeldIsFinite
  <2>3. Quote * (Cardinality(Held) + 1) = Quote * Cardinality(Held) + Quote /\ Quote * Cardinality(Held) \in Nat
    BY <2>2, Times
  <2>4. account.reserved = Quote * Cardinality(Held) + account.spent /\ account.reserved + Quote <= Limit
    BY <1>1 DEF Counters, MayReserve
  <2>5. account.spent \in Nat /\ Limit \in Nat
    BY <1>1, ExecutionAssumption DEF TypeOK
  <2>6. Quote * (Cardinality(Held) + 1) + account.spent <= Limit
    BY <2>3, <2>4, <2>5, Constants
  <2> QED BY <2>1, <2>6
<1>12. Verdicts[t] = "queued"
  BY <1>1 DEF Verdicts
<1>13. Contract!Submit(t)
  BY <1>2, <1>7, <1>8, <1>9, <1>11, <1>12 DEF Contract!Submit, Verdicts, Asks, Tries, Charges, Locals, Texts
<1> QED BY <1>6, <1>13 DEF Fulfils, Contract!Next

LEMMA ResumeFulfils ==
  ASSUME ExecInv, NEW w \in Worker, NEW t \in Task, Resume(w, t)
  PROVE  Fulfils
<1> DEFINE row == [task[t] EXCEPT !.cancel = Cancelling(task[t])]
<1>1. TypeOK /\ task[t] \in Row /\ worker[w] = Idle /\ TaskTerms(t)
  BY DEF ExecInv, StateInv, TypeOK, Resume, TermsInv
<1>2. /\ Lease(w, t, row) /\ row.phase \notin {"ready", "done"}
      /\ UNCHANGED <<tool, run, obsolete, ledger, account, upstream, begun, assets, drawn>>
  BY DEF Resume, SameMoney, SameWorld, SameUpstream, SameResults
<1>3. row.phase = task[t].phase
  BY <1>1 DEF Row
<1>4. task[t].status = "submitted"
  BY <1>2, <1>3, InFlightRow
<1>5. row.cancel = task[t].cancel /\ row \in Row
  <2>1. Cancelling(task[t]) = task[t].cancel
    BY <1>4, OnlyAsked
  <2> QED BY <1>1, <2>1 DEF Row
<1>6. /\ row.status = task[t].status /\ row.reply = task[t].reply /\ row.attempt = task[t].attempt
      /\ row.retried = task[t].retried
  BY <1>1 DEF Row
<1> HIDE DEF row
<1>7. /\ \A u \in Task \ {t} : task'[u] = task[u]
      /\ task'[t].status = row.status /\ task'[t].cancel = row.cancel /\ task'[t].retried = row.retried
  BY <1>1, <1>2, <1>5, LeaseShape
<1>8. TermsInv'
  BY <1>1, <1>2, <1>3, <1>4, <1>5, <1>6, LeaseTerms DEF TaskTerms
<1>9. UNCHANGED Contract!vars
  BY <1>2, <1>5, <1>6, <1>7, QuietStep
<1> QED BY <1>8, <1>9 DEF Fulfils

LEMMA AnswerShape ==
  ASSUME TypeOK, NEW w \in Worker, NEW t \in Task, Of(w) = t, NEW reply, Answers(w, reply)
  PROVE  /\ \/ worker'[w] = Idle
            \/ worker'[w].at = "replied" /\ worker'[w].task = t /\ worker'[w].reply = reply
         /\ \A v \in Worker \ {w} : worker'[v] = worker[v]
<1> DEFINE claim == [Goes(w, "replied") EXCEPT !.reply = IF Owned(w) THEN reply ELSE @]
<1>1. worker[w] \in Claim /\ worker' = [worker EXCEPT ![w] = claim]
  BY DEF TypeOK, Answers
<1>2. \/ claim = Idle
      \/ claim.at = "replied" /\ claim.task = t /\ claim.reply = reply
  <2>1. CASE ~Owned(w)
    BY <2>1 DEF Goes, Idle
  <2>2. CASE Owned(w)
    <3> DEFINE half == [worker[w] EXCEPT !.at = "replied"]
    <3>1. claim = [half EXCEPT !.reply = reply]
      BY <2>2 DEF Goes
    <3> HIDE DEF claim
    <3>2. half \in Claim /\ half.at = "replied" /\ half.task = t
      BY <1>1 DEF Claim, Of
    <3> HIDE DEF half
    <3>3. claim.at = half.at /\ claim.task = half.task /\ claim.reply = reply
      BY <3>1, <3>2 DEF Claim
    <3> QED BY <3>2, <3>3
  <2> QED BY <2>1, <2>2
<1> HIDE DEF claim
<1> QED BY <1>1, <1>2 DEF TypeOK

\* What a worker is told is what the provider did, and nobody else's answer loses its meaning.
LEMMA AnswerTerms ==
  ASSUME ExecInv, NEW w \in Worker, NEW t \in Task, worker[w].at # "idle", Of(w) = t,
         NEW reply, Answers(w, reply), UNCHANGED <<tool, task, run>>,
         \A u \in Task \ {t} : upstream'[u] = upstream[u],
         upstream'[t] = upstream[t] \/ (upstream[t] = "running" /\ upstream'[t] = "cancelled" /\ task[t].cancel),
         Means(t, reply)'
  PROVE  TermsInv'
<1>1. TypeOK /\ TaskTerms(t) /\ WorkerTerms(w) /\ \A v \in Worker : WorkerTerms(v)
  BY DEF ExecInv, StateInv, TermsInv
<1>2. /\ \/ worker'[w] = Idle
         \/ worker'[w].at = "replied" /\ worker'[w].task = t /\ worker'[w].reply = reply
      /\ \A v \in Worker \ {w} : worker'[v] = worker[v]
  BY <1>1, AnswerShape
<1>3. TaskTerms(t)'
  BY <1>1 DEF TaskTerms, Means
<1>4. TermsMove(t)
  BY <1>3 DEF TermsMove
<1>5. ASSUME NEW v \in Worker, Of(v)' = t PROVE WorkerTerms(v)'
  <2>1. CASE v = w
    <3>1. CASE worker'[w] = Idle
      BY <2>1, <3>1, IdleFields DEF WorkerTerms
    <3>2. CASE worker'[w].at = "replied" /\ worker'[w].reply = reply
      <4>1. task[t].status # "queued"
        BY <1>1 DEF WorkerTerms
      <4>2. Means(Of(w), worker[w].reply)'
        BY <1>5, <2>1, <3>2
      <4>3. ~Calling(w, {"cancel"})' /\ ~Sends(w, t)'
        BY <3>2 DEF Calling, Sends
      <4> QED BY <1>5, <2>1, <4>1, <4>2, <4>3 DEF WorkerTerms
    <3> QED BY <1>2, <3>1, <3>2
  <2>2. CASE v # w
    <3>1. worker'[v] = worker[v] /\ Of(v) = t
      BY <1>2, <1>5, <2>2 DEF Of
    <3>2. (Owned(v)' <=> Owned(v)) /\ (Calling(v, {"cancel"})' <=> Calling(v, {"cancel"}))
          /\ (Sends(v, t)' <=> Sends(v, t))
      BY <3>1 DEF Owned, Calling, Sends, Of
    <3> QED BY <1>1, <1>5, <3>1, <3>2 DEF WorkerTerms, Means
  <2> QED BY <2>1, <2>2
<1>6. \A v \in Worker : worker'[v] = worker[v] \/ worker'[v] = Idle \/ Of(v)' = t
  BY <1>2 DEF Of
<1> QED BY <1>4, <1>5, <1>6, TermsElsewhere

LEMMA ReportMeans ==
  ASSUME NEW t, NEW u \in {"none", "running", "done", "failed", "cancelled"}, NEW op, NEW reply \in Reports(t, u, op)
  PROVE  /\ reply.status = "cancelled" => u = "cancelled"
         /\ Retries(reply) => u = "failed"
         /\ reply.status \in {"located", "delivered"} => tool[t] # "text"
<1>1. CASE u = "running"
  BY <1>1 DEF Reports, Says, Retries
<1>2. CASE u = "failed"
  BY <1>2 DEF Reports, Says, Retries
<1>3. CASE u = "cancelled"
  BY <1>3 DEF Reports, Says, Retries
<1>4. CASE u = "done"
  BY <1>4 DEF Reports, Succeeds, Retries
<1>5. CASE u = "none"
  BY <1>5 DEF Reports
<1> QED BY <1>1, <1>2, <1>3, <1>4, <1>5

\* An answer that leaves the provider's task as it is.
LEMMA AnswerFulfils ==
  ASSUME ExecInv, NEW w \in Worker, NEW t \in Task, worker[w].at # "idle", Of(w) = t,
         NEW reply, Answers(w, reply), Means(t, reply),
         UNCHANGED <<tool, task, ledger, account, run, upstream, assets, drawn>>
  PROVE  Fulfils
<1>1. Means(t, reply)'
  BY DEF Means
<1>2. TermsInv'
  BY <1>1, AnswerTerms
<1>3. UNCHANGED Contract!vars
  BY QuietStep
<1> QED BY <1>2, <1>3 DEF Fulfils

LEMMA SubmitFailsFulfils ==
  ASSUME ExecInv, NEW w \in Worker, SubmitFails(w)
  PROVE  Fulfils
<1>1. TypeOK /\ worker[w].at # "idle" /\ StateInv
  BY DEF SubmitFails, Calling, ExecInv, StateInv
<1>2. PICK t \in Task : Of(w) = t
  BY <1>1, Owner
<1>3. UNCHANGED <<tool, task, ledger, account, run, upstream, assets, drawn>>
  BY DEF SubmitFails, Same, SameMoney, SameWorld, SameResults, SameUpstream
<1>4. CASE /\ Calling(w, {"submit"})
           /\ \E reply \in Says({"retryable", "failed", "blocked_by_model"}) : Answers(w, reply)
  <2>1. PICK reply \in Says({"retryable", "failed", "blocked_by_model"}) : Answers(w, reply)
    BY <1>4
  <2>2. Sends(w, t)
    BY <1>2, <1>4 DEF Sends, Calling
  <2>3. tool[t] = "staged" => upstream[t] = "none"
    BY <1>1, <2>2 DEF StateInv, SendInv, Untold
  <2>4. reply.status \notin {"cancelled", "located", "delivered"}
    BY DEF Says
  <2>5. Means(t, reply)
    BY <2>3, <2>4 DEF Means
  <2> QED BY <1>1, <1>2, <1>3, <2>1, <2>5, AnswerFulfils
<1>5. CASE Answers(w, [status |-> "failed", cost |-> 0])
  <2>1. Means(t, [status |-> "failed", cost |-> 0])
    BY DEF Means, Retries
  <2> QED BY <1>1, <1>2, <1>3, <1>5, <2>1, AnswerFulfils
<1> QED BY <1>4, <1>5 DEF SubmitFails

LEMMA RepliesFulfils ==
  ASSUME ExecInv, NEW w \in Worker, SubmitReplies(w) \/ QueryReplies(w)
  PROVE  Fulfils
<1>1. TypeOK /\ worker[w].at # "idle"
  BY DEF SubmitReplies, QueryReplies, Calling, ExecInv, StateInv
<1>2. PICK t \in Task : Of(w) = t
  BY <1>1, Owner
<1>3. UNCHANGED <<tool, task, ledger, account, run, upstream, assets, drawn>>
  BY DEF SubmitReplies, QueryReplies, Same, SameMoney, SameWorld, SameResults, SameUpstream
<1>4. PICK op \in {"submit", "query"} : \E reply \in Reports(t, upstream[t], op) : Answers(w, reply)
  BY <1>2 DEF SubmitReplies, QueryReplies
<1>5. PICK reply \in Reports(t, upstream[t], op) : Answers(w, reply)
  BY <1>4
<1>6. upstream[t] \in {"none", "running", "done", "failed", "cancelled"}
  BY <1>1 DEF TypeOK
<1>7. Means(t, reply)
  BY <1>6, ReportMeans DEF Means
<1> QED BY <1>1, <1>2, <1>3, <1>5, <1>7, AnswerFulfils

LEMMA CancelRepliesFulfils ==
  ASSUME ExecInv, NEW w \in Worker, CancelReplies(w)
  PROVE  Fulfils
<1>1. TypeOK /\ worker[w].at # "idle" /\ WorkerTerms(w)
  BY DEF CancelReplies, Calling, ExecInv, StateInv, TermsInv
<1>2. PICK t \in Task : Of(w) = t
  BY <1>1, Owner
<1>3. UNCHANGED <<tool, task, ledger, account, run, assets, drawn>>
  BY DEF CancelReplies, Same, SameMoney, SameWorld, SameResults
<1>4. upstream[t] \in {"none", "running", "done", "failed", "cancelled"} /\ task[t].cancel
  BY <1>1, <1>2 DEF TypeOK, WorkerTerms, CancelReplies
<1>5. PICK u \in IF upstream[t] = "running" THEN {"running", "cancelled"} ELSE {upstream[t]} :
        /\ upstream' = [upstream EXCEPT ![t] = u]
        /\ \E reply \in Reports(t, u, "cancel") : Answers(w, reply)
  BY <1>2 DEF CancelReplies
<1>6. u \in {"none", "running", "done", "failed", "cancelled"}
      /\ (u = upstream[t] \/ (upstream[t] = "running" /\ u = "cancelled"))
  BY <1>4
<1>7. PICK reply \in Reports(t, u, "cancel") : Answers(w, reply)
  BY <1>5
<1>8. upstream'[t] = u /\ \A v \in Task \ {t} : upstream'[v] = upstream[v]
  BY <1>1, <1>5 DEF TypeOK
<1>9. Means(t, reply)'
  BY <1>3, <1>6, <1>7, <1>8, ReportMeans DEF Means, Retries
<1>10. TermsInv'
  BY <1>1, <1>2, <1>3, <1>4, <1>6, <1>7, <1>8, <1>9, AnswerTerms
<1>11. CASE u = upstream[t]
  <2>1. upstream' = upstream
    BY <1>1, <1>5, <1>11 DEF TypeOK
  <2>2. UNCHANGED Contract!vars
    BY <1>3, <2>1, QuietStep
  <2> QED BY <1>10, <2>2 DEF Fulfils
<1>12. CASE upstream[t] = "running" /\ u = "cancelled"
  <2>1. Asks[t]
    BY <1>4 DEF Asks
  <2>2. Verdicts' = Verdicts /\ Asks' = Asks /\ Tries' = Tries /\ Charges' = Charges /\ Locals' = Locals /\ Texts' = Texts
    BY <1>3, SameTasks
  <2>3. Contract!End(t)
    BY <1>3, <1>5, <1>12, <2>1, <2>2 DEF Contract!End, Verdicts, Asks, Tries, Charges, Locals, Texts
  <2> QED BY <1>10, <2>3 DEF Fulfils, Contract!Next
<1> QED BY <1>6, <1>11, <1>12

LEMMA ProviderAcceptsFulfils ==
  ASSUME ExecInv, NEW w \in Worker, ProviderAccepts(w)
  PROVE  Fulfils
<1>1. /\ TypeOK /\ StateInv /\ worker[w].at = "calling" /\ worker[w].at # "idle" /\ worker[w].op = "submit"
      /\ \A v \in Worker : WorkerTerms(v)
  BY DEF ProviderAccepts, Calling, ExecInv, StateInv, TermsInv
<1>2. PICK t \in Task : Of(w) = t
  BY <1>1, Owner
<1>3. UNCHANGED <<tool, task, ledger, account, run, assets, drawn>>
  BY DEF ProviderAccepts, Same, SameMoney, SameWorld, SameResults
<1>4. Sends(w, t) /\ worker[w] \in Claim /\ TaskTerms(t) /\ tool[t] \in Tools
  BY <1>1, <1>2 DEF Sends, TypeOK, ExecInv, TermsInv
<1>5. tool[t] = "staged" => Untold(t)
  BY <1>1, <1>4 DEF StateInv, SendInv
<1> DEFINE claim == [worker[w] EXCEPT !.at = "accepted"]
<1>6. claim.at = "accepted" /\ claim.task = t /\ claim.reply = worker[w].reply
  BY <1>2, <1>4 DEF Claim, Of
<1>7. worker'[w] = claim /\ \A v \in Worker \ {w} : worker'[v] = worker[v]
  BY <1>1 DEF ProviderAccepts, TypeOK
<1> HIDE DEF claim
<1>8. /\ upstream' = [upstream EXCEPT ![t] = IF tool[t] = "staged" THEN "running" ELSE "done"]
      /\ upstream'[t] = (IF tool[t] = "staged" THEN "running" ELSE "done")
      /\ \A u \in Task \ {t} : upstream'[u] = upstream[u]
  BY <1>1, <1>2 DEF ProviderAccepts, Idempotent, TypeOK
\* A reply that somebody has is of a local task, which is never cancelled.
<1>9. ASSUME NEW reply, Means(t, reply), tool[t] = "staged" => reply = NoReply
      PROVE  Means(t, reply)'
  <2>1. CASE tool[t] = "staged"
    BY <1>9, <2>1, NoReplyType DEF Means
  <2>2. CASE tool[t] # "staged"
    <3>1. reply.status # "cancelled"
      BY <1>4, <1>9, <2>2 DEF Means, TaskTerms
    <3> QED BY <1>3, <1>9, <2>2, <3>1 DEF Means
  <2> QED BY <1>4, <2>1, <2>2 DEF Tools
<1>10. TaskTerms(t)'
  <2>1. Means(t, task[t].reply)'
    BY <1>3, <1>4, <1>5, <1>9 DEF TaskTerms, Untold
  <2> QED BY <1>3, <1>4, <1>8, <2>1 DEF TaskTerms, Means
<1>11. TermsMove(t)
  BY <1>3, <1>8, <1>10 DEF TermsMove
<1>12. ASSUME NEW v \in Worker, Of(v)' = t PROVE WorkerTerms(v)'
  <2> SUFFICES ASSUME worker'[v].at # "idle" PROVE WorkerTerms(v)'
    BY DEF WorkerTerms
  <2>1. /\ Of(v) = t /\ worker'[v].reply = worker[v].reply /\ worker[v].at # "idle"
        /\ Owned(v)' => Owned(v)
        /\ Calling(v, {"cancel"})' => Calling(v, {"cancel"})
        /\ Sends(v, t)' => Sends(v, t)
    BY <1>1, <1>2, <1>3, <1>6, <1>7, <1>12 DEF Of, Owned, Calling, Sends
  <2>2. WorkerTerms(v)
    BY <1>1
  <2>3. ASSUME Owned(v)' PROVE Means(t, worker[v].reply)'
    <3>1. Means(t, worker[v].reply)
      BY <2>1, <2>2, <2>3 DEF WorkerTerms
    <3>2. tool[t] = "staged" => worker[v].reply = NoReply
      BY <1>5, <2>1, <2>3 DEF Untold
    <3>3. worker'[v].reply = worker[v].reply
      BY <2>1
    <3> QED BY <1>9, <3>1, <3>2, <3>3 DEF Means
  <2>4. Owned(v)' => Means(t, worker[v].reply)'
    BY <2>3
  <2> QED BY <1>3, <1>12, <2>1, <2>2, <2>4 DEF WorkerTerms
<1>13. TermsInv'
  <2>1. \A v \in Worker : worker'[v] = worker[v] \/ worker'[v] = Idle \/ Of(v)' = t
    BY <1>6, <1>7 DEF Of
  <2> QED BY <1>11, <1>12, <2>1, TermsElsewhere
<1>14. Verdicts' = Verdicts /\ Asks' = Asks /\ Tries' = Tries /\ Charges' = Charges /\ Locals' = Locals /\ Texts' = Texts
  BY <1>3, SameTasks
<1>15. CASE tool[t] = "staged"
  <2>1. Verdicts[t] = "submitted" /\ t \notin Locals /\ upstream[t] = "none"
    BY <1>1, <1>2, <1>4, <1>5, <1>15 DEF WorkerTerms, Verdicts, Locals, Texts, Untold
  <2>2. upstream' = [upstream EXCEPT ![t] = "running"]
    BY <1>8, <1>15
  <2>3. Contract!Generate(t)
    BY <1>3, <1>14, <2>1, <2>2 DEF Contract!Generate, Verdicts, Asks, Tries, Charges, Locals, Texts
  <2> QED BY <1>13, <2>3 DEF Fulfils, Contract!Next
<1>16. CASE tool[t] # "staged"
  <2>1. Verdicts[t] # "queued" /\ t \in Locals
    BY <1>1, <1>2, <1>16 DEF WorkerTerms, Verdicts, Locals, Texts
  <2>2. upstream' = [upstream EXCEPT ![t] = "done"]
    BY <1>8, <1>16
  <2>3. Contract!Compute(t)
    BY <1>3, <1>14, <2>1, <2>2 DEF Contract!Compute, Verdicts, Asks, Tries, Charges, Locals, Texts
  <2> QED BY <1>13, <2>3 DEF Fulfils, Contract!Next
<1> QED BY <1>4, <1>15, <1>16 DEF Tools

\* Only workers move on, and each to save what it has.
LEMMA PassFulfils ==
  ASSUME ExecInv, NEW t \in Task, WorkersPass(t),
         UNCHANGED <<tool, task, ledger, account, run, upstream, assets, drawn>>
  PROVE  Fulfils
<1>1. TypeOK /\ TaskTerms(t)
  BY DEF ExecInv, StateInv, TermsInv
<1> QED BY <1>1, RowFulfils DEF TaskTerms

LEMMA QueryMissesFulfils ==
  ASSUME ExecInv, NEW w \in Worker, QueryMisses(w)
  PROVE  Fulfils
<1>1. TypeOK /\ worker[w].at = "calling" /\ worker[w].at # "idle" /\ worker[w].op = "query" /\ worker[w] \in Claim
      /\ \A v \in Worker : WorkerTerms(v)
  BY DEF QueryMisses, Calling, ExecInv, StateInv, TermsInv, TypeOK
<1>2. PICK t \in Task : Of(w) = t
  BY <1>1, Owner
<1>3. UNCHANGED <<tool, task, ledger, account, run, upstream, assets, drawn>>
  BY DEF QueryMisses, Same, SameMoney, SameWorld, SameResults, SameUpstream
<1>4. CASE ~Idempotent(t)
  <2>1. worker' = [worker EXCEPT ![w] = Goes(w, "saving")]
    BY <1>2, <1>4 DEF QueryMisses
  <2> QED BY <1>1, <1>2, <1>3, <2>1, GoesPass, PassFulfils
<1>5. CASE Idempotent(t)
  <2> DEFINE claim == [worker[w] EXCEPT !.op = "submit"]
  <2>1. claim.at = "calling" /\ claim.op = "submit" /\ claim.task = t /\ claim.reply = worker[w].reply
    BY <1>1, <1>2 DEF Claim, Of
  <2>2. worker'[w] = claim /\ \A v \in Worker \ {w} : worker'[v] = worker[v]
    BY <1>1, <1>2, <1>5 DEF QueryMisses, TypeOK
  <2> HIDE DEF claim
  <2>3. TaskTerms(t)'
    BY <1>3 DEF ExecInv, TermsInv, TaskTerms, Means
  <2>4. TermsMove(t)
    BY <1>3, <2>3 DEF TermsMove
  <2>5. ASSUME NEW v \in Worker, Of(v)' = t PROVE WorkerTerms(v)'
    <3>1. /\ Of(v) = t /\ worker'[v].reply = worker[v].reply /\ worker'[v].at = worker[v].at
          /\ Owned(v)' <=> Owned(v)
          /\ Calling(v, {"cancel"})' => Calling(v, {"cancel"})
      BY <1>1, <1>2, <1>3, <2>1, <2>2, <2>5 DEF Of, Owned, Calling
    <3>2. WorkerTerms(v) /\ tool'[t] # "staged"
      BY <1>1, <1>3, <1>5 DEF Idempotent
    <3> QED BY <1>3, <2>5, <3>1, <3>2 DEF WorkerTerms, Means
  <2>6. \A v \in Worker : worker'[v] = worker[v] \/ worker'[v] = Idle \/ Of(v)' = t
    BY <2>1, <2>2 DEF Of
  <2>7. TermsInv'
    BY <2>4, <2>5, <2>6, TermsElsewhere
  <2>8. UNCHANGED Contract!vars
    BY <1>3, QuietStep
  <2> QED BY <2>7, <2>8 DEF Fulfils
<1> QED BY <1>4, <1>5

LEMMA CallFailsFulfils ==
  ASSUME ExecInv, NEW w \in Worker, CallFails(w)
  PROVE  Fulfils
<1>1. TypeOK /\ worker[w].at # "idle"
  BY DEF CallFails, ExecInv, StateInv
<1>2. UNCHANGED <<tool, task, ledger, account, run, upstream, assets, drawn>>
  BY DEF CallFails, Same, SameMoney, SameWorld, SameResults, SameUpstream
<1>3. worker' = [worker EXCEPT ![w] = Goes(w, "failed")]
  BY DEF CallFails
<1> QED BY <1>1, <1>2, <1>3, Owner, GoesPass, PassFulfils

LEMMA CallReturnsFulfils ==
  ASSUME ExecInv, NEW w \in Worker, CallReturns(w)
  PROVE  Fulfils
<1>1. TypeOK /\ worker[w].at # "idle"
  BY DEF CallReturns, Calling, ExecInv, StateInv
<1>2. PICK t \in Task : Of(w) = t
  BY <1>1, Owner
<1>3. worker' = [worker EXCEPT ![w] = Goes(w, "saving")]
      /\ UNCHANGED <<tool, ledger, account, run, upstream, assets, drawn>>
  BY DEF CallReturns, SameMoney, SameWorld, SameResults, SameUpstream
<1>4. WorkersPass(t) /\ TaskTerms(t)
  BY <1>1, <1>2, <1>3, GoesPass DEF ExecInv, TermsInv
<1> DEFINE new == [task[t] EXCEPT !.spooled = @ \/ (worker[w].op = "download" /\ Owned(w))]
<1>5. task' = [task EXCEPT ![t] = new] /\ task[t] \in Row
  BY <1>1, <1>2 DEF CallReturns, TypeOK
<1>6. /\ new.status = task[t].status /\ new.phase = task[t].phase /\ new.attempt = task[t].attempt
      /\ new.lease = task[t].lease /\ new.cancel = task[t].cancel /\ new.retried = task[t].retried
      /\ new.reply = task[t].reply
  BY <1>5 DEF Row
<1> HIDE DEF new
<1>7. task'[t] = new /\ \A u \in Task \ {t} : task'[u] = task[u]
  BY <1>1, <1>5 DEF TypeOK
<1> QED BY <1>3, <1>4, <1>6, <1>7, RowFulfils DEF TaskTerms

\* Workers give up, and the contract sees nothing.
LEMMA IdleFulfils ==
  ASSUME ExecInv, \A v \in Worker : worker'[v] = worker[v] \/ worker'[v] = Idle,
         UNCHANGED <<tool, task, ledger, account, run, upstream, assets, drawn>>
  PROVE  Fulfils
<1>1. ASSUME NEW v \in Worker PROVE WorkerTerms(v)'
  <2>1. CASE worker'[v] = Idle
    BY <2>1, IdleFields DEF WorkerTerms
  <2>2. CASE worker'[v] = worker[v]
    <3>1. WorkerTerms(v)
      BY DEF ExecInv, TermsInv
    <3>2. /\ Of(v)' = Of(v) /\ (Owned(v)' <=> Owned(v))
          /\ Calling(v, {"cancel"})' <=> Calling(v, {"cancel"})
          /\ Sends(v, Of(v))' <=> Sends(v, Of(v))
      BY <2>2 DEF Of, Owned, Calling, Sends
    <3> QED BY <2>2, <3>1, <3>2 DEF WorkerTerms, Means
  <2> QED BY <2>1, <2>2
<1>2. TermsInv'
  BY <1>1 DEF ExecInv, TermsInv, TaskTerms, Means, InFlight
<1>3. UNCHANGED Contract!vars
  BY SameTasks DEF Contract!vars, Verdicts, Asks, Tries, Charges, Locals, Texts
<1> QED BY <1>2, <1>3 DEF Fulfils

LEMMA NobodyNotices ==
  ASSUME ExecInv, (\E w \in Worker : Fenced(w) \/ Crash(w)) \/ Supersede
  PROVE  Fulfils
<1>1. TypeOK
  BY DEF ExecInv, StateInv
<1>2. UNCHANGED <<tool, task, ledger, account, run, upstream, assets, drawn>>
  BY DEF Fenced, Crash, Supersede, Same, SameMoney, SameWorld, SameResults, SameUpstream
<1>3. \A v \in Worker : worker'[v] = worker[v] \/ worker'[v] = Idle
  BY <1>1 DEF Fenced, Crash, Supersede, Leaves, TypeOK
<1> QED BY <1>2, <1>3, IdleFulfils

-----------------------------------------------------------------------------
(* The contract: what the owner saves.                                     *)

\* The owner lets the row go on, as it was for the user.
LEMMA BecomesFulfils ==
  ASSUME ExecInv, NEW w \in Worker, NEW t \in Task, Leaves(w),
         NEW row \in Row, Becomes(t, row),
         row.status = task[t].status, row.cancel = task[t].cancel, row.retried = task[t].retried,
         row.reply = task[t].reply,
         row.phase = "preparing" => task[t].phase = "preparing" /\ row.attempt = task[t].attempt,
         row.phase \in {"download", "publish"} => task[t].phase \in {"download", "publish"},
         UNCHANGED <<tool, run, assets, drawn>>
  PROVE  Fulfils
<1>1. TypeOK /\ TaskTerms(t)
  BY DEF ExecInv, StateInv, TermsInv
<1> DEFINE new == Released(row)
<1>2. /\ new.lease = None /\ new.status = row.status /\ new.phase = row.phase /\ new.cancel = row.cancel
      /\ new.attempt = row.attempt /\ new.reply = row.reply /\ new.retried = row.retried
  BY ReleasedFields
<1> HIDE DEF new
<1>3. task'[t] = new /\ \A u \in Task \ {t} : task'[u] = task[u]
  BY <1>1 DEF TypeOK, Becomes, new
<1>4. WorkersPass(t)
  BY <1>1, LeavesPass
<1> QED BY <1>1, <1>2, <1>3, <1>4, RowFulfils DEF TaskTerms, Becomes, SameMoney, SameUpstream

LEMMA FailingFulfils ==
  ASSUME ExecInv, NEW w \in Worker, NEW t \in Task, Leaves(w), Becomes(t, Failing(task[t])),
         UNCHANGED <<tool, run, assets, drawn>>
  PROVE  Fulfils
<1> DEFINE row == Failing(task[t])
<1>1. task[t] \in Row
  BY DEF ExecInv, StateInv, TypeOK
<1>2. /\ row \in Row /\ row.status = task[t].status /\ row.attempt = task[t].attempt /\ row.cancel = task[t].cancel
      /\ row.reply = task[t].reply /\ row.phase = task[t].phase /\ row.retried = task[t].retried
  BY <1>1, FailingFields
<1> HIDE DEF row
<1>3. Becomes(t, row)
  BY DEF row
<1> QED BY <1>2, <1>3, BecomesFulfils

\* An attempt is given up before it was sent, or when its generation is over.
LEMMA GivesUpFulfils ==
  ASSUME ExecInv, NEW w \in Worker, Owned(w), NEW t \in Task, Of(w) = t, Leaves(w),
         NEW row \in Row, row.cancel = task[t].cancel, GivesUp(t, row),
         task[t].phase = "preparing" \/ upstream[t] = "done",
         UNCHANGED <<tool, run, assets, drawn>>
  PROVE  Fulfils
<1>1. TypeOK /\ StateInv /\ TaskTerms(t) /\ task[t].phase # "done" /\ task[t].status = "submitted"
  BY Ownership DEF ExecInv, StateInv, TermsInv
<1>2. ~Untold(t) \/ Unbegun(t)
  BY <1>1 DEF Untold, Unbegun, TaskTerms
<1>3. tool[t] = "staged" => \A v \in Worker : ~Sends(v, t)
  BY <1>1, <1>2, NobodySends
<1> QED BY <1>1, <1>3, LeavesPass, FailFulfils DEF GivesUp, SameUpstream

LEMMA CheckpointFulfils ==
  ASSUME ExecInv, NEW w \in Worker, Checkpoint(w)
  PROVE  Fulfils
<1> DEFINE reply == worker[w].reply
<1>1. TypeOK /\ StateInv /\ Owned(w) /\ worker[w].at = "replied" /\ WorkerTerms(w)
  BY DEF Checkpoint, ExecInv, StateInv, TermsInv
<1>2. PICK t \in Task : Of(w) = t
  BY <1>1, Ownership
<1>3. task[t] \in Row /\ Means(t, reply)
  BY <1>1, <1>2 DEF TypeOK, WorkerTerms
<1>4. UNCHANGED <<tool, ledger, account, run, upstream, assets, drawn>>
  BY DEF Checkpoint, SameMoney, SameWorld, SameResults, SameUpstream
<1> DEFINE new == [task[t] EXCEPT !.reply = reply,
                                  !.known = @ \/ reply.status \in {"pending", "located", "output"},
                                  !.artifact = @ \/ reply.status = "delivered"]
<1>5. /\ new.status = task[t].status /\ new.phase = task[t].phase /\ new.attempt = task[t].attempt
      /\ new.lease = task[t].lease /\ new.cancel = task[t].cancel /\ new.retried = task[t].retried
      /\ new.reply = reply
  BY <1>3 DEF Row
<1>6. task' = [task EXCEPT ![t] = new]
  BY <1>1, <1>2, <1>3 DEF Checkpoint, TypeOK
<1> HIDE DEF new
<1>7. task'[t] = new /\ \A u \in Task \ {t} : task'[u] = task[u]
  BY <1>1, <1>6 DEF TypeOK
<1>8. WorkersPass(t)
  <2>1. worker' = [worker EXCEPT ![w] = Goes(w, "saving")]
    BY <1>1 DEF Checkpoint, Goes
  <2> QED BY <1>1, <1>2, <2>1, GoesPass
<1>9. TaskTerms(t)
  BY DEF ExecInv, TermsInv
<1> QED BY <1>3, <1>4, <1>5, <1>7, <1>8, RowFulfils

LEMMA SavePublishedFulfils ==
  ASSUME ExecInv, NEW w \in Worker, SavePublished(w)
  PROVE  Fulfils
<1>1. TypeOK /\ StateInv /\ Owned(w) /\ worker[w].phase = "publish" /\ Leaves(w)
  BY DEF SavePublished, Saves, ExecInv, StateInv
<1>2. PICK t \in Task : Of(w) = t
  BY <1>1, Ownership
<1>3. /\ task[t] \in Row /\ task[t].phase = "publish" /\ task[t].status = "submitted"
      /\ LifeInv(t) /\ task[t].cancel \in BOOLEAN
  BY <1>1, <1>2, Ownership, RowFields DEF StateInv
<1>4. assets[t] = 0 /\ ~drawn[t] /\ task[t].credits \in Costs /\ task[t].credits \in 0..Quote /\ upstream[t] = "done"
  BY <1>3, RowFields DEF LifeInv
<1> DEFINE cancelled == task[t].cancel
           status == IF cancelled THEN "cancelled" ELSE "succeeded"
<1>5. /\ Publish(t) /\ UNCHANGED <<tool, run, upstream, begun>>
  BY <1>2 DEF SavePublished, SameWorld, SameUpstream
<1>6. (Cancelling(task[t]) \/ task[t].status = "cancelled") <=> cancelled
  BY <1>3, OnlyAsked
<1>7. PICK placed \in BOOLEAN : /\ placed => ~cancelled
                                /\ drawn' = [drawn EXCEPT ![t] = @ \/ placed]
  BY <1>5, <1>6 DEF Publish, Keep
<1>8. Finish(t, task[t], status, task[t].credits) /\ assets' = [assets EXCEPT ![t] = 1]
  BY <1>1, <1>4, <1>5, <1>6 DEF Publish, Keep, TypeOK
<1>9. drawn' = [drawn EXCEPT ![t] = placed /\ ~Asks[t]]
  <2>1. (drawn[t] \/ placed) = (placed /\ ~Asks[t])
    BY <1>3, <1>4, <1>7 DEF Asks
  <2> QED BY <1>1, <1>7, <2>1 DEF TypeOK
<1>10. PICK price \in Costs : price = task[t].credits
  BY <1>4
<1>11. Settles(t, status, price) /\ Finish(t, task[t], status, price) /\ price <= Quote
  BY <1>3, <1>4, <1>8, <1>10, Constants DEF Settles, Final
<1>12. status = IF Asks[t] THEN "cancelled" ELSE "succeeded"
  BY DEF Asks
<1> HIDE DEF status, cancelled
<1>13. Contract!Settle(t, status, price)
  BY <1>1, <1>3, <1>5, <1>11, SettleStep
<1>14. Contract!Publish(t)
  <2>1. t \notin Texts
    BY <1>3 DEF Texts, ExecInv, TermsInv, TaskTerms
  <2>2. Contract!Shown(t)
    BY <1>8, <1>9 DEF Contract!Shown, Asks
  <2> QED BY <1>4, <1>11, <1>12, <1>13, <2>1, <2>2 DEF Contract!Publish, Asks, Texts
<1>15. tool[t] = "staged" => \A v \in Worker : ~Sends(v, t)
  BY <1>1, <1>4, NobodySends DEF Untold
<1>16. TermsInv'
  BY <1>1, <1>3, <1>5, <1>11, <1>15, LeavesPass, FinishTerms
<1> QED BY <1>14, <1>16 DEF Fulfils, Contract!Next

\* The phase moves on.
LEMMA PhaseFulfils ==
  ASSUME ExecInv, NEW w \in Worker, SavePrepared(w) \/ SaveDownloaded(w) \/ SendFailed(w)
  PROVE  Fulfils
<1>1. StateInv /\ Owned(w) /\ Leaves(w) /\ UNCHANGED <<tool, run, assets, drawn>>
  BY DEF SavePrepared, SaveDownloaded, SendFailed, Saves, Fails, SameWorld, SameResults, ExecInv
<1>2. PICK t \in Task : Of(w) = t
  BY <1>1, Ownership
<1>3. task[t] \in Row
  BY <1>1, <1>2, Ownership
<1>4. PICK phase \in {"sending", "publish", "unknown"}, artifact \in BOOLEAN :
        /\ Becomes(t, [task[t] EXCEPT !.phase = phase, !.artifact = artifact])
        /\ phase = "publish" => task[t].phase = "download"
  <2>1. [task[t] EXCEPT !.phase = "sending"] = [task[t] EXCEPT !.phase = "sending", !.artifact = task[t].artifact]
        /\ [task[t] EXCEPT !.phase = "unknown"] = [task[t] EXCEPT !.phase = "unknown", !.artifact = task[t].artifact]
        /\ task[t].artifact \in BOOLEAN
    BY <1>3 DEF Row
  <2>2. CASE SavePrepared(w)
    BY <1>2, <2>1, <2>2 DEF SavePrepared
  <2>3. CASE SaveDownloaded(w)
    <3>1. task[t].phase = "download"
      BY <1>1, <1>2, <2>3, Ownership DEF SaveDownloaded, Saves
    <3> QED BY <1>2, <2>3, <3>1 DEF SaveDownloaded
  <2>4. CASE SendFailed(w)
    BY <1>2, <2>1, <2>4 DEF SendFailed
  <2> QED BY <2>2, <2>3, <2>4
<1> DEFINE row == [task[t] EXCEPT !.phase = phase, !.artifact = artifact]
<1>5. row \in Row
  BY <1>3 DEF Row
<1>6. /\ row.status = task[t].status /\ row.cancel = task[t].cancel /\ row.retried = task[t].retried
      /\ row.reply = task[t].reply /\ row.phase # "preparing"
      /\ row.phase \in {"download", "publish"} => task[t].phase = "download"
  BY <1>3, <1>4 DEF Row
<1> HIDE DEF row
<1>7. Becomes(t, row)
  BY <1>4 DEF row
<1> QED BY <1>1, <1>5, <1>6, <1>7, BecomesFulfils

LEMMA SaveReplyFulfils ==
  ASSUME ExecInv, NEW w \in Worker, SaveReply(w)
  PROVE  Fulfils
<1>1. /\ TypeOK /\ StateInv /\ Owned(w) /\ Leaves(w) /\ worker[w].phase \in Asking /\ worker[w].reply # NoReply
      /\ UNCHANGED <<tool, run, obsolete>> /\ WorkerTerms(w)
  BY DEF SaveReply, Saves, SameWorld, ExecInv, StateInv, TermsInv
<1>2. PICK t \in Task : Of(w) = t
  BY <1>1, Ownership
<1>3. task[t] \in Row /\ task[t].phase \in Asking /\ worker[w].reply \in Replies /\ task[t].artifact \in BOOLEAN
  BY <1>1, <1>2, Ownership, ClaimFields, RowFields DEF Asking
<1>4. Consume(t, task[t], worker[w].reply, task[t].artifact)
  BY <1>2 DEF SaveReply
<1>5. /\ Pays(worker[w].reply) => upstream[t] = "done"
      /\ tool[t] = "staged" => ~Untold(t)
      /\ Means(t, worker[w].reply)
  BY <1>1, <1>2, Ownership DEF WorkerTerms
<1> QED BY <1>1, <1>3, <1>4, <1>5, LeavesPass, ConsumeFulfils

\* Nothing came back, or asking failed: one more failure, and the attempt is unknown.
LEMMA UnknownFulfils ==
  ASSUME ExecInv, NEW w \in Worker, SaveNothing(w) \/ AskFailed(w)
  PROVE  Fulfils
<1>1. StateInv /\ Owned(w) /\ Leaves(w) /\ UNCHANGED <<tool, run, assets, drawn>>
  BY DEF SaveNothing, AskFailed, Saves, Fails, SameWorld, SameResults, ExecInv
<1>2. PICK t \in Task : Of(w) = t
  BY <1>1, Ownership
<1>3. task[t] \in Row
  BY <1>1, <1>2, Ownership
<1> DEFINE failing == Failing(task[t])
<1>4. /\ failing \in Row /\ failing.status = task[t].status /\ failing.cancel = task[t].cancel
      /\ failing.retried = task[t].retried /\ failing.reply = task[t].reply
  BY <1>3, FailingFields
<1>5. \/ Becomes(t, failing)
      \/ Becomes(t, [failing EXCEPT !.phase = "unknown"])
      \/ Becomes(t, [failing EXCEPT !.phase = "unknown", !.late = TRUE])
  BY <1>2 DEF SaveNothing, AskFailed
<1>6. CASE Becomes(t, failing)
  BY <1>1, <1>6, FailingFulfils
<1> HIDE DEF failing
<1>7. \A late \in BOOLEAN : [failing EXCEPT !.phase = "unknown", !.late = late] \in Row
  BY <1>4 DEF Row
<1>8. [failing EXCEPT !.phase = "unknown"] = [failing EXCEPT !.phase = "unknown", !.late = failing.late]
      /\ failing.late \in BOOLEAN
  BY <1>4 DEF Row
<1>9. ASSUME NEW late \in BOOLEAN, Becomes(t, [failing EXCEPT !.phase = "unknown", !.late = late]) PROVE Fulfils
  <2> DEFINE row == [failing EXCEPT !.phase = "unknown", !.late = late]
  <2>1. row \in Row
    BY <1>7
  <2>2. /\ row.status = task[t].status /\ row.cancel = task[t].cancel /\ row.retried = task[t].retried
        /\ row.reply = task[t].reply /\ row.phase = "unknown"
    BY <1>4 DEF Row
  <2>3. Becomes(t, row)
    BY <1>9
  <2> HIDE DEF row
  <2> QED BY <1>1, <2>1, <2>2, <2>3, BecomesFulfils
<1> QED BY <1>5, <1>6, <1>8, <1>9

LEMMA PrepareFailedFulfils ==
  ASSUME ExecInv, NEW w \in Worker, PrepareFailed(w)
  PROVE  Fulfils
<1>1. StateInv /\ Owned(w) /\ Leaves(w) /\ worker[w].phase = "preparing" /\ UNCHANGED <<tool, run, assets, drawn>>
  BY DEF PrepareFailed, Fails, SameWorld, SameResults, ExecInv
<1>2. PICK t \in Task : Of(w) = t
  BY <1>1, Ownership
<1>3. task[t] \in Row /\ task[t].phase = "preparing"
  BY <1>1, <1>2, Ownership
<1>4. Becomes(t, Failing(task[t])) \/ GivesUp(t, Failing(task[t]))
  BY <1>2 DEF PrepareFailed
<1>5. Failing(task[t]) \in Row /\ Failing(task[t]).cancel = task[t].cancel
  BY <1>3, FailingFields
<1> QED BY <1>1, <1>2, <1>3, <1>4, <1>5, FailingFulfils, GivesUpFulfils

LEMMA ResultFailedFulfils ==
  ASSUME ExecInv, NEW w \in Worker, DownloadFailed(w) \/ PublishFailed(w)
  PROVE  Fulfils
<1>1. /\ StateInv /\ Owned(w) /\ Leaves(w) /\ worker[w].phase \in {"download", "publish"}
      /\ UNCHANGED <<tool, run, assets, drawn>>
  BY DEF DownloadFailed, PublishFailed, Fails, SameWorld, SameResults, ExecInv
<1>2. PICK t \in Task : Of(w) = t
  BY <1>1, Ownership
<1>3. task[t] \in Row /\ upstream[t] = "done" /\ task[t].phase \in {"download", "publish"}
  BY <1>1, <1>2, Ownership DEF StateInv, LifeInv
<1> DEFINE row == [task[t] EXCEPT !.phase = "download", !.artifact = FALSE]
<1>4. \/ Becomes(t, Failing(task[t])) \/ GivesUp(t, Failing(task[t])) \/ GivesUp(t, task[t])
      \/ Becomes(t, row)
  BY <1>2 DEF DownloadFailed, PublishFailed
<1>5. Failing(task[t]) \in Row /\ Failing(task[t]).cancel = task[t].cancel
  BY <1>3, FailingFields
<1>6. row \in Row
  BY <1>3 DEF Row
<1>7. /\ row.status = task[t].status /\ row.cancel = task[t].cancel /\ row.retried = task[t].retried
      /\ row.reply = task[t].reply /\ row.phase # "preparing"
  BY <1>3 DEF Row
<1> HIDE DEF row
<1>8. CASE Becomes(t, row)
  BY <1>1, <1>3, <1>6, <1>7, <1>8, BecomesFulfils
<1> QED BY <1>1, <1>2, <1>3, <1>4, <1>5, <1>8, FailingFulfils, GivesUpFulfils

LEMMA SaveBusyFulfils ==
  ASSUME ExecInv, NEW w \in Worker, SaveBusy(w)
  PROVE  Fulfils
<1>1. StateInv /\ Owned(w) /\ Leaves(w) /\ UNCHANGED <<tool, run, assets, drawn>>
  BY DEF SaveBusy, SameWorld, SameResults, ExecInv
<1>2. PICK t \in Task : Of(w) = t
  BY <1>1, Ownership
<1>3. task[t] \in Row
  BY <1>1, <1>2, Ownership
<1>4. Becomes(t, task[t])
  BY <1>2 DEF SaveBusy, Becomes
<1> QED BY <1>1, <1>3, <1>4, BecomesFulfils

-----------------------------------------------------------------------------
(* The contract: clock, provider, user and supervisor.                     *)

LEMMA ClockFulfils ==
  ASSUME ExecInv, NEW t \in Task, LeaseExpires(t) \/ Elapses(t) \/ \E w \in Worker : Heartbeat(w) /\ Of(w) = t
  PROVE  Fulfils
<1>1. /\ TypeOK /\ task[t] \in Row /\ TaskTerms(t)
      /\ UNCHANGED <<worker, tool, ledger, account, run, upstream, assets, drawn>>
  BY DEF ExecInv, StateInv, TermsInv, TypeOK, LeaseExpires, Elapses, Heartbeat, SameMoney, SameWorld, SameUpstream, SameResults
<1>2. \/ task' = [task EXCEPT ![t] = [task[t] EXCEPT !.expired = TRUE]]
      \/ task' = [task EXCEPT ![t] = [task[t] EXCEPT !.expired = FALSE]]
      \/ task' = [task EXCEPT ![t] = [task[t] EXCEPT !.late = TRUE]]
  BY <1>1 DEF LeaseExpires, Expires, Elapses, Heartbeat, TypeOK
<1>3. /\ task'[t].status = task[t].status /\ task'[t].phase = task[t].phase /\ task'[t].attempt = task[t].attempt
      /\ task'[t].lease = task[t].lease /\ task'[t].cancel = task[t].cancel /\ task'[t].retried = task[t].retried
      /\ task'[t].reply = task[t].reply
      /\ \A u \in Task \ {t} : task'[u] = task[u]
  BY <1>1, <1>2 DEF TypeOK, Row
<1> QED BY <1>1, <1>3, UnchangedPass, RowFulfils DEF TaskTerms

LEMMA ParkFulfils ==
  ASSUME ExecInv, NEW t \in Task, Park(t)
  PROVE  Fulfils
<1>1. /\ TypeOK /\ task[t] \in Row /\ task[t].phase \in {"poll", "unknown"} /\ TaskTerms(t)
      /\ UNCHANGED <<tool, ledger, account, run, worker, upstream, assets, drawn>>
  BY DEF ExecInv, StateInv, TermsInv, TypeOK, Park, Overdue, SameMoney, SameWorld, SameUpstream, SameResults
<1>2. Cancelling(task[t]) = task[t].cancel
  BY <1>1, InFlightRow, OnlyAsked
<1> DEFINE row == [task[t] EXCEPT !.phase = "unknown", !.cancel = task[t].cancel]
<1>3. task' = [task EXCEPT ![t] = row]
  BY <1>1, <1>2 DEF Park, TypeOK
<1>4. /\ row.status = task[t].status /\ row.retried = task[t].retried /\ row.cancel = task[t].cancel
      /\ row.reply = task[t].reply /\ row.phase = "unknown" /\ row.lease = task[t].lease
  BY <1>1 DEF Row
<1> HIDE DEF row
<1>5. task'[t] = row /\ \A u \in Task \ {t} : task'[u] = task[u]
  BY <1>1, <1>3 DEF TypeOK
<1> QED BY <1>1, <1>4, <1>5, UnchangedPass, RowFulfils DEF TaskTerms

LEMMA UpstreamEndsFulfils ==
  ASSUME ExecInv, NEW t \in Task, UpstreamEnds(t)
  PROVE  Fulfils
<1>1. /\ TypeOK /\ upstream[t] = "running" /\ TaskTerms(t)
      /\ UNCHANGED <<tool, task, ledger, account, run, worker, assets, drawn>>
  BY DEF ExecInv, StateInv, TermsInv, UpstreamEnds, SameMoney, SameWorld, SameResults
<1>2. PICK end \in {"done", "failed"} : upstream' = [upstream EXCEPT ![t] = end]
  BY DEF UpstreamEnds
<1>3. upstream'[t] = end /\ \A u \in Task \ {t} : upstream'[u] = upstream[u]
  BY <1>1, <1>2 DEF TypeOK
<1>4. TaskTerms(t)'
  BY <1>1, <1>3 DEF TaskTerms, Means
<1>5. TermsMove(t)
  BY <1>1, <1>3, <1>4 DEF TermsMove
<1>6. TermsInv'
  BY <1>1, <1>5, UnchangedPass, TermsPass
<1>7. Verdicts' = Verdicts /\ Asks' = Asks /\ Tries' = Tries /\ Charges' = Charges /\ Locals' = Locals /\ Texts' = Texts
  BY <1>1, SameTasks
<1>8. Contract!End(t)
  BY <1>1, <1>2, <1>7 DEF Contract!End, Verdicts, Asks, Tries, Charges, Locals, Texts
<1> QED BY <1>6, <1>8 DEF Fulfils, Contract!Next

LEMMA CallbackFulfils ==
  ASSUME ExecInv, NEW t \in Task, Callback(t)
  PROVE  Fulfils
<1>1. TypeOK /\ task[t].phase \in Asking /\ upstream[t] \in {"none", "running", "done", "failed", "cancelled"}
      /\ UNCHANGED <<tool, run, obsolete, worker>>
  BY DEF ExecInv, StateInv, TypeOK, Callback, SameWorld
<1>2. PICK reply \in Reports(t, upstream[t], "callback") : Consume(t, task[t], reply, FALSE)
  BY DEF Callback
<1>3. reply \in Replies /\ upstream[t] # "none" /\ (Pays(reply) => upstream[t] = "done")
  BY <1>1, ReportFields
<1>4. ~Untold(t)
  BY <1>3 DEF Untold
<1>5. Means(t, reply)
  BY <1>1, ReportMeans DEF Means
<1> QED BY <1>1, <1>2, <1>3, <1>4, <1>5, UnchangedPass, ConsumeFulfils

\* A verdict for what was never submitted moves no credits.
LEMMA RefuseFulfils ==
  ASSUME ExecInv, NEW t \in Task, task[t].phase = "ready", task[t].status = "queued",
         NEW row \in Row, row.cancel = task[t].cancel \/ row.cancel = TRUE,
         NEW status \in {"failed", "cancelled"}, Finish(t, row, status, 0),
         UNCHANGED <<tool, run, worker, upstream, assets, drawn>>
  PROVE  Fulfils
<1>1. TypeOK /\ StateInv /\ LifeInv(t) /\ BillInv(t) /\ status \in Final
  BY DEF ExecInv, StateInv, Final
<1>2. UNCHANGED <<ledger, account>>
  <2>1. ledger[t].state # "reserved"
    BY <1>1 DEF BillInv
  <2> QED BY <2>1 DEF Finish, Settle, SettleAs, SameMoney
<1>3. tool[t] = "staged" => \A v \in Worker : ~Sends(v, t)
  BY <1>1, NobodySends DEF LifeInv, Unbegun
<1>4. Settles(t, status, 0)
  BY <1>1, Constants DEF Settles
<1>5. WorkersPass(t)
  BY <1>1, UnchangedPass
<1>6. task[t].cancel => row.cancel
  OBVIOUS
<1>7. TermsInv'
  BY <1>3, <1>4, <1>5, <1>6, FinishTerms
<1>8. /\ \A u \in Task \ {t} : task'[u] = task[u]
      /\ task'[t].status = status /\ task'[t].cancel = row.cancel /\ task'[t].retried = 0
  BY <1>1, FinishedRow
<1>9. task[t].retried = 0
  BY DEF ExecInv, TermsInv, TaskTerms
<1>10. /\ Verdicts' = [Verdicts EXCEPT ![t] = status] /\ Tries' = Tries
       /\ Asks' \in {Asks, [Asks EXCEPT ![t] = TRUE]}
  BY <1>8, <1>9, MappedRow
<1>11. Charges' = Charges /\ Locals' = Locals /\ Texts' = Texts /\ Verdicts[t] = "queued"
  BY <1>2 DEF Charges, Locals, Texts, Verdicts
<1>12. Contract!Refuse(t)
  BY <1>2, <1>10, <1>11 DEF Contract!Refuse, Verdicts, Asks, Tries, Charges, Locals, Texts
<1> QED BY <1>7, <1>12 DEF Fulfils, Contract!Next

LEMMA RefuseReadyFulfils ==
  ASSUME ExecInv, NEW t \in Task, RefuseReady(t)
  PROVE  Fulfils
<1>1. task[t] \in Row /\ task[t].phase = "ready" /\ task[t].status = "queued"
      /\ UNCHANGED <<tool, run, worker, upstream, assets, drawn>>
  BY DEF ExecInv, StateInv, TypeOK, RefuseReady, Ready, SameWorld, SameUpstream, SameResults
<1>2. PICK status \in {"failed", "cancelled"} : Finish(t, task[t], status, 0)
  BY DEF RefuseReady
<1> QED BY <1>1, <1>2, RefuseFulfils

LEMMA CancelUnsentFulfils ==
  ASSUME ExecInv, NEW t \in Task, CancelUnsent(t)
  PROVE  Fulfils
<1> DEFINE row == [task[t] EXCEPT !.cancel = TRUE]
<1>1. /\ TypeOK /\ StateInv /\ task[t] \in Row /\ task[t].phase \in {"preparing", "sending"} /\ Unbegun(t)
      /\ Cancelling(task[t]) /\ Finish(t, row, "cancelled", 0)
      /\ UNCHANGED <<tool, run, worker, upstream, assets, drawn>>
  BY DEF ExecInv, StateInv, TypeOK, CancelUnsent, Unsent, Unbegun, SameWorld, SameUpstream, SameResults
<1>2. task[t].status = "submitted"
  BY <1>1, InFlightRow
<1>3. task[t].cancel = TRUE
  BY <1>1, <1>2, OnlyAsked, RowFields
<1>4. row \in Row /\ row.cancel = task[t].cancel
  BY <1>1, <1>3 DEF Row
<1>5. tool[t] = "staged" => upstream[t] = "none" /\ \A v \in Worker : ~Sends(v, t)
  BY <1>1 DEF StateInv, SendInv, Untold
<1> HIDE DEF row
<1> QED BY <1>1, <1>2, <1>3, <1>4, <1>5, UnchangedPass, CancelFulfils

LEMMA UserCancelFulfils ==
  ASSUME ExecInv, NEW t \in Task, Cancel(t)
  PROVE  Fulfils
<1> DEFINE row == [task[t] EXCEPT !.cancel = TRUE]
<1>1. TypeOK /\ StateInv /\ task[t] \in Row /\ BillInv(t) /\ TaskTerms(t)
      /\ UNCHANGED <<tool, ledger, account, run, worker, upstream, assets, drawn>>
  BY DEF ExecInv, StateInv, TermsInv, TypeOK, Cancel, SameMoney, SameWorld, SameUpstream, SameResults
<1>2. row \in Row
  BY <1>1 DEF Row
<1>3. /\ row.status = task[t].status /\ row.attempt = task[t].attempt /\ row.retried = task[t].retried
      /\ row.reply = task[t].reply /\ row.phase = task[t].phase /\ row.lease = task[t].lease
      /\ row.cancel = TRUE
  BY <1>1 DEF Row
<1>4. CASE /\ task[t].phase = "ready" /\ task[t].status = "queued"
           /\ task' = [task EXCEPT ![t] = [Finished(@, "cancelled") EXCEPT !.cancel = TRUE]]
  <2>1. [Finished(task[t], "cancelled") EXCEPT !.cancel = TRUE] = Finished(row, "cancelled")
    BY <1>1, <1>3 DEF Finished, Enqueued
  <2>2. ledger[t].state # "reserved"
    BY <1>1, <1>4 DEF BillInv
  <2>3. Finish(t, row, "cancelled", 0)
    BY <1>1, <1>4, <2>1, <2>2 DEF Finish, Settle, SettleAs, SameMoney, TypeOK
  <2> HIDE DEF row
  <2> QED BY <1>1, <1>2, <1>3, <1>4, <2>3, RefuseFulfils
<1>5. CASE /\ task[t].phase \notin {"ready", "done"} /\ ~task[t].cancel
           /\ task' = [task EXCEPT ![t].cancel = TRUE]
  <2>1. task' = [task EXCEPT ![t] = row]
    BY <1>5
  <2> HIDE DEF row
  <2>2. task'[t] = row /\ \A u \in Task \ {t} : task'[u] = task[u]
    BY <1>1, <2>1 DEF TypeOK
  <2>3. task[t].status = "submitted"
    BY <1>5, InFlightRow
  <2>4. Contract!Ask(t)
    BY <1>1, <1>3, <2>2, <2>3, AskStep
  <2>5. TaskTerms(t)'
    BY <1>1, <1>3, <2>2 DEF TaskTerms, Means
  <2>6. TermsMove(t)
    BY <1>1, <1>3, <2>2, <2>5 DEF TermsMove
  <2>7. TermsInv'
    BY <1>1, <1>3, <2>2, <2>6, UnchangedPass, TermsPass
  <2> QED BY <2>4, <2>7 DEF Fulfils, Contract!Next
<1> QED BY <1>4, <1>5 DEF Cancel

LEMMA GrantFulfils ==
  ASSUME ExecInv, Grant
  PROVE  Fulfils
<1>1. TypeOK /\ UNCHANGED <<tool, task, ledger, run, worker, upstream, assets, drawn>>
  BY DEF ExecInv, StateInv, Grant, SameWorld, SameUpstream, SameResults
<1>2. account' = [account EXCEPT !.available = @ + Quote] /\ account \in [available : Nat, reserved : Nat, spent : Nat]
  BY <1>1 DEF Grant, TypeOK
<1>3. account'.available > account.available /\ account'.spent = account.spent
  BY <1>2, Constants
<1>4. TermsInv'
  BY <1>1 DEF ExecInv, TermsInv, TaskTerms, WorkerTerms, Means, InFlight, Owned, Calling, Sends, Of
<1>5. Verdicts' = Verdicts /\ Asks' = Asks /\ Tries' = Tries /\ Charges' = Charges /\ Locals' = Locals /\ Texts' = Texts
  BY <1>1, SameTasks
<1>6. Contract!TopUp
  BY <1>1, <1>3, <1>5 DEF Contract!TopUp, Verdicts, Asks, Tries, Charges, Locals, Texts
<1> QED BY <1>4, <1>6 DEF Fulfils, Contract!Next

LEMMA StopFulfils ==
  ASSUME ExecInv, Stop
  PROVE  Fulfils
<1>1. /\ TypeOK /\ UNCHANGED <<tool, ledger, account, worker, upstream, assets, drawn>>
      /\ run' = IF InFlight = {} THEN "cancelled" ELSE "paused"
  BY DEF ExecInv, StateInv, Stop, SameMoney, SameUpstream, SameResults
<1> DEFINE new(t) == CASE task[t].status = "submitted" -> [task[t] EXCEPT !.cancel = TRUE]
                       [] task[t].status = "queued" -> [task[t] EXCEPT !.status = "cancelled"]
                       [] OTHER -> task[t]
<1>2. \A t \in Task : task'[t] = new(t)
  BY DEF Stop
<1>3. ASSUME NEW t \in Task
      PROVE  /\ new(t).phase = task[t].phase /\ new(t).attempt = task[t].attempt /\ new(t).reply = task[t].reply
             /\ new(t).lease = task[t].lease /\ new(t).retried = task[t].retried
             /\ new(t).status = IF task[t].status = "queued" THEN "cancelled" ELSE task[t].status
             /\ new(t).cancel = (task[t].cancel \/ task[t].status = "submitted")
  <2>1. task[t] \in Row /\ task[t].cancel \in BOOLEAN
    BY <1>1, RowFields DEF TypeOK
  <2>2. CASE task[t].status = "submitted"
    <3>1. new(t) = [task[t] EXCEPT !.cancel = TRUE]
      BY <2>2
    <3> HIDE DEF new
    <3> QED BY <2>1, <2>2, <3>1 DEF Row
  <2>3. CASE task[t].status = "queued"
    <3>1. new(t) = [task[t] EXCEPT !.status = "cancelled"]
      BY <2>3
    <3> HIDE DEF new
    <3> QED BY <2>1, <2>3, <3>1 DEF Row
  <2>4. CASE task[t].status \notin {"submitted", "queued"}
    BY <2>1, <2>4
  <2> QED BY <2>2, <2>3, <2>4
<1> HIDE DEF new
<1>4. ASSUME NEW t \in Task
      PROVE  /\ task'[t].phase = task[t].phase /\ task'[t].attempt = task[t].attempt /\ task'[t].reply = task[t].reply
             /\ task'[t].lease = task[t].lease /\ task'[t].retried = task[t].retried
             /\ task'[t].status = IF task[t].status = "queued" THEN "cancelled" ELSE task[t].status
             /\ task'[t].cancel = (task[t].cancel \/ task[t].status = "submitted")
  BY <1>2, <1>3
<1>5. ASSUME NEW t \in Task PROVE TaskTerms(t)'
  <2>1. TaskTerms(t)
    BY DEF ExecInv, TermsInv
  <2> QED BY <1>1, <1>4, <2>1 DEF TaskTerms, Means
<1>6. ASSUME NEW v \in Worker PROVE WorkerTerms(v)'
  <2> SUFFICES ASSUME worker'[v].at # "idle" PROVE WorkerTerms(v)'
    BY DEF WorkerTerms
  <2>1. WorkerTerms(v) /\ worker'[v] = worker[v] /\ Of(v)' = Of(v) /\ Of(v) \in Task
    BY <1>1, Owner DEF ExecInv, TermsInv, Of
  <2>2. /\ Owned(v)' => Owned(v)
        /\ Calling(v, {"cancel"})' <=> Calling(v, {"cancel"})
        /\ Sends(v, Of(v))' <=> Sends(v, Of(v))
    BY <1>4, <2>1 DEF Of, Owned, Calling, Sends
  <2> QED BY <1>1, <1>4, <2>1, <2>2 DEF WorkerTerms, Means
<1>7. run' = "cancelled" => InFlight' = {}
  <2>1. InFlight' = InFlight
    BY <1>4 DEF InFlight
  <2> QED BY <1>1, <2>1
<1>8. TermsInv'
  BY <1>5, <1>6, <1>7 DEF TermsInv
<1>9. Verdicts' = [t \in Task |-> IF Verdicts[t] = "queued" THEN "cancelled" ELSE Verdicts[t]]
  BY <1>4 DEF Verdicts
<1>10. Asks' = [t \in Task |-> Asks[t] \/ Verdicts[t] = "submitted"]
  BY <1>4 DEF Verdicts, Asks
<1>11. Tries' = Tries /\ Charges' = Charges /\ Locals' = Locals /\ Texts' = Texts
  BY <1>1, <1>4 DEF Tries, Charges, Locals, Texts
<1>12. Contract!StopAll
  BY <1>1, <1>9, <1>10, <1>11 DEF Contract!StopAll, Verdicts, Asks, Tries, Charges, Locals, Texts
<1> QED BY <1>8, <1>12 DEF Fulfils, Contract!Next

LEMMA StoppedFulfils ==
  ASSUME ExecInv, Stopped
  PROVE  Fulfils
<1>1. UNCHANGED <<tool, task, ledger, account, worker, upstream, assets, drawn>> /\ InFlight = {}
  BY DEF Stopped, SameMoney, SameUpstream, SameResults
<1>2. TermsInv'
  BY <1>1 DEF ExecInv, TermsInv, TaskTerms, WorkerTerms, Means, InFlight, Owned, Calling, Sends, Of
<1>3. UNCHANGED Contract!vars
  BY <1>1, SameTasks DEF Contract!vars, Verdicts, Asks, Tries, Charges, Locals, Texts
<1> QED BY <1>2, <1>3 DEF Fulfils

-----------------------------------------------------------------------------
(* The specification.                                                      *)

LEMMA InitFulfils == Init => TermsInv /\ Contract!Init
<1> SUFFICES ASSUME Init PROVE TermsInv /\ Contract!Init
  OBVIOUS
<1>1. \A t \in Task : task[t] = Enqueued /\ upstream[t] = "none" /\ ledger[t].charged = 0
  BY DEF Init
<1>2. \A t \in Task : TaskTerms(t)
  BY <1>1, EnqueuedFields, NoReplyType DEF TaskTerms, Means
<1>3. \A w \in Worker : WorkerTerms(w)
  BY IdleFields DEF Init, WorkerTerms
<1>4. TermsInv
  BY <1>2, <1>3 DEF TermsInv, Init
<1>5. /\ Verdicts = [t \in Task |-> "queued"] /\ Asks = [t \in Task |-> FALSE]
      /\ Tries = [t \in Task |-> 0] /\ Charges = [t \in Task |-> 0] /\ Locals \subseteq Task
      /\ Texts \subseteq Locals
  <2>1. \A t \in Task : task[t].status = "queued" /\ task[t].cancel = FALSE /\ task[t].retried = 0
    BY <1>1 DEF Enqueued
  <2>2. Verdicts = [t \in Task |-> "queued"] /\ Asks = [t \in Task |-> FALSE] /\ Tries = [t \in Task |-> 0]
    BY <2>1 DEF Verdicts, Asks, Tries
  <2>3. Charges = [t \in Task |-> 0] /\ Locals \subseteq Task /\ Texts \subseteq Locals
    BY <1>1 DEF Charges, Locals, Texts
  <2> QED BY <2>2, <2>3
<1>6. upstream = [t \in Task |-> "none"] /\ assets = [t \in Task |-> 0] /\ drawn = [t \in Task |-> FALSE]
      /\ account.available = 0 /\ account.spent = 0
  BY DEF Init
<1>7. Contract!Init
  BY <1>5, <1>6 DEF Contract!Init, Verdicts, Asks, Tries, Charges, Locals, Texts
<1> QED BY <1>4, <1>7

LEMMA WorkerFulfils ==
  ASSUME ExecInv, NEW w \in Worker, WorkerStep(w)
  PROVE  Fulfils
<1>1. CASE \E t \in Task : Submit(w, t) \/ Resume(w, t)
  BY <1>1, SubmitFulfils, ResumeFulfils
<1>2. CASE ProviderAccepts(w) \/ SubmitFails(w) \/ SubmitReplies(w)
  BY <1>2, ProviderAcceptsFulfils, SubmitFailsFulfils, RepliesFulfils
<1>3. CASE QueryReplies(w) \/ QueryMisses(w) \/ CancelReplies(w)
  BY <1>3, RepliesFulfils, QueryMissesFulfils, CancelRepliesFulfils
<1>4. CASE CallReturns(w) \/ CallFails(w) \/ Fenced(w) \/ Checkpoint(w)
  BY <1>4, CallReturnsFulfils, CallFailsFulfils, NobodyNotices, CheckpointFulfils
<1>5. CASE SavePublished(w) \/ SavePrepared(w) \/ SaveDownloaded(w) \/ SaveReply(w) \/ SaveNothing(w)
  BY <1>5, SavePublishedFulfils, PhaseFulfils, SaveReplyFulfils, UnknownFulfils
<1>6. CASE PrepareFailed(w) \/ SendFailed(w) \/ AskFailed(w) \/ DownloadFailed(w) \/ PublishFailed(w)
  BY <1>6, PrepareFailedFulfils, PhaseFulfils, UnknownFulfils, ResultFailedFulfils
<1>7. CASE Crash(w) \/ SaveBusy(w)
  BY <1>7, NobodyNotices, SaveBusyFulfils
<1>8. CASE Heartbeat(w)
  <2>1. Of(w) \in Task
    BY <1>8, Ownership DEF Heartbeat, ExecInv
  <2> QED BY <1>8, <2>1, ClockFulfils
<1> QED BY <1>1, <1>2, <1>3, <1>4, <1>5, <1>6, <1>7, <1>8 DEF WorkerStep, Work

LEMMA NextFulfils == ExecInv /\ [Next]_vars => ExecInv' /\ [Contract!Next]_(Contract!vars)
<1> SUFFICES ASSUME ExecInv, [Next]_vars PROVE Fulfils
  BY NextKeeps DEF ExecInv, Fulfils
<1>1. CASE \E w \in Worker : WorkerStep(w)
  BY <1>1, WorkerFulfils
<1>2. CASE \E t \in Task : TaskStep(t)
  BY <1>2, RefuseReadyFulfils, CancelUnsentFulfils, ParkFulfils, ClockFulfils, UpstreamEndsFulfils,
     CallbackFulfils, UserCancelFulfils DEF TaskStep
<1>3. CASE Grant \/ Stop \/ Stopped \/ Supersede
  BY <1>3, GrantFulfils, StopFulfils, StoppedFulfils, NobodyNotices
<1>4. CASE UNCHANGED vars
  BY <1>4, IdleFulfils DEF vars
<1> QED BY <1>1, <1>2, <1>3, <1>4 DEF Next

\* The invariant that the others follow from: where a row is tells its money and what the
\* provider was told, and what a worker remembers still holds or is worth nothing (execute).
THEOREM ExecInvariance == Spec => []ExecInv
<1>1. Init => ExecInv
  BY InitHolds, InitFulfils DEF ExecInv
<1>2. ExecInv /\ [Next]_vars => ExecInv'
  BY NextFulfils
<1> QED BY <1>1, <1>2, PTL DEF Spec

\* An attempt is generated at most once, whoever dies, stalls or loses its lease between the
\* durable mark and the recorded reply (execute, consume).
THEOREM OneGeneration == Spec => []OneGenerationPerAttempt
<1>1. ExecInv => OneGenerationPerAttempt
  BY DEF ExecInv, StateInv, OneGenerationPerAttempt
<1> QED BY ExecInvariance, <1>1, PTL

\* Ledger, account and run agree with the verdicts of all tasks, in any number
\* (reserve_core, settle_core, finish).
THEOREM Bill == Spec => []BillMatchesVerdict
<1>1. ExecInv => BillMatchesVerdict
  <2> SUFFICES ASSUME StateInv PROVE BillMatchesVerdict
    BY DEF ExecInv
  <2>1. \A t \in Task : BillInv(t)
    BY DEF StateInv
  <2>2. Held = InFlight
    BY <2>1 DEF Held, InFlight, BillInv
  <2>3. account.reserved = Quote * Cardinality(Held) + account.spent
    BY DEF StateInv
  <2> QED BY <2>1, <2>2, <2>3 DEF BillMatchesVerdict, BillInv
<1> QED BY ExecInvariance, <1>1, PTL

\* One asset at most and none in flight; what is drawn was not asked to cancel, and
\* succeeded or is a text that failed after it was drawn (publish, consume).
THEOREM Published == Spec => []PublishedAsPromised
<1>1. ExecInv => PublishedAsPromised
  BY DEF ExecInv, StateInv, LifeInv, BillInv, PublishedAsPromised
<1> QED BY ExecInvariance, <1>1, PTL

\* A cancellation that is recorded before a request leaves keeps it from leaving
\* (execute, consume).
THEOREM CancelledStays == Spec => CancelledIsNotSent
<1>1. ExecInv /\ [Next]_vars => [NotSent]_vars
  BY NextKeeps DEF ExecInv
<1>2. [NotSent]_vars => [\A t \in Task : task[t].cancel /\ task'[t].attempt = "sending"
                                          => task[t].attempt = "sending"]_vars
  BY DEF NotSent
<1> QED BY ExecInvariance, <1>1, <1>2, PTL DEF Spec, CancelledIsNotSent

\* Leases, calls, callbacks, deadlines and cancellations keep the terms of a task, whoever
\* dies, stalls, is fenced or comes too late: one generation at a time and a new one only
\* after a failed one, one verdict with its charge, no cancellation of what may still run,
\* a text kept whatever its verdict, nothing shown that was asked to cancel (execute,
\* consume, finish, publish, cancel).
THEOREM TermsKept == Spec => ImplementsTaskContract
<1>1. Init => Contract!Init
  BY InitFulfils
<1>2. ExecInv /\ [Next]_vars => [Contract!Next]_(Contract!vars)
  BY NextFulfils
<1> QED BY ExecInvariance, <1>1, <1>2, PTL DEF Spec, ImplementsTaskContract, Contract!Spec

=============================================================================
