----------------------- MODULE CoreExecutionInvariant -----------------------
(***************************************************************************)
(* The inductive invariant of CoreExecution: why its safety properties     *)
(* hold.                                                                   *)
(***************************************************************************)
EXTENDS CoreExecution

Pays(reply) == reply.status \in Outcomes
Retries(reply) == reply.status = "retryable"

\* The phase of a row tells its status, its money and what may be on the canvas.
LifeInv(t) ==
  LET row == task[t] IN
  /\ row.phase = "ready" => row.status \in {"queued", "cancelled"} /\ ~row.cancel /\ row.attempt = "none"
                            /\ row.lease = None
  /\ row.phase = "done" => row.status \in Final /\ row.lease = None
  /\ row.phase \notin {"ready", "done"} => row.status = "submitted"
  /\ row.phase # "done" => assets[t] = 0 /\ ~drawn[t] /\ ledger[t].charged = 0
  /\ row.phase \in {"download", "publish"} => row.credits \in Costs /\ upstream[t] = "done"
  /\ Pays(row.reply) => upstream[t] = "done"

\* The bill of one task.
BillInv(t) ==
  LET row == task[t] IN
  /\ ledger[t].state = "reserved" <=> row.status = "submitted"
  /\ row.status \in {"failed", "blocked_by_model"} => ledger[t].charged = 0
  /\ ledger[t].charged > 0 => row.status \in {"succeeded", "cancelled"} /\ upstream[t] = "done"
  /\ row.status = "succeeded" => ledger[t].charged \in Costs
  /\ assets[t] <= 1
  /\ drawn[t] => assets[t] = 1 /\ MayBeDrawn(t)

\* A worker that still has its lease is where it thinks it is; what it was told still holds.
ClaimInv(w) ==
  Owned(w) =>
    /\ \/ worker[w].phase = task[Of(w)].phase
       \/ {worker[w].phase, task[Of(w)].phase} \subseteq {"poll", "unknown"}
    /\ worker[w].phase \notin {"ready", "done"}
    /\ Pays(worker[w].reply) => upstream[Of(w)] = "done"

\* A request for t that has not reached the provider yet.
Sends(w, t) == worker[w].at = "calling" /\ worker[w].op = "submit" /\ Of(w) = t

\* Nothing of the attempt is known, neither here nor by whoever has the lease.
Untold(t) ==
  /\ begun[t] = 0 /\ upstream[t] = "none" /\ ~task[t].known /\ task[t].reply = NoReply
  /\ \A w \in Worker : Owned(w) /\ Of(w) = t => worker[w].reply = NoReply /\ worker[w].at # "accepted"

Unbegun(t) == task[t].phase \in {"ready", "preparing", "sending"} /\ task[t].attempt \in {"none", "registered"}

\* A remote generation that can be sent was not sent, a request under way is the only one,
\* and whoever may try again knows that the last attempt is over.
SendInv(t) ==
  /\ Unbegun(t) => Untold(t) /\ \A w \in Worker : ~Sends(w, t)
  /\ \A w \in Worker : Sends(w, t) => Untold(t) /\ \A v \in Worker : Sends(v, t) => v = w
  /\ Retries(task[t].reply) => upstream[t] # "running"
  /\ \A w \in Worker : Owned(w) /\ Of(w) = t /\ Retries(worker[w].reply) => upstream[t] # "running"

StateInv ==
  /\ TypeOK
  /\ account.reserved = Quote * Cardinality(Held) + account.spent
  /\ \A t \in Task : /\ LifeInv(t) /\ BillInv(t) /\ begun[t] <= 1
                     /\ tool[t] = "staged" => SendInv(t)
  /\ \A w \in Worker : ClaimInv(w)

\* What a reply that somebody may act on says of the provider's task.
Means(t, reply) ==
  /\ reply.status = "cancelled" => upstream[t] = "cancelled"
  /\ Retries(reply) /\ tool[t] = "staged" => upstream[t] \in {"none", "failed"}
  /\ reply.status \in {"located", "delivered"} => tool[t] # "text"

TaskTerms(t) ==
  /\ Means(t, task[t].reply)
  /\ task[t].phase = "preparing" => task[t].attempt \in {"none", "registered"}
  /\ task[t].phase \in {"download", "publish"} => tool[t] # "text"
  /\ tool[t] # "staged" => upstream[t] \in {"none", "done"}
  /\ upstream[t] = "cancelled" => task[t].cancel
  /\ task[t].status # "submitted" => task[t].retried = 0

\* A process, even one that lost its lease, sends and cancels only for a task that was
\* submitted or asked to cancel.
WorkerTerms(w) ==
  worker[w].at # "idle" =>
    /\ Owned(w) => Means(Of(w), worker[w].reply)
    /\ task[Of(w)].status # "queued"
    /\ Calling(w, {"cancel"}) => task[Of(w)].cancel
    /\ tool[Of(w)] = "staged" /\ Sends(w, Of(w)) => task[Of(w)].status = "submitted"

\* What the terms of the contract rest on.
TermsInv ==
  /\ run = "cancelled" => InFlight = {}
  /\ \A t \in Task : TaskTerms(t)
  /\ \A w \in Worker : WorkerTerms(w)

ExecInv == StateInv /\ TermsInv
=============================================================================
