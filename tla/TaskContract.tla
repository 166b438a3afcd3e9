---------------------------- MODULE TaskContract ----------------------------
(***************************************************************************)
(* What the user and the paying workspace are promised of the tasks of a   *)
(* run, without workers, leases, phases, replies, callbacks or deadlines:  *)
(* a task is submitted when its quote can be held, has at most one remote  *)
(* generation at a time and a new one only after a failed one, gets one    *)
(* verdict, which settles its credits, pays only for a finished generation,*)
(* and is cancelled, while it is in flight, only when somebody asked.      *)
(***************************************************************************)
EXTENDS Integers, FiniteSets

CONSTANTS Task,
          Quote,    \* credits held for a task in flight
          Prices,   \* what a finished generation may cost
          Limit,    \* credits the run may hold and spend
          Retries   \* retries of a task

VARIABLES local,       \* tasks computed here; the others are generated remotely
          texts,       \* those of them whose result is kept as it is answered
          verdict,     \* "queued", "submitted" or the final one
          asked,       \* somebody asked to cancel the task
          generation,  \* what became of the current attempt
          retried,     \* new attempts of a task in flight
          funds,       \* credits the workspace may still spend
          spent,       \* credits the run has paid
          charged,     \* what each task was charged
          assets,      \* assets of each task
          drawn        \* tasks whose asset was put on the canvas

vars == <<local, texts, verdict, asked, generation, retried, funds, spent, charged, assets, drawn>>

InFlight == {t \in Task : verdict[t] = "submitted"}

Init ==
  /\ local \subseteq Task /\ texts \subseteq local
  /\ verdict = [t \in Task |-> "queued"] /\ asked = [t \in Task |-> FALSE]
  /\ generation = [t \in Task |-> "none"] /\ retried = [t \in Task |-> 0]
  /\ funds = 0 /\ spent = 0 /\ charged = [t \in Task |-> 0]
  /\ assets = [t \in Task |-> 0] /\ drawn = [t \in Task |-> FALSE]

TopUp ==
  /\ funds' > funds
  /\ UNCHANGED <<local, texts, verdict, asked, generation, retried, spent, charged, assets, drawn>>

\* The credits of every task in flight are held apart.
Submit(t) ==
  /\ verdict[t] = "queued"
  /\ funds >= Quote /\ Quote * (Cardinality(InFlight) + 1) + spent <= Limit
  /\ verdict' = [verdict EXCEPT ![t] = "submitted"]
  /\ funds' = funds - Quote
  /\ UNCHANGED <<local, texts, asked, generation, retried, spent, charged, assets, drawn>>

Refuse(t) ==
  /\ verdict[t] = "queued"
  /\ \E v \in {"failed", "cancelled"} : verdict' = [verdict EXCEPT ![t] = v]
  /\ asked' \in {asked, [asked EXCEPT ![t] = TRUE]}
  /\ UNCHANGED <<local, texts, generation, retried, funds, spent, charged, assets, drawn>>

Ask(t) ==
  /\ verdict[t] = "submitted"
  /\ asked' = [asked EXCEPT ![t] = TRUE]
  /\ UNCHANGED <<local, texts, verdict, generation, retried, funds, spent, charged, assets, drawn>>

\* The run is stopped: what has not begun is dropped, the rest is asked to cancel.
StopAll ==
  /\ verdict' = [t \in Task |-> IF verdict[t] = "queued" THEN "cancelled" ELSE verdict[t]]
  /\ asked' = [t \in Task |-> asked[t] \/ verdict[t] = "submitted"]
  /\ UNCHANGED <<local, texts, generation, retried, funds, spent, charged, assets, drawn>>

Generate(t) ==
  /\ t \notin local /\ verdict[t] = "submitted" /\ generation[t] = "none"
  /\ generation' = [generation EXCEPT ![t] = "running"]
  /\ UNCHANGED <<local, texts, verdict, asked, retried, funds, spent, charged, assets, drawn>>

\* The provider gives a generation up for a cancellation, never by itself.
End(t) ==
  /\ generation[t] = "running"
  /\ \E end \in {"done", "failed"} \cup (IF asked[t] THEN {"cancelled"} ELSE {}) :
       generation' = [generation EXCEPT ![t] = end]
  /\ UNCHANGED <<local, texts, verdict, asked, retried, funds, spent, charged, assets, drawn>>

\* Local work costs nothing while it is done, and may be done again.
Compute(t) ==
  /\ t \in local /\ verdict[t] # "queued"
  /\ generation' = [generation EXCEPT ![t] = "done"]
  /\ UNCHANGED <<local, texts, verdict, asked, retried, funds, spent, charged, assets, drawn>>

\* A remote attempt is given up for another one when it was refused or failed.
Retry(t) ==
  /\ verdict[t] = "submitted" /\ ~asked[t]
  /\ retried[t] < Retries
  /\ t \notin local => generation[t] \in {"none", "failed"}
  /\ retried' = [retried EXCEPT ![t] = retried[t] + 1]
  /\ generation' = [generation EXCEPT ![t] = "none"]
  /\ UNCHANGED <<local, texts, verdict, asked, funds, spent, charged, assets, drawn>>

\* The verdict and the credits change together.
Settle(t, v, price) ==
  /\ verdict[t] = "submitted"
  /\ verdict' = [verdict EXCEPT ![t] = v]
  /\ retried' = [retried EXCEPT ![t] = 0]
  /\ charged' = [charged EXCEPT ![t] = price]
  /\ funds' = funds + (Quote - price)
  /\ spent' = spent + price
  /\ UNCHANGED <<local, texts, asked, generation>>

Fail(t) ==
  /\ \E v \in {"failed", "blocked_by_model"} : Settle(t, v, 0)
  /\ UNCHANGED <<assets, drawn>>

\* Nothing was begun, or the provider confirmed that it stopped.
Cancel(t) ==
  /\ asked[t]
  /\ t \notin local => generation[t] \in {"none", "cancelled"}
  /\ Settle(t, "cancelled", 0)
  /\ UNCHANGED <<assets, drawn>>

\* The one asset of a task, on the canvas only when nobody asked to cancel.
Shown(t) ==
  /\ assets' = [assets EXCEPT ![t] = 1]
  /\ \E shown \in BOOLEAN : drawn' = [drawn EXCEPT ![t] = shown /\ ~asked[t]]

\* A result without an asset.
Answer(t) ==
  /\ t \notin texts /\ generation[t] = "done"
  /\ \E price \in Prices : price <= Quote /\ Settle(t, "succeeded", price)
  /\ UNCHANGED <<assets, drawn>>

\* A text is kept before its verdict, which no cancellation changes: it is paid for
\* when the task succeeds, and stays for nothing when the task fails.
AnswerText(t) ==
  /\ t \in texts /\ generation[t] = "done" /\ assets[t] = 0
  /\ \/ \E price \in Prices : price <= Quote /\ Settle(t, "succeeded", price)
     \/ Settle(t, "failed", 0)
  /\ Shown(t)

\* What was asked to cancel but is finished is paid for and kept, not shown.
Publish(t) ==
  /\ t \notin texts /\ generation[t] = "done" /\ assets[t] = 0
  /\ \E price \in Prices :
       price <= Quote /\ Settle(t, IF asked[t] THEN "cancelled" ELSE "succeeded", price)
  /\ Shown(t)

Next ==
  \/ TopUp \/ StopAll
  \/ \E t \in Task :
       \/ Submit(t) \/ Refuse(t) \/ Ask(t)
       \/ Generate(t) \/ End(t) \/ Compute(t) \/ Retry(t)
       \/ Fail(t) \/ Cancel(t) \/ Answer(t) \/ AnswerText(t) \/ Publish(t)

Spec == Init /\ [][Next]_vars
=============================================================================
