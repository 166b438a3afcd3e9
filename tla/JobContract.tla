----------------------------- MODULE JobContract -----------------------------
(***************************************************************************)
(* What the execution of jobs promises its callers and the account that    *)
(* pays, without leases, phases, workers or deadlines: every accepted job  *)
(* costs at most one upstream generation, at most Capacity of them run at  *)
(* a time, a job is delivered once and only from a finished generation     *)
(* (or, for local work, from none), is reported failed only when nothing   *)
(* runs upstream for it, and a verdict is final.                           *)
(***************************************************************************)
EXTENDS Integers, FiniteSets

CONSTANTS Job,       \* accepted jobs
          Local,     \* the jobs that need no upstream generation
          Capacity   \* upstream generations that may run at once

VARIABLES verdict,      \* verdict[j]: what the caller is told
          generation    \* generation[j]: the one paid generation

vars == <<verdict, generation>>

Running == {j \in Job : generation[j] = "running"}

Init ==
  /\ verdict = [j \in Job |-> "pending"]
  /\ generation = [j \in Job |-> "none"]

Generate(j) ==
  /\ verdict[j] = "pending"
  /\ generation[j] = "none"
  /\ j \notin Local
  /\ Cardinality(Running) < Capacity
  /\ generation' = [generation EXCEPT ![j] = "running"]
  /\ UNCHANGED verdict

Finish(j) ==
  /\ generation[j] = "running"
  /\ \E end \in {"done", "failed"} : generation' = [generation EXCEPT ![j] = end]
  /\ UNCHANGED verdict

Deliver(j) ==
  /\ verdict[j] = "pending"
  /\ generation[j] = "done" \/ j \in Local
  /\ verdict' = [verdict EXCEPT ![j] = "delivered"]
  /\ UNCHANGED generation

GiveUp(j) ==
  /\ verdict[j] = "pending"
  /\ generation[j] # "running"
  /\ verdict' = [verdict EXCEPT ![j] = "failed"]
  /\ UNCHANGED generation

Next == \E j \in Job : Generate(j) \/ Finish(j) \/ Deliver(j) \/ GiveUp(j)

Spec == Init /\ [][Next]_vars
=============================================================================
