------------------------ MODULE ConversationInvariant ------------------------
(***************************************************************************)
(* The inductive invariant of Conversation.                                *)
(***************************************************************************)
EXTENDS Conversation

\* Run numbers grow, and a run that is under way has a revision.
RunInv ==
  /\ Active(run) => run.revision >= 1
  /\ \A m \in Message : message[m].run <= run.number

\* No task is of a revision still to come, a choice is nobody's work, and what is in
\* flight keeps the run from its end (stop, tick, accept).
TaskInv ==
  /\ \A n \in Step \ {"ask"} : task[n].revision <= run.revision
  /\ task["ask"].status \notin {"queued", "submitted"}
  /\ ~Active(run) => \A n \in Step : task[n].status \in Terminal

\* A plan with a task of the current revision was made from all that was said.
PlanInv ==
  run.planned /\ (\E n \in Step \ {"ask"} : task[n].status # "none" /\ task[n].revision = run.revision)
    => Said \subseteq run.heard

\* An invocation whose context was built is as good as its revision; what the planner
\* returned was built, but for the form that the supervisor makes up itself.
Sound ==
  {i \in Invocations :
     /\ i.built => i.revision \in 1..run.revision
     /\ i.built /\ i.revision = run.revision => Said \subseteq i.heard
     /\ i.status # "pending" => i.built \/ i.kind = "clarify"}

\* The worker holds a run that is running, and a queued task of a plan that is up to date.
WorkerInv ==
  /\ worker.task # None =>
       /\ run.status = "running"
       /\ task[worker.task].status = "queued" /\ worker.task # "ask"
  /\ PlannedWithEverythingSaid

\* A run that was asked to stop is over, or waits for what is in flight and nothing else.
StopInv ==
  asked /\ Active(run) =>
    /\ run.status = "paused" /\ run.ending # "none"
    /\ Tasks(task, Unsubmitted) = {}

ConversationInv ==
  /\ TypeOK /\ RunInv /\ TaskInv /\ PlanInv /\ WorkerInv /\ StopInv
  /\ inbox \in Seq(Sound)
=============================================================================
