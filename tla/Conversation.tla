------------------------------ MODULE Conversation ------------------------------
(***************************************************************************)
(* A session: the messages of a user, the run they are dispatched into,    *)
(* and the supervisor and worker that carry it out (core/sessions,         *)
(* core/supervisor).  A message is committed first, collected during a     *)
(* quiet window, and then opens a run, revises the run's input, interrupts *)
(* it, or answers its open question; plans and tasks of an older revision  *)
(* must not reach the provider.                                            *)
(*                                                                         *)
(* Intake accepts what a dispatch may reject, each time: a language, a     *)
(* viewport or a skill that open_run refuses, a selection that cannot be   *)
(* read.  The messages that are dispatched together are merged, the last   *)
(* one that says something about a field wins.                             *)
(*                                                                         *)
(* Every transaction takes the row of the session, then that of the run,   *)
(* so each is one step, but for the worker's: it locks the run alone, and  *)
(* messages are committed while it is at work.  What a plan says is one of *)
(* three shapes: an answer, one generation, or a recognition followed by a *)
(* choice of the user and a cutout.                                        *)
(*                                                                         *)
(* Left out: batches and their quotas, confirmation of plans, forms, exact *)
(* redo, budgets and round limits (CoreExecution has the credits), the     *)
(* optional self-check of a plan, and what becomes of a submitted task     *)
(* before its verdict (CoreExecution).                                     *)
(***************************************************************************)
EXTENDS Integers, Sequences

CONSTANTS MaxMessages,    \* bound: messages the user sends
          Dispatcher, None,
          ReviewRetries,  \* review_retries
          MaxFaults,      \* bound: processes and calls that die, fail or stall
          Contents        \* what a message may say beside its text

Content == [options : {"none", "good", "bad"},    \* language, viewport, skill_id
            selection : {"none", "good", "bad"}]  \* selected_assets; bad if unreadable and beside an ambiguous text

ASSUME ConversationAssumption ==
  /\ MaxMessages \in Nat /\ ReviewRetries \in Nat /\ MaxFaults \in Nat
  /\ None \notin Dispatcher
  /\ Contents \in [1..MaxMessages -> SUBSET Content]

VARIABLES message,     \* core_session_messages, by sequence number
          session,     \* dispatch_at and the dispatch lease of core_sessions
          dispatcher,  \* whether a process is between dispatch_due's transactions
          run,         \* the latest of core_runs, at most one of which is active
          task,        \* the tasks of its latest plan
          inbox,       \* core_supervisor_invocations that are not done, oldest first
          worker,      \* a worker's transaction that holds the run: for which task,
                       \* and the messages committed since it looked
          asked,       \* the user asked for the end of the run
          faults
vars == <<message, session, dispatcher, run, task, inbox, worker, asked, faults>>

Message == 1..MaxMessages
Over == {"none", "completed", "failed", "cancelled"}
Step == {"detect", "ask", "make"}
Unsubmitted == {"validated", "queued", "waiting_user"}
Terminal == {"none", "succeeded", "failed", "cancelled"}

Nothing == [options |-> "none", selection |-> "none"]
NoTasks == [n \in Step |-> [status |-> "none", revision |-> 0]]
NoRun ==
  [number |-> 0, status |-> "none", revision |-> 0, fence |-> 0, submitted |-> FALSE,
   planned |-> FALSE,      \* current_plan_id is set
   interrupted |-> FALSE,  \* error.interrupt_pending
   ending |-> "none",      \* error.pending_terminal
   clarified |-> FALSE,    \* a form was put to the user because no plan passed review
   heard |-> {}]           \* the messages the current plan was made from

\* states.py, and a trigger of the database; plans are not confirmed here.
RunEdges ==
  [created |-> {"planning", "failed", "cancelled"},
   planning |-> {"running", "paused", "failed", "cancelled"},
   running |-> {"planning", "paused", "completed", "failed", "cancelled"},
   paused |-> {"planning", "running", "failed", "cancelled"}]

\* The columns of a run, a task and an invocation.
Run == [number : Nat, status : Over \cup {"created", "planning", "running", "paused"}, revision : Nat, fence : Nat,
        submitted : BOOLEAN, planned : BOOLEAN, interrupted : BOOLEAN, ending : {"none", "failed", "cancelled"},
        clarified : BOOLEAN, heard : SUBSET Message]

Row == [status : Terminal \cup Unsubmitted \cup {"submitted"}, revision : Nat]

Invocations == [kind : {"user_message", "user_confirmed", "user_interrupt", "task_ended", "task_cancelled", "clarify"},
                revision : Nat, status : {"pending", "calling", "answer", "plan"}, attempt : Nat,
                built : BOOLEAN, heard : SUBSET Message]

Active(r) == r.status \notin Over
Pending == {m \in Message : message[m].status = "pending"}
Tasks(t, statuses) == {n \in Step : t[n].status \in statuses}
Live == IF run.planned THEN {n \in Step : task[n].status # "none"} ELSE {}

\* Events reach the supervisor through wake, in order; none for a run that is over.
\* revision is context.input_revision, 0 where the context has none.
Invocation(kind, revision) ==
  [kind |-> kind, revision |-> revision, status |-> "pending", attempt |-> 0, built |-> FALSE, heard |-> {}]
Woken(r, queue, kind) == IF Active(r) THEN Append(queue, Invocation(kind, r.revision)) ELSE queue
-----------------------------------------------------------------------------
(* fencing.py                                                              *)

RevisionBlocks(r, row) == row.revision # r.revision \/ r.fence # r.revision

\* Fault: the fence of the run is all that is asked.
BlockedByFence(n) == RevisionBlocks(run, task[n])

Blocked(n) == RevisionBlocks(run, task[n]) \/ Pending # {}

\* Fault: every message raises the fence.
BumpedAgain(r) == [r EXCEPT !.fence = @ + 1]

Bumped(r) == [r EXCEPT !.fence = IF @ > r.revision + 1 THEN @ ELSE r.revision + 1]

Obsolete(r, invocation) == r.fence # r.revision \/ invocation.revision \notin {0, r.revision}
-----------------------------------------------------------------------------
(* intake.py: commit first.  The run's fence is raised if nobody holds the *)
(* run ("SKIP LOCKED").                                                    *)

Post(m) ==
  /\ message[m].status = "new" /\ \A k \in Message : k < m => message[k].status # "new"
  /\ \E says \in Contents[m] : message' = [message EXCEPT ![m].status = "pending", ![m].says = says]
  /\ session' = [session EXCEPT !.due = "later"]
  /\ \/ UNCHANGED run
     \/ worker.task = None /\ Active(run) /\ run' = Bumped(run)
  /\ worker' = IF worker.task = None THEN worker ELSE [worker EXCEPT !.late = @ \cup {m}]
  /\ UNCHANGED <<dispatcher, task, inbox, asked, faults>>

WindowCloses ==
  /\ session.due = "later" /\ session' = [session EXCEPT !.due = "now"]
  /\ UNCHANGED <<message, dispatcher, run, task, inbox, worker, asked, faults>>
-----------------------------------------------------------------------------
(* What a transaction does to run and tasks.                               *)

CancelUnsubmitted(t) ==
  [n \in Step |-> IF t[n].status \in Unsubmitted THEN [t[n] EXCEPT !.status = "cancelled"] ELSE t[n]]

\* Fault: the run ends at once, whatever is in flight.
StoppedAtOnce(r, t, status) == [r EXCEPT !.status = status]

\* stop: what is in flight is settled first, the run waits for it.
Stopped(r, t, status) ==
  IF Tasks(t, {"submitted"}) # {} THEN [r EXCEPT !.status = "paused", !.ending = status]
  ELSE IF Active(r) THEN [r EXCEPT !.status = status] ELSE r

Stop(status) ==
  /\ run' = Stopped(run, task, status)
  /\ task' = CancelUnsubmitted(task)

\* append_revision
Revised(r) == [r EXCEPT !.revision = @ + 1, !.fence = r.revision + 1]

Processed(revision) ==
  [m \in Message |-> IF m \in Pending THEN [message[m] EXCEPT !.status = "processed", !.run = run'.number, !.revision = revision]
                     ELSE message[m]]

Waiting == task["ask"].status = "waiting_user" /\ run.status = "paused"
AskedForm == task["make"].status = "none"

\* service.answer: an answered form asks for a new plan.
Answered ==
  /\ task' = [task EXCEPT !["ask"].status = "succeeded"]
  /\ run' = IF AskedForm THEN [run EXCEPT !.planned = FALSE] ELSE run
  /\ inbox' = Woken(run, inbox, "user_confirmed")
-----------------------------------------------------------------------------
(* dispatch.py                                                             *)

\* effective_request: the last message that says something about a field wins.
Bad(field, messages) ==
  \E m \in messages : message[m].says[field] = "bad" /\ \A k \in messages : k > m => message[k].says[field] = "none"

\* What open_run raises on, and append_revision: the latter merges the messages of the run,
\* and only reads the selection.
Rejected ==
  IF Active(run) THEN Bad("selection", Pending \cup {m \in Message : message[m].run = run.number})
  ELSE Bad("options", Pending) \/ Bad("selection", Pending)

\* Fault: a lease that ran out is not taken over.
LeaseWhenFree(d) ==
  /\ dispatcher[d] = "idle" /\ session.due = "now" /\ session.lease = None
  /\ session' = [session EXCEPT !.lease = d, !.expired = FALSE]
  /\ dispatcher' = [dispatcher EXCEPT ![d] = "leased"]
  /\ UNCHANGED <<message, run, task, inbox, worker, asked, faults>>

Lease(d) ==
  /\ dispatcher[d] = "idle" /\ session.due = "now" /\ (session.lease = None \/ session.expired)
  /\ session' = [session EXCEPT !.lease = d, !.expired = FALSE]
  /\ dispatcher' = [dispatcher EXCEPT ![d] = "leased"]
  /\ UNCHANGED <<message, run, task, inbox, worker, asked, faults>>

Dispatches(d) == dispatcher[d] = "leased" /\ dispatcher' = [dispatcher EXCEPT ![d] = "idle"]
Owns(d) == session.lease = d
Due(due) == session' = [due |-> due, lease |-> None, expired |-> FALSE]

DispatchFenced(d) ==
  /\ Dispatches(d) /\ ~Owns(d)
  /\ UNCHANGED <<message, session, run, task, inbox, worker, asked, faults>>

\* A newer message postponed it, another dispatcher was faster, or the run is locked.
DispatchLater(d) ==
  /\ Dispatches(d) /\ Owns(d)
  /\ session.due # "now" \/ Pending = {} \/ (Active(run) /\ worker.task # None)
  /\ Due(IF session.due # "now" THEN session.due ELSE IF Pending = {} THEN "never" ELSE "later")
  /\ UNCHANGED <<message, run, task, inbox, worker, asked, faults>>

Merges(d) == Dispatches(d) /\ Owns(d) /\ session.due = "now" /\ Pending # {} /\ worker.task = None

\* The transaction raises and is rolled back: messages, window and lease stay.
DispatchFails(d) ==
  /\ Merges(d) /\ Rejected
  /\ UNCHANGED <<message, session, run, task, inbox, worker, asked, faults>>

Dispatching(d) == Merges(d) /\ Due("never")

DispatchOpens(d) ==
  /\ Dispatching(d) /\ ~Active(run) /\ ~Rejected
  /\ run' = [NoRun EXCEPT !.number = run.number + 1, !.status = "created", !.revision = 1, !.fence = 1]
  /\ task' = NoTasks /\ inbox' = <<Invocation("user_message", 1)>>
  /\ message' = Processed(1)
  /\ asked' = FALSE /\ UNCHANGED <<worker, faults>>

\* "A waiting subject choice can be answered by plain chat".
DispatchAnswers(d) ==
  /\ Dispatching(d) /\ Waiting /\ ~AskedForm
  /\ Answered
  /\ message' = Processed(0)
  /\ UNCHANGED <<worker, asked, faults>>

DispatchRevises(d) ==
  /\ Dispatching(d) /\ Active(run) /\ ~run.submitted /\ ~Rejected
  /\ run' = [Revised(run) EXCEPT !.planned = FALSE]
  /\ task' = CancelUnsubmitted(task)
  /\ inbox' = Woken(run', inbox, "user_message")
  /\ message' = Processed(run'.revision)
  /\ UNCHANGED <<worker, asked, faults>>

DispatchInterrupts(d) ==
  /\ Dispatching(d) /\ Active(run) /\ run.submitted /\ ~Rejected
  /\ run' = Revised(run)
  /\ inbox' = Woken(run', inbox, "user_interrupt")
  /\ message' = Processed(run'.revision)
  /\ UNCHANGED <<task, worker, asked, faults>>

\* Another transaction holds the row of the session ("SKIP LOCKED"), or the process dies:
\* the lease stays.
DispatchSkips(d) ==
  /\ Dispatches(d)
  /\ UNCHANGED <<message, session, run, task, inbox, worker, asked, faults>>

Expires ==
  /\ session.lease # None /\ ~session.expired
  /\ session' = [session EXCEPT !.expired = TRUE]
  /\ UNCHANGED <<message, dispatcher, run, task, inbox, worker, asked>>

LeaseExpires == Expires /\ dispatcher[session.lease] = "idle" /\ UNCHANGED faults

\* The dispatcher is slower than its lease.
DispatcherStalls ==
  /\ Expires /\ dispatcher[session.lease] = "leased"
  /\ faults < MaxFaults /\ faults' = faults + 1
-----------------------------------------------------------------------------
(* The worker (execution/engine.py): the run is locked, its revision and   *)
(* the pending messages are looked at, the submission is committed.        *)

Takes(n) ==
  /\ worker.task = None
  /\ run.status = "running" /\ task[n].status = "queued" /\ n \in Live

Take(n) ==
  /\ Takes(n) /\ ~Blocked(n)
  /\ worker' = [task |-> n, late |-> {}]
  /\ UNCHANGED <<message, session, dispatcher, run, task, inbox, asked, faults>>

\* Fault: nobody is told.
RefuseSilently(n) ==
  /\ Takes(n) /\ Blocked(n)
  /\ task' = [task EXCEPT ![n].status = "cancelled"]
  /\ UNCHANGED <<message, session, dispatcher, run, inbox, worker, asked, faults>>

Refuse(n) ==
  /\ Takes(n) /\ Blocked(n)
  /\ task' = [task EXCEPT ![n].status = "cancelled"]
  /\ inbox' = Woken(run, inbox, "task_cancelled")
  /\ UNCHANGED <<message, session, dispatcher, run, worker, asked, faults>>

Submit ==
  /\ worker.task # None
  /\ task' = [task EXCEPT ![worker.task].status = "submitted"]
  /\ run' = [run EXCEPT !.submitted = TRUE]
  /\ worker' = [task |-> None, late |-> {}]
  /\ UNCHANGED <<message, session, dispatcher, inbox, asked, faults>>

\* No credits, no inputs, or the process dies: rolled back.
RollBack ==
  /\ worker.task # None /\ faults < MaxFaults /\ faults' = faults + 1
  /\ worker' = [task |-> None, late |-> {}]
  /\ UNCHANGED <<message, session, dispatcher, run, task, inbox, asked>>

\* finish: the verdict on a submitted task.  One that was asked to stop may be cancelled.
TaskEnds(n) ==
  /\ task[n].status = "submitted" /\ worker.task = None
  /\ \E verdict \in {"succeeded", "failed"} \cup (IF run.ending # "none" THEN {"cancelled"} ELSE {}) :
       /\ task' = [task EXCEPT ![n].status = verdict]
       /\ inbox' = Woken(run, inbox, IF verdict = "cancelled" THEN "task_cancelled" ELSE "task_ended")
  /\ UNCHANGED <<message, session, dispatcher, run, worker, asked, faults>>
-----------------------------------------------------------------------------
(* The user: picks an option, stops the run, or lets the choice run out.   *)

Answer ==
  /\ Waiting /\ worker.task = None
  /\ Answered
  /\ UNCHANGED <<message, session, dispatcher, worker, asked, faults>>

Cancel ==
  /\ Active(run) /\ ~asked /\ worker.task = None
  /\ Stop("cancelled") /\ asked' = TRUE
  /\ UNCHANGED <<message, session, dispatcher, inbox, worker, faults>>

ExpireChoice ==
  /\ task["ask"].status = "waiting_user" /\ ~AskedForm /\ Active(run) /\ worker.task = None
  /\ Stop("cancelled") /\ asked' = TRUE
  /\ UNCHANGED <<message, session, dispatcher, inbox, worker, faults>>
-----------------------------------------------------------------------------
(* advance (supervisor/engine.py): what follows from the tasks of a plan.  *)

Resumed(r, t) == IF r.status = "paused" /\ t["ask"].status # "waiting_user" THEN [r EXCEPT !.status = "running"] ELSE r
Outcome(r, t) == [run |-> r, task |-> t, replan |-> FALSE]

\* dispatch_ready: a form is put to the user, everything else goes to the workers.
\* The cutout of a choice is queued by Chosen alone.
DispatchReady(r, t) ==
  IF t["ask"].status = "validated"
  THEN Outcome([r EXCEPT !.status = "paused"], [t EXCEPT !["ask"].status = "waiting_user"])
  ELSE Outcome(r, [n \in Step |-> IF t[n].status = "validated" /\ (n = "make" => t["detect"].status = "none")
                                  THEN [t[n] EXCEPT !.status = "queued"] ELSE t[n]])

Proceeds(r, t) ==
  IF \A n \in Step : t[n].status \in Terminal
  THEN IF r.interrupted THEN [Outcome([r EXCEPT !.planned = FALSE, !.interrupted = FALSE], t) EXCEPT !.replan = TRUE]
       ELSE Outcome([r EXCEPT !.status = "completed"], t)
  ELSE IF r.status = "paused" THEN Outcome(r, t) ELSE DispatchReady(r, t)

Chosen(t) == [t EXCEPT !["make"].status = "queued"]

\* handle_subjects: nothing was recognised, one subject fits, or the user has to choose.
Subjects(r, t) ==
  CASE t["ask"].status = "none" ->
         {Proceeds(r, [t EXCEPT !["make"].status = "cancelled"]),
          Proceeds(r, Chosen(t)),
          Outcome([r EXCEPT !.status = "paused"], [t EXCEPT !["ask"] = [status |-> "waiting_user", revision |-> 1]])}
    [] t["ask"].status = "succeeded" -> {Proceeds(r, Chosen(t))}
    [] OTHER -> {Outcome(r, t)}

Advanced(r, t) ==
  IF t["detect"].status = "succeeded" /\ t["make"].status = "validated"
  THEN Subjects(Resumed(r, t), t) ELSE {Proceeds(Resumed(r, t), t)}

Advance(r, t) ==
  \E outcome \in Advanced(r, t) :
    /\ run' = outcome.run /\ task' = outcome.task
    /\ inbox' = IF outcome.replan THEN Woken(run', Tail(inbox), "user_message") ELSE Tail(inbox)
-----------------------------------------------------------------------------
(* tick (supervisor/engine.py): one step of the oldest invocation.         *)

Oldest == inbox[1]
Kept(status) == inbox' = [inbox EXCEPT ![1].status = status]
Done == inbox' = Tail(inbox)

\* Fault: the end is only kept in mind while something is in flight.
SettlingInFlight == run.ending # "none" /\ Tasks(task, {"submitted"}) # {}

Settling == run.ending # "none"

\* The checks of a tick in their order; the first that applies decides.
Finds ==
  IF ~Active(run) THEN "over"
  ELSE IF Settling THEN "settling"
  ELSE IF Tasks(task, {"failed"}) # {} /\ Oldest.kind # "task_cancelled" THEN "broken"
  ELSE IF Oldest.kind = "user_interrupt" THEN "interrupt"
  ELSE IF Pending # {} THEN "quiet"
  ELSE IF \E n \in Live : task[n].status = "cancelled" /\ task[n].revision = run.revision THEN "cancelled"
  ELSE IF run.interrupted /\ Tasks(task, {"submitted"}) = {} THEN "replan"
  ELSE IF ~run.interrupted /\ Tasks(task, {"failed"}) \cap Live # {} THEN "failed"
  ELSE IF run.planned THEN "advance"
  ELSE IF Waiting THEN "quiet"
  ELSE IF Oldest.status \in {"answer", "plan"} THEN "accept" ELSE "call"

Tick(found) == worker.task = None /\ inbox # <<>> /\ Oldest.status # "calling" /\ Finds = found

TickDrops ==
  /\ Tick("over") \/ Tick("quiet")
  /\ Done /\ UNCHANGED <<message, session, dispatcher, run, task, worker, asked, faults>>

TickSettles ==
  /\ Tick("settling")
  /\ run' = IF \A n \in Step : task[n].status \in Terminal THEN [run EXCEPT !.status = run.ending] ELSE run
  /\ Done /\ UNCHANGED <<message, session, dispatcher, task, worker, asked, faults>>

\* What the user has said meanwhile is dropped with the run.
TickBreaks ==
  /\ Tick("broken") /\ Stop("failed")
  /\ message' = [m \in Message |-> IF m \in Pending THEN [message[m] EXCEPT !.status = "cancelled", !.run = run.number]
                                   ELSE message[m]]
  /\ Due("never")
  /\ Done /\ UNCHANGED <<dispatcher, worker, asked, faults>>

TickStops ==
  /\ \/ Tick("cancelled") /\ Stop("cancelled")
     \/ Tick("failed") /\ Stop("failed")
  /\ Done /\ UNCHANGED <<message, session, dispatcher, worker, asked, faults>>

\* apply_interrupt: what is in flight is awaited, the rest of the plan is dropped.
TickInterrupts ==
  /\ Tick("interrupt")
  /\ IF Oldest.revision # run.revision THEN UNCHANGED <<run, task>> /\ Done
     ELSE /\ task' = CancelUnsubmitted(task)
          /\ IF Tasks(task, {"submitted"}) # {}
             THEN run' = [run EXCEPT !.interrupted = TRUE] /\ Done
             ELSE /\ run' = [run EXCEPT !.planned = FALSE, !.fence = run.revision,
                                        !.status = IF @ = "created" THEN "planning" ELSE IF @ = "paused" THEN "running" ELSE @]
                  /\ inbox' = Woken(run', Tail(inbox), "user_message")
  /\ UNCHANGED <<message, session, dispatcher, worker, asked, faults>>

TickReplans ==
  /\ Tick("replan")
  /\ run' = [run EXCEPT !.planned = FALSE, !.interrupted = FALSE]
  /\ inbox' = Woken(run', Tail(inbox), "user_message")
  /\ UNCHANGED <<message, session, dispatcher, task, worker, asked, faults>>

TickAdvances ==
  /\ Tick("advance") /\ Advance(run, task)
  /\ UNCHANGED <<message, session, dispatcher, worker, asked, faults>>

\* The model is called with what was processed when its context was first built.
Heard == {m \in Message : message[m].status = "processed" /\ message[m].run = run.number}
Planning(r) == [r EXCEPT !.status = IF @ = "created" THEN "planning" ELSE IF @ = "paused" THEN "running" ELSE @]

TickCalls ==
  /\ Tick("call")
  /\ inbox' = [inbox EXCEPT ![1] = IF @.built THEN [@ EXCEPT !.status = "calling"]
                                   ELSE [@ EXCEPT !.status = "calling", !.built = TRUE, !.revision = run.revision, !.heard = Heard]]
  /\ run' = Planning(run)
  /\ UNCHANGED <<message, session, dispatcher, task, worker, asked, faults>>

Calling == inbox # <<>> /\ Oldest.status = "calling" /\ worker.task = None

\* The result is stored before it is looked at: an answer that the review lets pass, or a plan.
PlannerReturns ==
  /\ Calling
  /\ IF Obsolete(run, Oldest) THEN Done ELSE Kept("answer") \/ Kept("plan")
  /\ UNCHANGED <<message, session, dispatcher, run, task, worker, asked, faults>>

\* The call fails, or its process dies and the lease runs out: the next tick calls again.
PlannerLost ==
  /\ Calling /\ faults < MaxFaults /\ faults' = faults + 1
  /\ Kept("pending")
  /\ UNCHANGED <<message, session, dispatcher, run, task, worker, asked>>

PlannerGivesUp ==
  /\ Calling /\ faults < MaxFaults /\ faults' = faults + 1
  /\ Stop("failed") /\ Done
  /\ UNCHANGED <<message, session, dispatcher, worker, asked>>
-----------------------------------------------------------------------------
(* accept: the verdict on a plan.                                          *)

Accepts == Tick("accept") /\ ~Obsolete(run, Oldest)

AcceptObsolete ==
  /\ Tick("accept") /\ Obsolete(run, Oldest)
  /\ Done /\ UNCHANGED <<message, session, dispatcher, run, task, worker, asked, faults>>

\* answer_only: the run becomes running, then completed.  The transaction of a run that is
\* running already fails, each time.
AcceptAnswer ==
  /\ Accepts /\ Oldest.status = "answer" /\ "running" \in RunEdges[Planning(run).status]
  /\ run' = [run EXCEPT !.status = "completed", !.planned = TRUE, !.heard = Oldest.heard]
  /\ task' = NoTasks
  /\ Done /\ UNCHANGED <<message, session, dispatcher, worker, asked, faults>>

\* _create_tasks
Created(steps) == [n \in Step |-> IF n \in steps THEN [status |-> "validated", revision |-> run.revision] ELSE NoTasks[n]]
Accepted == [run EXCEPT !.status = "running", !.planned = TRUE, !.heard = Oldest.heard]

AcceptPlan ==
  /\ Accepts /\ Oldest.status = "plan"
  /\ \E steps \in IF Oldest.kind = "clarify" THEN {{"ask"}} ELSE {{"make"}, {"detect", "make"}} :
       Advance(Accepted, Created(steps))
  /\ UNCHANGED <<message, session, dispatcher, worker, asked, faults>>

\* The plan does not pass review: again, then a form for the user, then the end.
Retried(kind, status) ==
  [kind |-> kind, revision |-> 0, status |-> status, attempt |-> Oldest.attempt + 1, built |-> FALSE, heard |-> {}]

RejectPlan ==
  /\ Accepts /\ Oldest.status = "plan" /\ Oldest.kind # "clarify"
  /\ \/ /\ Oldest.attempt < ReviewRetries
        /\ inbox' = Append(Tail(inbox), Retried(Oldest.kind, "pending")) /\ UNCHANGED <<run, task>>
     \/ /\ Oldest.attempt = ReviewRetries /\ ~run.clarified
        /\ inbox' = Append(Tail(inbox), Retried("clarify", "plan"))
        /\ run' = [run EXCEPT !.clarified = TRUE] /\ UNCHANGED task
     \/ /\ Oldest.attempt = ReviewRetries /\ run.clarified
        /\ Stop("failed") /\ Done
  /\ UNCHANGED <<message, session, dispatcher, worker, asked, faults>>
-----------------------------------------------------------------------------
Init ==
  /\ message = [m \in Message |-> [status |-> "new", run |-> 0, revision |-> 0, says |-> Nothing]]
  /\ session = [due |-> "never", lease |-> None, expired |-> FALSE]
  /\ dispatcher = [d \in Dispatcher |-> "idle"]
  /\ run = NoRun /\ task = NoTasks /\ inbox = <<>>
  /\ worker = [task |-> None, late |-> {}]
  /\ asked = FALSE /\ faults = 0

Dispatch(d) ==
  \/ DispatchFenced(d) \/ DispatchLater(d) \/ DispatchFails(d)
  \/ DispatchOpens(d) \/ DispatchAnswers(d) \/ DispatchRevises(d) \/ DispatchInterrupts(d)

Supervise ==
  \/ TickDrops \/ TickSettles \/ TickBreaks \/ TickStops \/ TickInterrupts \/ TickReplans \/ TickAdvances \/ TickCalls
  \/ AcceptObsolete \/ AcceptAnswer \/ AcceptPlan \/ RejectPlan

Work == (\E n \in Step : Take(n) \/ Refuse(n)) \/ Submit

User == (\E m \in Message : Post(m)) \/ Answer \/ Cancel

Next ==
  \/ User \/ ExpireChoice
  \/ WindowCloses \/ LeaseExpires \/ DispatcherStalls
  \/ \E d \in Dispatcher : Lease(d) \/ Dispatch(d) \/ DispatchSkips(d)
  \/ Supervise \/ PlannerReturns \/ PlannerLost \/ PlannerGivesUp
  \/ Work \/ RollBack
  \/ \E n \in Step : TaskEnds(n)

Spec == Init /\ [][Next]_vars

\* The daemons poll, deadlines pass, calls of the model have a timeout, and a dispatcher does
\* not die, or find the session locked, each time.  Neither the user nor the provider has to do anything.
Fairness ==
  /\ WF_vars(WindowCloses) /\ WF_vars(LeaseExpires)
  /\ WF_vars(\E d \in Dispatcher : Lease(d))
  /\ SF_vars(\E d \in Dispatcher : Dispatch(d))
  /\ WF_vars(Supervise) /\ WF_vars(PlannerReturns) /\ WF_vars(Work)

FairSpec == Spec /\ Fairness
-----------------------------------------------------------------------------
(* Properties.                                                             *)

TypeOK ==
  /\ message \in [Message -> [status : {"new", "pending", "processed", "cancelled"}, run : Nat, revision : Nat,
                             says : Content]]
  /\ session \in [due : {"never", "later", "now"}, lease : Dispatcher \cup {None}, expired : BOOLEAN]
  /\ dispatcher \in [Dispatcher -> {"idle", "leased"}]
  /\ run \in Run /\ run.fence \in {run.revision, run.revision + 1}
  /\ task \in [Step -> Row]
  /\ inbox \in Seq(Invocations)
  /\ worker \in [task : Step \cup {None}, late : SUBSET Message]
  /\ asked \in BOOLEAN /\ faults \in 0..MaxFaults

\* The messages of this run that are for the planner; an answer in the chat is not.
Said == {m \in Message : message[m].status = "processed" /\ message[m].run = run.number /\ message[m].revision # 0}

\* What reaches the provider was planned with everything the user had said when the
\* worker looked: no pending message, no message of this run that the plan has not
\* heard (assert_submittable, invocation_obsolete).
PlannedWithEverythingSaid ==
  worker.task # None => Pending \cup (Said \ run.heard) \subseteq worker.late

\* A run that is over leaves nothing behind that could still be submitted, charged or
\* answered (stop, "pending_terminal").
TerminalMeansSettled ==
  ~Active(run) => worker.task = None /\ \A n \in Step : task[n].status \in Terminal

\* Nothing is submitted for a run that the user has stopped, whatever is said, answered,
\* planned or settled after that (stop, tick: "pending_terminal").
NothingIsSubmittedAfterStop ==
  [][\A n \in Step : asked /\ task[n].status # "submitted" => task'[n].status # "submitted"]_vars

\* Does not hold, see README.  A run that completes has answered every message that was put
\* into it ("Never complete it or submit an old plan before the dispatcher revises it").
NothingIsOverheard ==
  run.status = "completed" => Said \subseteq run.heard

\* Does not hold, see README.  A run is cancelled by its user or for lack of a choice, never
\* by the system's own fences ("A waiting subject choice can be answered by plain chat").
AnsweredChoiceGoesOn == run.status = "cancelled" => asked

\* Every message is taken up, whatever dies or is locked meanwhile, unless what was said with
\* it is rejected by each dispatch; one that a later message corrects is taken up with that
\* (dispatch_due, effective_request).
EveryMessageIsTaken ==
  \A m \in Message : message[m].status = "pending" ~> message[m].status # "pending" \/ Rejected

\* Does not hold, see README.  A message that was accepted gets its turn ("after the terminal
\* state the next turn is dispatched in order"): a rejected one, and all after it, wait for ever.
EveryMessageGetsItsTurn == \A m \in Message : message[m].status = "pending" ~> message[m].status # "pending"

\* A run ends, or waits for the user or for a verdict of the provider, whatever was said to it
\* meanwhile: it is never stranded between the queue of events, the fences and the workers.
\* Expected to be violated (tick, accept: "after the safe boundary a new input revision and
\* Plan version in the same Run ... carries out the user's new request").
AtRest == ~Active(run) \/ Waiting \/ Tasks(task, {"submitted"}) # {}
NoRunIsStranded == []<>AtRest

\* What strands a run is an answer for one that is running, or a message that no dispatch can
\* merge into it, and nothing else.
Jammed == inbox # <<>> /\ Oldest.status = "answer" /\ "running" \notin RunEdges[Planning(run).status]
EveryRunComesToRest == []<>(AtRest \/ (Active(run) /\ (Jammed \/ Rejected)))
=============================================================================
